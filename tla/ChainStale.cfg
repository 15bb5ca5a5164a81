SPECIFICATION Spec
CONSTANTS
    None = None
    r1 = r1
    r2 = r2
    MaxHeight = 4
    Heights <- MCHeights
    Roots <- OneRoot
    BucketSize = 2
    ClearBatch = 1
    PrunePivots = 2
    Retention = 1
    MaxQueueLen = 4
    MaxPerBlock = 1
    Intervals = {1}
    CheckpointIntervals = {1}
    CatchupBounds = {3}
    DefaultInterval = 1
    DefaultPerCheckpoint = 1
    DefaultMaxCatchup = 3
    GenesisHeights = {0}
    Batches = {}
    Removals = {FALSE}
PROPERTIES StaleStaysHidden
CHECK_DEADLOCK FALSE
