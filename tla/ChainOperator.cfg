SPECIFICATION Spec
CONSTANTS
    None = None
    r1 = r1
    r2 = r2
    MaxHeight = 4
    Heights <- MCHeights
    Roots <- OneRoot
    BucketSize = 2
    ClearBatch = 1
    PrunePivots = 2
    Retention = 1
    MaxQueueLen = 3
    MaxPerBlock = 1
    Intervals = {1, 2}
    CheckpointIntervals = {1, 2}
    CatchupBounds = {1, 3}
    DefaultInterval = 1
    DefaultPerCheckpoint = 1
    DefaultMaxCatchup = 3
    GenesisHeights = {0, 1}
    Batches <- OperatorBatches
    Removals = {}
INVARIANTS CheckpointIndex LadderTop NoStaleAnchor HeadCanAdvance
PROPERTIES StaleStaysHidden
CHECK_DEADLOCK FALSE
