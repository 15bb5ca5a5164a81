SPECIFICATION SteadySpec
CONSTANTS
    None = None
    r1 = r1
    r2 = r2
    MaxHeight = 9
    Heights <- MCHeights
    Roots <- OneRoot
    BucketSize = 2
    ClearBatch = 1
    PrunePivots = 2
    Retention = 1
    MaxQueueLen = 6
    MaxPerBlock = 8
    Intervals = {1}
    CheckpointIntervals = {1, 2}
    CatchupBounds = {}
    DefaultInterval = 1
    DefaultPerCheckpoint = 1
    DefaultMaxCatchup = 4
    GenesisHeights = {0}
    Batches = {}
    Removals = {}
INVARIANT SteadyQueueWithinBound
CHECK_DEADLOCK FALSE
