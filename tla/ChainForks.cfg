SPECIFICATION Spec
CONSTANTS
    None = None
    r1 = r1
    r2 = r2
    MaxHeight = 6
    Heights <- MCHeights
    Roots <- TwoForks
    BucketSize = 2
    ClearBatch = 1
    PrunePivots = 2
    Retention = 1
    MaxQueueLen = 4
    MaxPerBlock = 1
    Intervals = {1}
    CheckpointIntervals = {1}
    CatchupBounds = {}
    DefaultInterval = 1
    DefaultPerCheckpoint = 1
    DefaultMaxCatchup = 3
    GenesisHeights = {0}
    Batches = {}
    Removals = {}
SYMMETRY ForkSymmetry
INVARIANTS OneChain AttestationsAccounted QueueContiguous QueueWithinBound CatchUpCovered
PROPERTIES StableCheckpointsPersist
CHECK_DEADLOCK FALSE
