SPECIFICATION LiveSpec
CONSTANTS
    v2 = v2
    reg = reg
    s1 = s1
    Setups <- Both
    QueueSize = 1
    SubBuffer = 2
    MaxBlock = 3
    NoView = NoView
INVARIANTS
    SyncedWaitHolds
    JoiningCostsOne
PROPERTIES
    ImplementsStateFeed
    ShutdownSignalled
    QueuedIsPublished
CHECK_DEADLOCK FALSE
