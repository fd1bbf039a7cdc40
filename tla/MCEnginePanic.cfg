SPECIFICATION Spec
CONSTANTS
    v2 = v2
    reg = reg
    s1 = s1
    Setups <- OnlySubscribers
    QueueSize = 1
    SubBuffer = 2
    MaxBlock = 3
    NoView = NoView
INVARIANT
    NoPanic
CHECK_DEADLOCK FALSE
