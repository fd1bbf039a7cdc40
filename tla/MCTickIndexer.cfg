CONSTANTS
    poolA = poolA
    Pools = {poolA}
    Spacing = 1
    MinTick <- MinTickValue
    MaxTick = 3
    WordSize = 2
    LowerDelta = 1
    UpperDelta = 1
    StartLiquidity <- Different
    CurrentTick = 0
    Ranges <- OneRange
    MaxLiquidity = 2
    MaxBlock = 3
    MaxFaults = 1
    MaxID = 2
SPECIFICATION TickSpec
INVARIANTS
    IndexSound
    LastUpdateHolds
PROPERTIES
    EventuallyConsistent
    PendingIsTracked
CHECK_DEADLOCK FALSE
