CONSTANTS
    poolA = poolA
    poolB = poolB
    Pools = {poolA, poolB}
    Spacing = 1
    MinTick <- MinTickValue
    MaxTick = 3
    WordSize = 2
    LowerDelta = 1
    UpperDelta = 1
    StartLiquidity <- Different
    CurrentTick = 0
    Ranges <- OneRange
    MaxLiquidity = 2
    MaxBlock = 3
    MaxFaults = 0
    MaxID = 2
SPECIFICATION V3Spec
INVARIANTS
    SystemAgrees
    ViewTicksReal
    IndexSound
CHECK_DEADLOCK FALSE
