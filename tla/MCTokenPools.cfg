CONSTANTS
    tA = tA
    tB = tB
    tC = tC
    p1 = p1
    p2 = p2
    p3 = p3
    Tokens = {tA, tB, tC}
    Pools = {p1, p2, p3}
    PoolTokens <- MCPoolTokens
    compactionThreshold = 3
    MaxBatch = 2
SPECIFICATION Spec
INVARIANTS
    WellFormed
    RestoreContinues
PROPERTY
    ImplementsTokenPools
