SPECIFICATION ChainSpec
CONSTANTS
    Deployments <- MCDeployments
    MaxBlocks = 2
    NoState = NoState
    WordBits = 8
    IntBits = 7
    MinTick <- MCMinTick
    MaxTick = 2
    WordSize = 2
    LowerDelta = 0
    UpperDelta = 0
INVARIANTS
    ServerMatchesContracts
    ShownIsPublished
PROPERTIES
    ForksFaithful
    StatesAreShown
CHECK_DEADLOCK FALSE
