SPECIFICATION LiveSpec
CONSTANTS
    t1 = t1
    t2 = t2
    a = a
    b = b
    NoFee = NoFee
    Failed = Failed
    Setups <- All
    MaxConcurrent = 1
INVARIANTS FeesWereMeasured
PROPERTIES TradingPoolIsRegistered FeesCatchUp ShutdownStops
CHECK_DEADLOCK FALSE
