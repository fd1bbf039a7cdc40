SPECIFICATION LiveSpec
CONSTANTS
    v2 = v2
    Protocols = {v2}
    SchemaOf <- MCSchemaOf
    IDs = {1}
    Immutable <- MCImmutable
    Values = {a, b}
    a = a
    b = b
    NoData = NoData
    NoState = NoState
    FullStateInterval = 2
    SubBuffer = 2
    BufferSize = 1
    MaxBlock = 3
    MaxWire = 2
    MaxFaults = 1
    MaxConnects = 2
INVARIANTS
    ClientStateGenuine
    InSync
    ResyncBound
PROPERTIES
    ImplementsStateFeed
    SentIsStored
CHECK_DEADLOCK FALSE
