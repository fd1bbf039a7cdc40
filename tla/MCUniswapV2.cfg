CONSTANTS
    a = a
    b = b
    r = r
    Pools = {a, b}
    Readers = {r}
    Buffer = 1
    MaxBlock = 3
SPECIFICATION Spec
SYMMETRY Symmetric
INVARIANTS
    RegistriesAgree
    SnapshotLacksOnlyNew
CHECK_DEADLOCK FALSE
