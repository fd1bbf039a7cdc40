CONSTANTS
    k1 = k1
    k2 = k2
    k3 = k3
    pA = pA
    pB = pB
    pC = pC
    Keys = {k1, k2, k3}
    ProtocolIDs = {pA, pB, pC}
    MaxProto = 2
    MaxID = 5
    MaxBatch = 2
SPECIFICATION Spec
SYMMETRY Symmetric
INVARIANTS
    RegistryConsistent
    RestoreFaithful
PROPERTY
    ImplementsDirectory
