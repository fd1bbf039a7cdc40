---------------------------- MODULE MCPoolRegistry ----------------------------
EXTENDS PoolRegistry, TLC

CONSTANTS k1, k2, k3, pA, pB, pC

\* Keys and protocols are only compared for equality.
Symmetric == Permutations(Keys) \cup Permutations(ProtocolIDs)
=============================================================================
