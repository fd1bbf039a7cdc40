------------------------------- MODULE MCStream -------------------------------
(* Stream with one protocol whose view is a table of at most one pool.     *)
EXTENDS Stream

CONSTANTS v2, a, b

MCSchemaOf == [p \in Protocols |-> "uniswapv2"]

MCImmutable == [p \in Protocols |-> [i \in IDs |-> <<i>>]]
=============================================================================
