----------------------------- MODULE PoolDirectory -----------------------------
(***************************************************************************)
(* What the pool registry promises: a set of pools, unique by key and by   *)
(* ID, whose IDs are given out in increasing order and never again, and a  *)
(* blocklist whose keys get no new pool.                                   *)
(***************************************************************************)
EXTENDS Naturals

VARIABLES pools, blocked, issued

Init == pools = {} /\ blocked = {} /\ issued = 0

\* New pools N appear; their IDs are new.
Add(N) ==
    /\ pools' = pools \cup N
    /\ \A x \in N : x.id > issued /\ x.id <= issued' /\ x.key \notin blocked
    /\ \A x \in N, y \in pools' : x # y => x.id # y.id /\ x.key # y.key
    /\ issued' >= issued
    /\ UNCHANGED blocked

Delete == pools' \subseteq pools /\ UNCHANGED <<blocked, issued>>

Block == UNCHANGED <<pools, issued>>

Next == Add(pools' \ pools) \/ Delete \/ Block

Spec == Init /\ [][Next]_<<pools, blocked, issued>>
=============================================================================
