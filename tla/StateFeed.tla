------------------------------- MODULE StateFeed -------------------------------
(***************************************************************************)
(* What the streaming pipeline promises a consumer, without channels,      *)
(* diffs or connections: the engine publishes one state per block, in      *)
(* increasing block order, and the consumer's current state is always one  *)
(* of the published states that no protocol flagged with an error.         *)
(***************************************************************************)
EXTENDS Naturals

CONSTANTS StateSet, Errored(_), Nil

VARIABLES feed, current

Init == feed = {} /\ current = Nil

Publish ==
    /\ \E s \in feed' :
          /\ s \in StateSet
          /\ \A t \in feed : s.block > t.block
          /\ feed' = feed \cup {s}
    /\ UNCHANGED current

Advance ==
    /\ current' \in feed /\ ~Errored(current')
    /\ UNCHANGED feed

Next == Publish \/ Advance

Spec == Init /\ [][Next]_<<feed, current>>
=============================================================================
