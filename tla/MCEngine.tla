------------------------------- MODULE MCEngine -------------------------------
(* Engine with a synchronized and an unaware protocol over two blocks, and  *)
(* with a subscriber over three.                                           *)
EXTENDS Engine

CONSTANTS v2, reg, s1

ForProtocols == [synced |-> {v2}, unaware |-> {reg}, subs |-> {}, blocks |-> 2]

ForSubscribers == [synced |-> {}, unaware |-> {}, subs |-> {s1}, blocks |-> 3]

Both == {ForProtocols, ForSubscribers}

OnlySubscribers == {ForSubscribers}
=============================================================================
