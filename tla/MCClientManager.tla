--------------------------- MODULE MCClientManager ---------------------------
(* Two clients with one slot each, and two callers, one of which needs it. *)
EXTENDS ClientManager

CONSTANTS caller1, caller2

Calls == [c \in Callers |-> IF c = caller1 THEN "CallContract" ELSE "SendTransaction"]
=============================================================================
