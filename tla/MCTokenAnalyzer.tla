--------------------------- MODULE MCTokenAnalyzer ---------------------------
(* TokenAnalyzer with two tokens of which one is deleted, with two pools of  *)
(* which one is drained, and with a shutdown.                                *)
EXTENDS TokenAnalyzer

CONSTANTS t1, t2, a, b

Deletion == [tokens |-> {t1, t2}, pools |-> {a}, volumes |-> {1}, drains |-> 0, fees |-> 1,
             deletes |-> 1, faults |-> 1, ages |-> FALSE, cancels |-> FALSE, overridden |-> {}]

Drained == [tokens |-> {t1}, pools |-> {a, b}, volumes |-> {0, 1}, drains |-> 1, fees |-> 1,
            deletes |-> 0, faults |-> 0, ages |-> TRUE, cancels |-> FALSE, overridden |-> {}]

Shutdown == [tokens |-> {t1, t2}, pools |-> {a}, volumes |-> {1}, drains |-> 0, fees |-> 0,
             deletes |-> 0, faults |-> 1, ages |-> FALSE, cancels |-> TRUE, overridden |-> {t2}]

All == {Deletion, Drained, Shutdown}
=============================================================================
