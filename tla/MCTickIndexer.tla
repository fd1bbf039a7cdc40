---------------------------- MODULE MCTickIndexer ----------------------------
EXTENDS TickIndexer

CONSTANTS poolA

MinTickValue == -3

\* The pools differ in their liquidity.
Different == [p \in Pools |-> IF p = poolA THEN 1 ELSE 2]

\* Tick -2 is in a word of negative index, tick 1 in another word.
OneRange == {<<-2, 1>>}
=============================================================================
