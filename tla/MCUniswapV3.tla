----------------------------- MODULE MCUniswapV3 -----------------------------
EXTENDS UniswapV3System

CONSTANTS poolA, poolB

MinTickValue == -3

\* The pools differ in their liquidity.
Different == [p \in Pools |-> IF p = poolA THEN 1 ELSE 2]

\* One range around the price.
OneRange == {<<-2, 1>>}
=============================================================================
