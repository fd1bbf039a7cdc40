----------------------------- MODULE MCUniswapV2 -----------------------------
EXTENDS UniswapV2System, TLC

CONSTANTS a, b, r

\* Pool addresses are only compared.
Symmetric == Permutations(Pools)
=============================================================================
