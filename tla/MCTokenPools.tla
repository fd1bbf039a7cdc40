----------------------------- MODULE MCTokenPools -----------------------------
EXTENDS TokenPoolsRegistry

CONSTANTS tA, tB, tC, p1, p2, p3

\* Two pools of the same pair, in either order, and a pool of three tokens.
MCPoolTokens == p1 :> <<tA, tB>> @@ p2 :> <<tB, tA>> @@ p3 :> <<tB, tC, tA>>
=============================================================================
