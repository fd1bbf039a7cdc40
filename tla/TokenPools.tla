------------------------------ MODULE TokenPools ------------------------------
(***************************************************************************)
(* What the token-pool graph promises: the set of links <<from, to, pool>> *)
(* that pools were added with and that no removal has taken away since.    *)
(***************************************************************************)
EXTENDS FiniteSets

CONSTANTS Tokens, Pools, TokensOf

VARIABLE links

Clique(T, p) == {<<a, b, p>> : a \in T, b \in T} \ {<<a, a, p>> : a \in T}

Init == links = {}

AddPools(L, P) == L \cup UNION {Clique(TokensOf[p], p) : p \in P}

RemovePools(L, P) == {l \in L : l[3] \notin P}

RemoveToken(L, t) == {l \in L : t \notin {l[1], l[2]}}

Successors(L) ==
    {AddPools(L, P) : P \in SUBSET Pools}
        \cup {RemovePools(L, P) : P \in SUBSET Pools}
        \cup {RemoveToken(L, t) : t \in Tokens}

Next == links' \in Successors(links)

Spec == Init /\ [][Next]_links
=============================================================================
