-------------------------- MODULE TokenPoolsRegistry --------------------------
(***************************************************************************)
(* protocols/pool-registry: TokenPoolsRegistry, the token graph in index   *)
(* slices with logical deletion and compaction, and TokenPoolSystem, which *)
(* locks it and caches a view.  Slices are sequences: index i is i + 1.    *)
(***************************************************************************)
EXTENDS Naturals, SequencesExt

CONSTANTS
    Tokens, Pools,
    PoolTokens,         \* the token list each pool is added with
    compactionThreshold,
    MaxBatch            \* bound: pools in one batch

ASSUME GraphAssumption ==
    /\ compactionThreshold \in Nat \ {0} /\ MaxBatch \in Nat
    /\ \A p \in Pools : IsInjective(PoolTokens[p]) /\ Range(PoolTokens[p]) \subseteq Tokens

VARIABLES
    registry,           \* TokenPoolSystem.registry
    cachedView          \* TokenPoolSystem.cachedView

vars == <<registry, cachedView>>

Extend(f, x, y) == [z \in DOMAIN f \cup {x} |-> IF z = x THEN y ELSE f[z]]

IndexOf(s) == [x \in Range(s) |-> CHOOSE i \in DOMAIN s : s[i] = x]

NewTokenPoolsRegistry ==
    [tokens |-> <<>>, pools |-> <<>>, tokenToIndex |-> <<>>, poolToIndex |-> <<>>,
     adjacency |-> <<>>, edgeTargets |-> <<>>, edgePools |-> <<>>,
     danglingEdgeCount |-> 0]

View(r) ==
    [tokens |-> r.tokens, pools |-> r.pools, adjacency |-> r.adjacency,
     edgeTargets |-> r.edgeTargets, edgePools |-> r.edgePools]

\* Mutant: the pool index is not rebuilt.
FromViewNoPoolIndex(v) ==
    [tokens |-> v.tokens, pools |-> v.pools,
     tokenToIndex |-> IndexOf(v.tokens), poolToIndex |-> <<>>,
     adjacency |-> v.adjacency, edgeTargets |-> v.edgeTargets, edgePools |-> v.edgePools,
     danglingEdgeCount |-> 0]

\* NewTokenPoolsRegistryFromView.
FromView(v) ==
    [tokens |-> v.tokens, pools |-> v.pools,
     tokenToIndex |-> IndexOf(v.tokens), poolToIndex |-> IndexOf(v.pools),
     adjacency |-> v.adjacency, edgeTargets |-> v.edgeTargets, edgePools |-> v.edgePools,
     danglingEdgeCount |-> 0]

-----------------------------------------------------------------------------
(* Additions.                                                              *)

withToken(r, t) ==
    IF t \in DOMAIN r.tokenToIndex
      THEN r
      ELSE [r EXCEPT !.tokens = Append(@, t),
                     !.tokenToIndex = Extend(@, t, Len(r.tokens) + 1),
                     !.adjacency = Append(@, <<>>)]

withPool(r, p) ==
    IF p \in DOMAIN r.poolToIndex
      THEN r
      ELSE [r EXCEPT !.pools = Append(@, p),
                     !.poolToIndex = Extend(@, p, Len(r.pools) + 1)]

\* Mutant: an edge that lost its pools is taken for one that has them.
joinEdgeLive(r, e, pool) ==
    IF pool \in Range(r.edgePools[e]) \/ r.edgePools[e] = <<>>
      THEN r
      ELSE [r EXCEPT !.edgePools[e] = Append(@, pool)]

\* A pool joins an edge that exists, once.
joinEdge(r, e, pool) ==
    IF pool \in Range(r.edgePools[e])
      THEN r
      ELSE [r EXCEPT !.edgePools[e] = Append(@, pool)]

addEdge(g, fromTokenID, toTokenID, poolID) ==
    LET r == withPool(withToken(withToken(g, fromTokenID), toTokenID), poolID)
        from == r.tokenToIndex[fromTokenID]
        to == r.tokenToIndex[toTokenID]
        pool == r.poolToIndex[poolID]
        edges == {e \in Range(r.adjacency[from]) : r.edgeTargets[e] = to}
    IN  IF edges = {}
          THEN [r EXCEPT !.edgeTargets = Append(@, to),
                         !.edgePools = Append(@, <<pool>>),
                         !.adjacency[from] = Append(@, Len(r.edgeTargets) + 1)]
          ELSE joinEdge(r, SelectSeq(r.adjacency[from], LAMBDA x : x \in edges)[1], pool)

\* The pairs i < j in the order of add's two loops.
PairsUpTo(n) ==
    SetToSortSeq({<<i, j>> \in (1..n) \X (1..n) : i < j},
                 LAMBDA x, y : x[1] < y[1] \/ (x[1] = y[1] /\ x[2] < y[2]))

add(r, tokenIDs, poolID) ==
    FoldLeft(LAMBDA g, x : addEdge(addEdge(g, tokenIDs[x[1]], tokenIDs[x[2]], poolID),
                                   tokenIDs[x[2]], tokenIDs[x[1]], poolID),
             r, PairsUpTo(Len(tokenIDs)))

-----------------------------------------------------------------------------
(* Removals: edges whose pool list becomes empty stay, dangling, until the *)
(* count of them passes the threshold.                                     *)

\* The position of i among the kept indices K, and the kept indices in order.
Rank(K, i) == Cardinality({k \in K : k <= i})

InOrder(K) == SetToSortSeq(K, LAMBDA x, y : x < y)

Remap(s, K) == [n \in DOMAIN s |-> Rank(K, s[n])]

LiveEdges(r) == {e \in DOMAIN r.edgePools : r.edgePools[e] # <<>>}

UsedTokens(r) ==
    {r.edgeTargets[e] : e \in LiveEdges(r)}
        \cup {i \in DOMAIN r.adjacency : Range(r.adjacency[i]) \cap LiveEdges(r) # {}}

UsedPools(r) == UNION {Range(r.edgePools[e]) : e \in LiveEdges(r)}

compact(r) ==
    LET edgeAt == InOrder(LiveEdges(r))
        tokenAt == InOrder(UsedTokens(r))
        poolAt == InOrder(UsedPools(r))
        tokens == [n \in DOMAIN tokenAt |-> r.tokens[tokenAt[n]]]
        pools == [n \in DOMAIN poolAt |-> r.pools[poolAt[n]]]
        liveAdjacency(i) == SelectSeq(r.adjacency[i], LAMBDA e : e \in LiveEdges(r))
    IN  [tokens |-> tokens, tokenToIndex |-> IndexOf(tokens),
         pools |-> pools, poolToIndex |-> IndexOf(pools),
         edgeTargets |-> [n \in DOMAIN edgeAt |-> Rank(UsedTokens(r), r.edgeTargets[edgeAt[n]])],
         edgePools |-> [n \in DOMAIN edgeAt |-> Remap(r.edgePools[edgeAt[n]], UsedPools(r))],
         adjacency |-> [n \in DOMAIN tokens |-> Remap(liveAdjacency(tokenAt[n]), LiveEdges(r))],
         danglingEdgeCount |-> 0]

compactIfNeeded(r) == IF r.danglingEdgeCount > compactionThreshold THEN compact(r) ELSE r

removePool(r, poolID) ==
    IF poolID \notin DOMAIN r.poolToIndex
      THEN r
      ELSE LET pool == r.poolToIndex[poolID]
               rest(e) == SelectSeq(r.edgePools[e], LAMBDA p : p # pool)
               emptied == {e \in DOMAIN r.edgePools : r.edgePools[e] # <<>> /\ rest(e) = <<>>}
           IN  compactIfNeeded(
                 [r EXCEPT !.edgePools = [e \in DOMAIN r.edgePools |-> rest(e)],
                           !.danglingEdgeCount = @ + Cardinality(emptied)])

\* The edges of S lose their pools; those that had any become dangling.
Clear(r, S) ==
    [r EXCEPT !.edgePools = [e \in DOMAIN @ |-> IF e \in S THEN <<>> ELSE @[e]],
              !.danglingEdgeCount = @ + Cardinality({e \in S : r.edgePools[e] # <<>>})]

Incoming(r, t) == {e \in DOMAIN r.edgeTargets : r.edgeTargets[e] = t}

\* Mutant: incoming edges are cleared without being counted.
removeTokenCountsOutgoing(r, tokenID) ==
    IF tokenID \notin DOMAIN r.tokenToIndex
      THEN r
      ELSE LET t == r.tokenToIndex[tokenID]
               q == Clear(r, Range(r.adjacency[t]))
           IN  compactIfNeeded([Clear(q, Incoming(r, t)) EXCEPT
                                   !.adjacency[t] = <<>>,
                                   !.danglingEdgeCount = q.danglingEdgeCount])

removeToken(r, tokenID) ==
    IF tokenID \notin DOMAIN r.tokenToIndex
      THEN r
      ELSE LET t == r.tokenToIndex[tokenID]
               q == Clear(r, Range(r.adjacency[t]) \cup Incoming(r, t))
           IN  compactIfNeeded([q EXCEPT !.adjacency[t] = <<>>])

\* poolsForToken: pools by the outgoing edges of a token.
poolsForToken(r, tokenID) ==
    IF tokenID \notin DOMAIN r.tokenToIndex
      THEN {}
      ELSE {r.pools[p] : p \in UNION {Range(r.edgePools[e]) :
                                        e \in Range(r.adjacency[r.tokenToIndex[tokenID]])}}

-----------------------------------------------------------------------------
(* TokenPoolSystem: each write method works under the lock and refreshes   *)
(* the view.                                                               *)

Init == registry = NewTokenPoolsRegistry /\ cachedView = View(NewTokenPoolsRegistry)

Write(r) == registry' = r /\ cachedView' = View(r)

\* A batch is a sequence of pools without repetition.
Batches == {b \in UNION {[1..n -> Pools] : n \in 1..MaxBatch} : IsInjective(b)}

AddPools ==
    \E batch \in Batches :
        Write(FoldLeft(LAMBDA r, p : add(r, PoolTokens[p], p), registry, batch))

RemovePools ==
    \E batch \in Batches :
        Write(FoldLeft(removePool, registry, batch))

RemoveToken == \E t \in Tokens : Write(removeToken(registry, t))

Next == AddPools \/ RemovePools \/ RemoveToken

Spec == Init /\ [][Next]_vars

-----------------------------------------------------------------------------
(* Properties.                                                             *)

\* What a reader finds by walking the slices of a view.
Links(v) ==
    UNION {{<<v.tokens[i], v.tokens[v.edgeTargets[e]], v.pools[p]>> :
              e \in {e \in DOMAIN v.edgeTargets :
                        e \in Range(v.adjacency[i]) /\ p \in Range(v.edgePools[e])}} :
            i \in DOMAIN v.tokens, p \in DOMAIN v.pools}

Abstract == INSTANCE TokenPools
    WITH links <- Links(cachedView), TokensOf <- [p \in Pools |-> Range(PoolTokens[p])]

\* Walking the view gives exactly the links of the pools added and not
\* removed: compaction, revived edges and index reuse change no link.
ImplementsTokenPools == Abstract!Spec

Dangling(r) == {e \in DOMAIN r.edgePools : r.edgePools[e] = <<>>}

\* Every index a view holds is in range, an edge that carries pools leaves
\* exactly one token, and no token has two edges to the same target.  The counter
\* never misses a dangling edge, so these never exceed the compaction threshold
\* (edges revived by addEdge may be counted twice).  PoolsForToken, which reads
\* the registry under the lock, agrees with the lock-free view from either end
\* of a link.
WellFormed ==
    LET r == registry
    IN  /\ IsInjective(r.tokens) /\ r.tokenToIndex = IndexOf(r.tokens)
        /\ IsInjective(r.pools) /\ r.poolToIndex = IndexOf(r.pools)
        /\ Len(r.adjacency) = Len(r.tokens) /\ Len(r.edgePools) = Len(r.edgeTargets)
        /\ Range(r.edgeTargets) \subseteq DOMAIN r.tokens
        /\ \A e \in DOMAIN r.edgePools :
              /\ Range(r.edgePools[e]) \subseteq DOMAIN r.pools /\ IsInjective(r.edgePools[e])
              /\ r.edgePools[e] # <<>> =>
                    Cardinality({i \in DOMAIN r.adjacency : e \in Range(r.adjacency[i])}) = 1
        /\ \A i \in DOMAIN r.adjacency :
              /\ Range(r.adjacency[i]) \subseteq DOMAIN r.edgeTargets
              /\ IsInjective([n \in DOMAIN r.adjacency[i] |-> r.edgeTargets[r.adjacency[i][n]]])
        /\ Cardinality(Dangling(r)) <= r.danglingEdgeCount
        /\ r.danglingEdgeCount <= compactionThreshold
        /\ \A t \in Tokens :
              poolsForToken(r, t) = {l[3] : l \in {x \in Links(cachedView) : x[2] = t}}

\* A registry restored from a view goes on as the original would, although
\* it starts with a count of 0 and so compacts later: the next addition,
\* removal of a pool or removal of a token leaves readers the same links.
RestoreContinues ==
    LET q == FromView(cachedView)
        Same(x, y) == Links(View(x)) = Links(View(y))
    IN  /\ \A p \in Pools : /\ Same(removePool(q, p), removePool(registry, p))
                            /\ Same(add(q, PoolTokens[p], p), add(registry, PoolTokens[p], p))
        /\ \A t \in Tokens : Same(removeToken(q, t), removeToken(registry, t))
=============================================================================
