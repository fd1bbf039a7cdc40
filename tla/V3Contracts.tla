----------------------------- MODULE V3Contracts -----------------------------
(***************************************************************************)
(* What a Uniswap V3 system reads from a pool contract, and how it decodes *)
(* it (protocols/uniswap-v3/contracts, ticks, logs, initializer, poolinfo). *)
(* A pool contract is a record: its initialised ticks with their gross     *)
(* liquidity, and its slot0.  A batch of sub-calls of one multicall fails  *)
(* as a whole, or silently loses the sub-calls in "lost": tryAggregate     *)
(* reports them as unsuccessful or empty, and the decoders skip those.     *)
(***************************************************************************)
EXTENDS Integers, Functions

CONSTANTS
    MinTick, MaxTick,       \* -887272 and 887272
    WordSize,               \* 256, the ticks of a bitmap word
    LowerDelta, UpperDelta  \* ticks in -p% and +p% of the price, rounded up

\* Go's integer division.
Quo(n, d) == IF n < 0 THEN -((-n) \div d) ELSE n \div d

-----------------------------------------------------------------------------
(* Tick bitmaps and ticks.                                                 *)

\* (MinTick / spacing) >> 8 .. (MaxTick / spacing) >> 8: the shift is arithmetic.
getWordRange(spacing) ==
    (Quo(MinTick, spacing) \div WordSize) .. (Quo(MaxTick, spacing) \div WordSize)

\* The word of the contract's tickBitmap at position w, as the set of its bits.
tickBitmap(pool, spacing, w) ==
    {b \in 0..WordSize - 1 : (w * WordSize + b) * spacing \in DOMAIN pool.ticks}

\* The bitmap without its zero words.
NewBitMapProvider(pool, spacing, lost) ==
    [w \in {v \in getWordRange(spacing) \ lost : tickBitmap(pool, spacing, v) # {}} |->
        tickBitmap(pool, spacing, w)]

\* Mutant: the bits of a word are counted from one.
TicksFromBitmapOffByOne(bitmap, spacing) ==
    UNION {{(w * WordSize + b + 1) * spacing : b \in bitmap[w]} : w \in DOMAIN bitmap}

TicksFromBitmap(bitmap, spacing) ==
    UNION {{(w * WordSize + b) * spacing : b \in bitmap[w]} : w \in DOMAIN bitmap}

\* Only initialised ticks are returned: a requested tick that has none of its
\* liquidity left is left out, not returned with zero.
NewTickInfoProvider(pool, requested, lost) ==
    Restrict(pool.ticks, (requested \cap DOMAIN pool.ticks) \ lost)

\* The ticks the bitmap names, fetched after it.
GetInitializedTicks(pool, bitmap, spacing, lost) ==
    NewTickInfoProvider(pool, TicksFromBitmap(bitmap, spacing), lost)

\* The ticks each pool's Mint and Burn events name.
PoolsUpdatedInBlock(logs) ==
    [a \in {l.pool : l \in {k \in logs : k.event \in {"Mint", "Burn"}}} |->
        UNION {{l.lower, l.upper} :
                 l \in {k \in logs : k.event \in {"Mint", "Burn"} /\ k.pool = a}}]

-----------------------------------------------------------------------------
(* The freshness window.                                                   *)

floorToSpacing(v, spacing) ==
    LET rem == v - spacing * Quo(v, spacing)
    IN  IF rem = 0 THEN v ELSE IF v >= 0 THEN v - rem ELSE v - rem - spacing

ceilToSpacing(v, spacing) ==
    LET rem == v - spacing * Quo(v, spacing)
    IN  IF rem = 0 THEN v ELSE IF v >= 0 THEN v - rem + spacing ELSE v - rem

tickBoundsForPercentWindow(current, spacing) ==
    floorToSpacing(current - LowerDelta, spacing) .. ceilToSpacing(current + UpperDelta, spacing)

\* Without a percentage, the neighbours of the current tick.
SelectTicksForFreshnessWindow(current, spacing, ticks) ==
    IF LowerDelta + UpperDelta = 0
      THEN LET above == {t \in ticks : t >= current}
               below == {t \in ticks : t < current}
               first == {t \in above : \A u \in above : t <= u}
               last  == {t \in below : \A u \in below : u <= t}
           IN  IF first = {current} THEN first ELSE first \cup last
      ELSE ticks \cap tickBoundsForPercentWindow(current, spacing)
=============================================================================
