------------------------------- MODULE V3Forks -------------------------------
(***************************************************************************)
(* The four Uniswap V3 flavours (protocols/uniswap-v3/forks): each has its *)
(* own ABI and its own copy of the code that filters a block's logs and    *)
(* decodes a pool's answers.  A layout is the sequence of the (name, type) *)
(* pairs an ABI gives to an event's data or to a method's outputs; a word  *)
(* of returned data is a number below 2^WordBits, signed values in two's   *)
(* complement.  A pool contract of a flavour speaks that flavour's ABI.    *)
(***************************************************************************)
EXTENDS V3Contracts, Sequences

CONSTANTS
    WordBits,       \* 256, scaled down
    IntBits         \* 64, the width of Go's int64, scaled down: below WordBits

ASSUME WordAssumption == WordBits \in Nat /\ IntBits \in 1..WordBits

-----------------------------------------------------------------------------
(* ABI data.                                                               *)

\* Scaled widths of the types whose range the ABI decoder checks.
Checked == [bool |-> 1, uint8 |-> 2, uint16 |-> 3, uint32 |-> 4]

Signed == {"int24", "int56", "int128", "int256"}

Fits(type, w) == type \in DOMAIN Checked => w < 2^Checked[type]

DecodeWord(type, w) ==
    IF type \in Signed /\ w >= 2^(WordBits - 1) THEN w - 2^WordBits ELSE w

Names(layout) == {layout[i][1] : i \in DOMAIN layout}

\* UnpackIntoInterface: too few words or a word out of its type's range is an
\* error, words past the layout are ignored.
Unpack(layout, words) ==
    IF Len(words) < Len(layout) \/ \E i \in DOMAIN layout : ~Fits(layout[i][2], words[i])
      THEN [err |-> TRUE]
      ELSE [err |-> FALSE,
            out |-> [n \in Names(layout) |->
                        LET i == CHOOSE j \in DOMAIN layout : layout[j][1] = n
                        IN  DecodeWord(layout[i][2], words[i])]]

\* new(big.Int).SetBytes(word).Int64(): the low bits, read as a signed number.
Int64(w) ==
    LET low == w % 2^IntBits
    IN  IF low >= 2^(IntBits - 1) THEN low - 2^IntBits ELSE low

\* The hash of an event's signature tells apart its name and argument types.
EventID(abi, event) ==
    <<event, [i \in DOMAIN abi[event] |-> abi[event][i][2]]>>

SwapData ==
    << <<"amount0", "int256">>, <<"amount1", "int256">>, <<"sqrtPriceX96", "uint160">>,
       <<"liquidity", "uint128">>, <<"tick", "int24">> >>

LiquidityData ==
    << <<"amount", "uint128">>, <<"amount0", "uint256">>, <<"amount1", "uint256">> >>

Slot0(feeProtocol) ==
    << <<"sqrtPriceX96", "uint160">>, <<"tick", "int24">>, <<"observationIndex", "uint16">>,
       <<"observationCardinality", "uint16">>, <<"observationCardinalityNext", "uint16">> >>
    \o feeProtocol \o << <<"unlocked", "bool">> >>

Ticks(staked, reward) ==
    << <<"liquidityGross", "uint128">>, <<"liquidityNet", "int128">> >> \o staked \o
    << <<"feeGrowthOutside0X128", "uint256">>, <<"feeGrowthOutside1X128", "uint256">> >> \o reward \o
    << <<"tickCumulativeOutside", "int56">>, <<"secondsPerLiquidityOutsideX128", "uint160">>,
       <<"secondsOutside", "uint32">>, <<"initialized", "bool">> >>

UniswapV3ABI ==
    [Swap |-> SwapData, Mint |-> LiquidityData, Burn |-> LiquidityData,
     slot0 |-> Slot0(<< <<"feeProtocol", "uint8">> >>), ticks |-> Ticks(<<>>, <<>>)]

\* Two more amounts in Swap, and a wider feeProtocol.
PancakeswapV3ABI ==
    [UniswapV3ABI EXCEPT
        !.Swap = SwapData \o << <<"protocolFeesToken0", "uint128">>,
                                <<"protocolFeesToken1", "uint128">> >>,
        !.slot0 = Slot0(<< <<"feeProtocol", "uint32">> >>)]

\* No feeProtocol, and the staking fields in ticks.
AerodromeABI ==
    [UniswapV3ABI EXCEPT
        !.slot0 = Slot0(<<>>),
        !.ticks = Ticks(<< <<"stakedLiquidityNet", "int128">> >>,
                        << <<"rewardGrowthOutsideX128", "uint256">> >>)]

OmniExchangeABI ==
    [UniswapV3ABI EXCEPT
        !.Swap = SwapData \o << <<"protocolFeesToken0", "uint128">>,
                                <<"protocolFeesToken1", "uint128">> >>,
        !.slot0 = Slot0(<< <<"feeProtocol", "uint32">> >>)]

Forks == 0..3

-----------------------------------------------------------------------------
(* The pool contracts: what a pool of a flavour emits and returns.         *)

FlavourABI(fork) ==
    <<UniswapV3ABI, PancakeswapV3ABI, AerodromeABI, OmniExchangeABI>>[fork + 1]

\* Every other field holds a number that is no Boolean; a feeProtocol uses its
\* width.
Answer(layout, fields) ==
    [i \in DOMAIN layout |->
        LET n == layout[i][1]
        IN  IF n \in DOMAIN fields THEN fields[n] % 2^WordBits
            ELSE IF n = "unlocked" THEN 1
            ELSE IF n = "feeProtocol" THEN 2^Checked[layout[i][2]] - 1
            ELSE 2]

\* A contract that is no V3 pool has no slot0 and no ticks: the call fails.
slot0(pool) ==
    IF pool.flavour \notin Forks THEN <<>>
    ELSE Answer(FlavourABI(pool.flavour).slot0,
                [sqrtPriceX96 |-> pool.sqrtPriceX96, tick |-> pool.tick])

ticksOf(pool, t) ==
    LET gross == IF t \in DOMAIN pool.ticks THEN pool.ticks[t] ELSE 0
    IN  IF pool.flavour \notin Forks THEN <<>>
        ELSE Answer(FlavourABI(pool.flavour).ticks,
               [liquidityGross |-> gross, liquidityNet |-> -gross,
                initialized |-> IF gross > 0 THEN 1 ELSE 0])

\* A Swap carries the pool's new state; Mint and Burn name their two ticks in
\* indexed topics.
Log(pool, event, lower, upper) ==
    LET abi == FlavourABI(pool.flavour)
    IN  [address |-> pool.address,
         topic |-> EventID(abi, event),
         indexed |-> <<lower % 2^WordBits, upper % 2^WordBits>>,
         data |-> Answer(abi[event],
                         [sqrtPriceX96 |-> pool.sqrtPriceX96, tick |-> pool.tick,
                          liquidity |-> pool.liquidity])]

-----------------------------------------------------------------------------
(* The code every flavour has a copy of, over the copy's ABI.  A bloom     *)
(* filter contains every topic of the block's logs.                        *)

InBloom(abi, event, logs) == \E l \in logs : l.topic = EventID(abi, event)

PoolsWith(abi, events, logs) ==
    {l.address : l \in {k \in logs : \E e \in events : k.topic = EventID(abi, e)}}

\* ExtractSwapsFromLogs: a malformed log fails the whole block.  The last log
\* of a pool is the one that counts; a block has one here.
ExtractSwaps(abi, logs) ==
    LET swaps == {l \in logs : l.topic = EventID(abi, "Swap")}
        read(l) == Unpack(abi.Swap, l.data)
    IN  IF \E l \in swaps : read(l).err
          THEN [err |-> TRUE]
          ELSE [err |-> FALSE,
                out |-> [a \in {l.address : l \in swaps} |->
                            LET o == read(CHOOSE l \in swaps : l.address = a).out
                            IN  [tick |-> o.tick, liquidity |-> o.liquidity,
                                 sqrtPriceX96 |-> o.sqrtPriceX96]]]

TicksUpdated(abi, logs) ==
    LET changes == {l \in logs : l.topic \in {EventID(abi, "Mint"), EventID(abi, "Burn")}}
    IN  [a \in {l.address : l \in changes} |->
            UNION {{Int64(l.indexed[1]), Int64(l.indexed[2])} :
                     l \in {k \in changes : k.address = a}}]

\* slot0 is decoded through the ABI, and liquidity.
InitializeFrom(abi, pool) ==
    LET s == Unpack(abi.slot0, slot0(pool))
    IN  IF s.err
          THEN [err |-> TRUE]
          ELSE [err |-> FALSE,
                out |-> [tick |-> s.out.tick, sqrtPriceX96 |-> s.out.sqrtPriceX96,
                         liquidity |-> pool.liquidity]]

\* The first two words of slot0 are read by hand, whatever the ABI says.
PoolInfo(pool) ==
    IF Len(slot0(pool)) < 2
      THEN [err |-> TRUE]
      ELSE [err |-> FALSE,
            out |-> [tick |-> Int64(slot0(pool)[2]), sqrtPriceX96 |-> slot0(pool)[1],
                     liquidity |-> pool.liquidity]]

\* A tick whose sub-call failed or answered nothing is left out, and so is one that
\* is not initialised; an answer the ABI cannot decode fails the batch.
TickInfo(abi, pool, requested) ==
    LET read(t) == Unpack(abi.ticks, ticksOf(pool, t))
        answered == {t \in requested : ticksOf(pool, t) # <<>>}
    IN  IF \E t \in answered : read(t).err
          THEN [err |-> TRUE]
          ELSE [err |-> FALSE,
                out |-> [t \in {u \in answered : read(u).out.initialized = 1} |->
                            [gross |-> read(t).out.liquidityGross,
                             net |-> read(t).out.liquidityNet]]]

-----------------------------------------------------------------------------
(* The four copies.                                                        *)

uniswapV3SwapInBloom(logs) == InBloom(UniswapV3ABI, "Swap", logs)
uniswapV3MintOrBurnInBloom(logs) == InBloom(UniswapV3ABI, "Mint", logs) \/ InBloom(UniswapV3ABI, "Burn", logs)
uniswapV3DiscoverPools(logs) == PoolsWith(UniswapV3ABI, {"Swap"}, logs)
uniswapV3ExtractSwaps(logs) == ExtractSwaps(UniswapV3ABI, logs)
uniswapV3ExtractMintsAndBurns(logs) == PoolsWith(UniswapV3ABI, {"Mint", "Burn"}, logs)
uniswapV3PoolsUpdatedInBlock(logs) == TicksUpdated(UniswapV3ABI, logs)
uniswapV3PoolInitializer(pool) == InitializeFrom(UniswapV3ABI, pool)
uniswapV3PoolInfo(pool) == PoolInfo(pool)
uniswapV3BitMapProvider(pool) == NewBitMapProvider(pool, 1, {})
uniswapV3TickInfo(pool, requested) == TickInfo(UniswapV3ABI, pool, requested)

pancakeswapSwapInBloom(logs) == InBloom(PancakeswapV3ABI, "Swap", logs)
pancakeswapMintOrBurnInBloom(logs) == InBloom(PancakeswapV3ABI, "Mint", logs) \/ InBloom(PancakeswapV3ABI, "Burn", logs)
pancakeswapDiscoverPools(logs) == PoolsWith(PancakeswapV3ABI, {"Swap"}, logs)
pancakeswapExtractSwaps(logs) == ExtractSwaps(PancakeswapV3ABI, logs)
pancakeswapExtractMintsAndBurns(logs) == PoolsWith(PancakeswapV3ABI, {"Mint", "Burn"}, logs)
pancakeswapPoolsUpdatedInBlock(logs) == TicksUpdated(PancakeswapV3ABI, logs)
pancakeswapPoolInitializer(pool) == InitializeFrom(PancakeswapV3ABI, pool)
pancakeswapPoolInfo(pool) == PoolInfo(pool)
pancakeswapBitMapProvider(pool) == NewBitMapProvider(pool, 1, {})
pancakeswapTickInfo(pool, requested) == TickInfo(PancakeswapV3ABI, pool, requested)

\* Mutant: the copy that was not given its own ABI.
aerodromeTickInfoUniswap(pool, requested) == TickInfo(UniswapV3ABI, pool, requested)

aerodromeSwapInBloom(logs) == InBloom(AerodromeABI, "Swap", logs)
aerodromeMintOrBurnInBloom(logs) == InBloom(AerodromeABI, "Mint", logs) \/ InBloom(AerodromeABI, "Burn", logs)
aerodromeDiscoverPools(logs) == PoolsWith(AerodromeABI, {"Swap"}, logs)
aerodromeExtractSwaps(logs) == ExtractSwaps(AerodromeABI, logs)
aerodromeExtractMintsAndBurns(logs) == PoolsWith(AerodromeABI, {"Mint", "Burn"}, logs)
aerodromePoolsUpdatedInBlock(logs) == TicksUpdated(AerodromeABI, logs)
aerodromePoolInitializer(pool) == InitializeFrom(AerodromeABI, pool)
aerodromePoolInfo(pool) == PoolInfo(pool)
aerodromeBitMapProvider(pool) == NewBitMapProvider(pool, 1, {})
aerodromeTickInfo(pool, requested) == TickInfo(AerodromeABI, pool, requested)

omniExchangeSwapInBloom(logs) == InBloom(OmniExchangeABI, "Swap", logs)
omniExchangeMintOrBurnInBloom(logs) == InBloom(OmniExchangeABI, "Mint", logs) \/ InBloom(OmniExchangeABI, "Burn", logs)
omniExchangeDiscoverPools(logs) == PoolsWith(OmniExchangeABI, {"Swap"}, logs)
omniExchangeExtractSwaps(logs) == ExtractSwaps(OmniExchangeABI, logs)
omniExchangeExtractMintsAndBurns(logs) == PoolsWith(OmniExchangeABI, {"Mint", "Burn"}, logs)
omniExchangePoolsUpdatedInBlock(logs) == TicksUpdated(OmniExchangeABI, logs)
omniExchangePoolInitializer(pool) == InitializeFrom(OmniExchangeABI, pool)
omniExchangePoolInfo(pool) == PoolInfo(pool)
omniExchangeBitMapProvider(pool) == NewBitMapProvider(pool, 1, {})
omniExchangeTickInfo(pool, requested) == TickInfo(OmniExchangeABI, pool, requested)

-----------------------------------------------------------------------------
(* ForkData: what a fork's functions answer for the logs of a block and    *)
(* for a pool.  Ticks are those the bitmap names, Changed those the logs   *)
(* name.                                                                   *)

TicksOf(updated, pool) ==
    IF pool.address \in DOMAIN updated THEN updated[pool.address] ELSE {}

getUniswapV3Data(logs, pool) ==
    [PoolInitializer |-> uniswapV3PoolInitializer(pool),
     PoolInfoProvider |-> uniswapV3PoolInfo(pool),
     DiscoverPools |-> uniswapV3DiscoverPools(logs),
     ExtractSwaps |-> uniswapV3ExtractSwaps(logs),
     ExtractMintsAndBurns |-> uniswapV3ExtractMintsAndBurns(logs),
     TestBloom |-> uniswapV3SwapInBloom(logs) \/ uniswapV3MintOrBurnInBloom(logs),
     FilterTopics |-> {EventID(UniswapV3ABI, e) : e \in {"Swap", "Burn", "Mint"}},
     UpdatedInBlock |-> uniswapV3PoolsUpdatedInBlock(logs),
     TickTestBloom |-> uniswapV3MintOrBurnInBloom(logs),
     Ticks |-> uniswapV3TickInfo(pool, TicksFromBitmap(uniswapV3BitMapProvider(pool), 1)),
     Changed |-> uniswapV3TickInfo(pool, TicksOf(uniswapV3PoolsUpdatedInBlock(logs), pool))]

getPancakeswapData(logs, pool) ==
    [PoolInitializer |-> pancakeswapPoolInitializer(pool),
     PoolInfoProvider |-> pancakeswapPoolInfo(pool),
     DiscoverPools |-> pancakeswapDiscoverPools(logs),
     ExtractSwaps |-> pancakeswapExtractSwaps(logs),
     ExtractMintsAndBurns |-> pancakeswapExtractMintsAndBurns(logs),
     TestBloom |-> pancakeswapSwapInBloom(logs) \/ pancakeswapMintOrBurnInBloom(logs),
     FilterTopics |-> {EventID(PancakeswapV3ABI, e) : e \in {"Swap", "Burn", "Mint"}},
     UpdatedInBlock |-> pancakeswapPoolsUpdatedInBlock(logs),
     TickTestBloom |-> pancakeswapMintOrBurnInBloom(logs),
     Ticks |-> pancakeswapTickInfo(pool, TicksFromBitmap(pancakeswapBitMapProvider(pool), 1)),
     Changed |-> pancakeswapTickInfo(pool, TicksOf(pancakeswapPoolsUpdatedInBlock(logs), pool))]

getAerodromeData(logs, pool) ==
    [PoolInitializer |-> aerodromePoolInitializer(pool),
     PoolInfoProvider |-> aerodromePoolInfo(pool),
     DiscoverPools |-> aerodromeDiscoverPools(logs),
     ExtractSwaps |-> aerodromeExtractSwaps(logs),
     ExtractMintsAndBurns |-> aerodromeExtractMintsAndBurns(logs),
     TestBloom |-> aerodromeSwapInBloom(logs) \/ aerodromeMintOrBurnInBloom(logs),
     FilterTopics |-> {EventID(AerodromeABI, e) : e \in {"Swap", "Burn", "Mint"}},
     UpdatedInBlock |-> aerodromePoolsUpdatedInBlock(logs),
     TickTestBloom |-> aerodromeMintOrBurnInBloom(logs),
     Ticks |-> aerodromeTickInfo(pool, TicksFromBitmap(aerodromeBitMapProvider(pool), 1)),
     Changed |-> aerodromeTickInfo(pool, TicksOf(aerodromePoolsUpdatedInBlock(logs), pool))]

getOmniExchangeData(logs, pool) ==
    [PoolInitializer |-> omniExchangePoolInitializer(pool),
     PoolInfoProvider |-> omniExchangePoolInfo(pool),
     DiscoverPools |-> omniExchangeDiscoverPools(logs),
     ExtractSwaps |-> omniExchangeExtractSwaps(logs),
     ExtractMintsAndBurns |-> omniExchangeExtractMintsAndBurns(logs),
     TestBloom |-> omniExchangeSwapInBloom(logs) \/ omniExchangeMintOrBurnInBloom(logs),
     FilterTopics |-> {EventID(OmniExchangeABI, e) : e \in {"Swap", "Burn", "Mint"}},
     UpdatedInBlock |-> omniExchangePoolsUpdatedInBlock(logs),
     TickTestBloom |-> omniExchangeMintOrBurnInBloom(logs),
     Ticks |-> omniExchangeTickInfo(pool, TicksFromBitmap(omniExchangeBitMapProvider(pool), 1)),
     Changed |-> omniExchangeTickInfo(pool, TicksOf(omniExchangePoolsUpdatedInBlock(logs), pool))]

GetForkData(fork, logs, pool) ==
    CASE fork = 0 -> getUniswapV3Data(logs, pool)
      [] fork = 1 -> getPancakeswapData(logs, pool)
      [] fork = 2 -> getAerodromeData(logs, pool)
      [] fork = 3 -> getOmniExchangeData(logs, pool)
=============================================================================
