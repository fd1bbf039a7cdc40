------------------------------ MODULE ChainIndex ------------------------------
(***************************************************************************)
(* From a raw engine state to the state a chain's client shows             *)
(* (clients/chains/<chain>, clients/indexers, clients/types.go): the       *)
(* protocols' data are sorted into buckets by schema and protocol ID, and  *)
(* every pool of a bucket is joined with the registry and the tokens.      *)
(***************************************************************************)
EXTENDS Naturals, TLC, FiniteSets

-----------------------------------------------------------------------------
(* What every chain's client does.                                         *)

WithSchema(raw, schema) ==
    {id \in DOMAIN raw.protocols : raw.protocols[id].schema = schema}

\* The data of a protocol that has this schema; nil is an empty table.
Bucket(raw, schema, id) ==
    IF id \in WithSchema(raw, schema) THEN raw.protocols[id].data.table ELSE <<>>

\* The data under a schema only one protocol has.
Foundation(raw, schema) == raw.protocols[CHOOSE id \in WithSchema(raw, schema) : TRUE].data

Incomplete(raw) ==
    \E s \in {"erc20", "poolregistry", "tokenpools"} : WithSchema(raw, s) = {}

\* NewIndexablePoolRegistry and NewIndexableTokenSystem: lookups by ID.
NewIndexablePoolRegistry(view) == [byID |-> view.pools, protocols |-> view.protocols]
NewIndexableTokenSystem(view) == view.table

\* A pool the registry does not hold, or whose tokens are unknown, fails.
Index(protocolID, pools, tokens, registry) ==
    IF \E i \in DOMAIN pools : i \notin DOMAIN registry.byID \/ pools[i].imm \notin DOMAIN tokens
      THEN [err |-> TRUE]
      ELSE [err |-> FALSE,
            out |-> [i \in DOMAIN pools |->
                        [Protocol |-> protocolID, Address |-> registry.byID[i].key,
                         data |-> pools[i]]]]

NewIndexableUniswapV2System(protocolID, pools, tokens, registry) ==
    Index(protocolID, pools, tokens, registry)

NewIndexableUniswapV3System(protocolID, pools, tokens, registry) ==
    Index(protocolID, pools, tokens, registry)

\* The resolver keeps the schemas of the state it was made from.
NewProtocolResolver(raw, registry) ==
    [schemas |-> [id \in DOMAIN raw.protocols |-> raw.protocols[id].schema],
     registry |-> registry]

\* ResolveSchemaFromPoolID: pool to number to ID to schema; "" when it fails.
ResolveSchemaFromPoolID(resolver, pool) ==
    LET registry == resolver.registry
        number == registry.byID[pool].protocol
        id == registry.protocols[number]
    IN  IF /\ pool \in DOMAIN registry.byID
           /\ number \in DOMAIN registry.protocols
           /\ id \in DOMAIN resolver.schemas
          THEN resolver.schemas[id]
          ELSE ""

\* processState: one failed index fails the state.  v2 and v3 give the bucket
\* and the protocol ID of every field of the chain's State.
processState(raw, buckets, v2, v3) ==
    LET tokens == NewIndexableTokenSystem(Foundation(raw, "erc20"))
        registry == NewIndexablePoolRegistry(Foundation(raw, "poolregistry"))
        index == [f \in DOMAIN v2 |->
                    NewIndexableUniswapV2System(v2[f], buckets[f], tokens, registry)]
                 @@ [f \in DOMAIN v3 |->
                    NewIndexableUniswapV3System(v3[f], buckets[f], tokens, registry)]
    IN  IF Incomplete(raw) \/ \E f \in DOMAIN index : index[f].err
          THEN [err |-> TRUE]
          ELSE [err |-> FALSE,
                out |-> [block |-> raw.block,
                         protocols |-> [f \in DOMAIN index |-> index[f].out],
                         resolver |-> NewProtocolResolver(raw, registry),
                         graph |-> Foundation(raw, "tokenpools").graph]]

-----------------------------------------------------------------------------
(* The chains: the protocol IDs of their constants, their buckets and what *)
(* they index.                                                             *)

arbitrumV2IDs ==
    [UniswapV2 |-> "uniswap-v2-arbitrum-mainnet"]

arbitrumV3IDs ==
    [UniswapV3 |-> "uniswap-v3-arbitrum-mainnet",
     PancakeswapV3 |-> "pancakeswap-v3-arbitrum-mainnet"]

arbitrumExtractBuckets(raw) ==
    [UniswapV2 |-> Bucket(raw, "uniswapv2", arbitrumV2IDs.UniswapV2),
     UniswapV3 |-> Bucket(raw, "uniswapv3", arbitrumV3IDs.UniswapV3),
     PancakeswapV3 |-> Bucket(raw, "uniswapv3", arbitrumV3IDs.PancakeswapV3)]

arbitrumProcessState(raw) == processState(raw, arbitrumExtractBuckets(raw), arbitrumV2IDs, arbitrumV3IDs)

baseV2IDs ==
    [UniswapV2 |-> "uniswap-v2-base-mainnet"]

baseV3IDs ==
    [UniswapV3 |-> "uniswap-v3-base-mainnet",
     PancakeswapV3 |-> "pancakeswap-v3-base-mainnet"]

baseExtractBuckets(raw) ==
    [UniswapV2 |-> Bucket(raw, "uniswapv2", baseV2IDs.UniswapV2),
     UniswapV3 |-> Bucket(raw, "uniswapv3", baseV3IDs.UniswapV3),
     PancakeswapV3 |-> Bucket(raw, "uniswapv3", baseV3IDs.PancakeswapV3)]

baseProcessState(raw) == processState(raw, baseExtractBuckets(raw), baseV2IDs, baseV3IDs)

bscV2IDs ==
    [UniswapV2 |-> "uniswap-v2-bsc-mainnet",
     PancakeswapV2 |-> "pancakeswap-v2-bsc-mainnet"]

bscV3IDs ==
    [UniswapV3 |-> "uniswap-v3-bsc-mainnet",
     PancakeswapV3 |-> "pancakeswap-v3-bsc-mainnet"]

bscExtractBuckets(raw) ==
    [UniswapV2 |-> Bucket(raw, "uniswapv2", bscV2IDs.UniswapV2),
     PancakeswapV2 |-> Bucket(raw, "uniswapv2", bscV2IDs.PancakeswapV2),
     UniswapV3 |-> Bucket(raw, "uniswapv3", bscV3IDs.UniswapV3),
     PancakeswapV3 |-> Bucket(raw, "uniswapv3", bscV3IDs.PancakeswapV3)]

bscProcessState(raw) == processState(raw, bscExtractBuckets(raw), bscV2IDs, bscV3IDs)

celoV2IDs ==
    [UniswapV2 |-> "uniswap-v2-celo-mainnet"]

celoV3IDs ==
    [UniswapV3 |-> "uniswap-v3-celo-mainnet",
     AerodromeV3 |-> "aerodrome-v3-celo-mainnet"]

celoExtractBuckets(raw) ==
    [UniswapV2 |-> Bucket(raw, "uniswapv2", celoV2IDs.UniswapV2),
     UniswapV3 |-> Bucket(raw, "uniswapv3", celoV3IDs.UniswapV3),
     AerodromeV3 |-> Bucket(raw, "uniswapv3", celoV3IDs.AerodromeV3)]

celoProcessState(raw) == processState(raw, celoExtractBuckets(raw), celoV2IDs, celoV3IDs)

ethereumV2IDs ==
    [UniswapV2 |-> "uniswap-v2-ethereum-mainnet"]

ethereumV3IDs ==
    [UniswapV3 |-> "uniswap-v3-ethereum-mainnet",
     PancakeswapV3 |-> "pancakeswap-v3-ethereum-mainnet"]

ethereumExtractBuckets(raw) ==
    [UniswapV2 |-> Bucket(raw, "uniswapv2", ethereumV2IDs.UniswapV2),
     UniswapV3 |-> Bucket(raw, "uniswapv3", ethereumV3IDs.UniswapV3),
     PancakeswapV3 |-> Bucket(raw, "uniswapv3", ethereumV3IDs.PancakeswapV3)]

ethereumProcessState(raw) == processState(raw, ethereumExtractBuckets(raw), ethereumV2IDs, ethereumV3IDs)

katanaV3IDs ==
    [SushiV3 |-> "sushiswap-v3-katana-mainnet"]

katanaExtractBuckets(raw) ==
    [SushiV3 |-> Bucket(raw, "uniswapv3", katanaV3IDs.SushiV3)]

katanaProcessState(raw) == processState(raw, katanaExtractBuckets(raw), <<>>, katanaV3IDs)

pulsechainV2IDs ==
    [UniswapV2 |-> "uniswap-v2-pulsechain-mainnet",
     PulseXV2 |-> "pulsex-v2-pulsechain-mainnet"]

pulsechainV3IDs ==
    [UniswapV3 |-> "uniswap-v3-pulsechain-mainnet",
     PancakeswapV3 |-> "pancakeswap-v3-pulsechain-mainnet"]

\* Mutant: the wrong constant in one case of the switch.
pulsechainExtractBucketsSwapped(raw) ==
    [UniswapV2 |-> Bucket(raw, "uniswapv2", pulsechainV2IDs.PulseXV2),
     PulseXV2 |-> Bucket(raw, "uniswapv2", pulsechainV2IDs.PulseXV2),
     UniswapV3 |-> Bucket(raw, "uniswapv3", pulsechainV3IDs.UniswapV3),
     PancakeswapV3 |-> Bucket(raw, "uniswapv3", pulsechainV3IDs.PancakeswapV3)]

pulsechainExtractBuckets(raw) ==
    [UniswapV2 |-> Bucket(raw, "uniswapv2", pulsechainV2IDs.UniswapV2),
     PulseXV2 |-> Bucket(raw, "uniswapv2", pulsechainV2IDs.PulseXV2),
     UniswapV3 |-> Bucket(raw, "uniswapv3", pulsechainV3IDs.UniswapV3),
     PancakeswapV3 |-> Bucket(raw, "uniswapv3", pulsechainV3IDs.PancakeswapV3)]

pulsechainProcessState(raw) == processState(raw, pulsechainExtractBuckets(raw), pulsechainV2IDs, pulsechainV3IDs)

=============================================================================
