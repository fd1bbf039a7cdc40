----------------------------- MODULE ChainConfig -----------------------------
(***************************************************************************)
(* The protocols each chain's server runs (internal/chains/<chain>) and    *)
(* the schemas each chain's state operations handle                        *)
(* (streams/jsonrpc/stateops/chains/<chain>).  A factory address is        *)
(* written by its first digits.                                            *)
(***************************************************************************)
EXTENDS Naturals, Integers, FiniteSets, SequencesExt

NoFork == -1                \* a Uniswap V2 protocol has no fork ID

-----------------------------------------------------------------------------
(* What every chain's file builds.                                         *)

\* registrar is the ID its RegisterPool closure passes to the registry.
V2Protocol(id, factories) ==
    [id |-> id, registrar |-> id, schema |-> "uniswapv2", fork |-> NoFork,
     factories |-> factories]

V3Protocol(id, fork, factories) ==
    [id |-> id, registrar |-> id, schema |-> "uniswapv3", fork |-> fork,
     factories |-> factories]

\* The token system, the pool registry and the token-pool graph.
StaticProtocols ==
    {[id |-> "token-system", schema |-> "erc20"],
     [id |-> "pool-system", schema |-> "poolregistry"],
     [id |-> "token-pool-graph-system", schema |-> "tokenpools"]}

\* Dependencies.RegisterProtocolPlugins refuses an ID it already holds.
RegisterProtocols(static, synced) ==
    [err |-> \E i, j \in DOMAIN synced : i # j /\ synced[i].id = synced[j].id,
     static |-> static,
     synced |-> Range(synced)]

HandledSchemas == {"erc20", "poolregistry", "tokenpools", "uniswapv2", "uniswapv3"}

-----------------------------------------------------------------------------
(* The chains' protocols.                                                  *)

arbitrumUniswapV2 ==
    V2Protocol("uniswap-v2-arbitrum-mainnet",
        {"0x5C69bE"})

arbitrumUniswapV3 ==
    V3Protocol("uniswap-v3-arbitrum-mainnet", 0,
        {"0x1F9843"})

arbitrumPancakeswapV3 ==
    V3Protocol("pancakeswap-v3-arbitrum-mainnet", 1,
        {"0x0BFbCF"})

arbitrumStatic == StaticProtocols

MakeArbitrumProtocols ==
    RegisterProtocols(arbitrumStatic,
        <<arbitrumUniswapV2, arbitrumUniswapV3, arbitrumPancakeswapV3>>)

baseUniswapV2 ==
    V2Protocol("uniswap-v2-base-mainnet",
        {"0x5C69bE"})

baseUniswapV3 ==
    V3Protocol("uniswap-v3-base-mainnet", 0,
        {"0x1F9843"})

basePancakeswapV3 ==
    V3Protocol("pancakeswap-v3-base-mainnet", 1,
        {"0x0BFbCF"})

baseStatic == StaticProtocols

MakeBaseProtocols ==
    RegisterProtocols(baseStatic,
        <<baseUniswapV2, baseUniswapV3, basePancakeswapV3>>)

bscUniswapV2 ==
    V2Protocol("uniswap-v2-bsc-mainnet",
        {"0x5C69bE"})

bscPancakeswapV2 ==
    V2Protocol("pancakeswap-v2-bsc-mainnet",
        {"0xcA143C"})

bscUniswapV3 ==
    V3Protocol("uniswap-v3-bsc-mainnet", 0,
        {"0x1F9843"})

bscPancakeswapV3 ==
    V3Protocol("pancakeswap-v3-bsc-mainnet", 1,
        {"0x0BFbCF"})

bscStatic == StaticProtocols

MakeBSCProtocols ==
    RegisterProtocols(bscStatic,
        <<bscUniswapV2, bscPancakeswapV2, bscUniswapV3, bscPancakeswapV3>>)

celoUniswapV2 ==
    V2Protocol("uniswap-v2-celo-mainnet",
        {"0x5C69bE", "0xc35DAD"})

celoUniswapV3 ==
    V3Protocol("uniswap-v3-celo-mainnet", 0,
        {"0xAfE208", "0x67FEa5"})

celoAerodromeV3 ==
    V3Protocol("aerodrome-v3-celo-mainnet", 2,
        {"0x04625B"})

celoStatic == StaticProtocols

MakeCeloProtocols ==
    RegisterProtocols(celoStatic,
        <<celoUniswapV2, celoUniswapV3, celoAerodromeV3>>)

ethereumUniswapV2 ==
    V2Protocol("uniswap-v2-ethereum-mainnet",
        {"0x5C69bE"})

ethereumUniswapV3 ==
    V3Protocol("uniswap-v3-ethereum-mainnet", 0,
        {"0x1F9843"})

ethereumPancakeswapV3 ==
    V3Protocol("pancakeswap-v3-ethereum-mainnet", 1,
        {"0x0BFbCF"})

ethereumStatic == StaticProtocols

MakeEthereumProtocols ==
    RegisterProtocols(ethereumStatic,
        <<ethereumUniswapV2, ethereumUniswapV3, ethereumPancakeswapV3>>)

katanaSushiV3 ==
    V3Protocol("sushiswap-v3-katana-mainnet", 0,
        {"0x203e87"})

katanaStatic == StaticProtocols

MakeKatanaProtocols ==
    RegisterProtocols(katanaStatic,
        <<katanaSushiV3>>)

pulsechainUniswapV2 ==
    V2Protocol("uniswap-v2-pulsechain-mainnet",
        {"0x5b9F07", "0x5C69bE", "0xC0AEe4", "0x556F4C",
         "0x109705", "0x3a0Fa7", "0xD56B9f", "0x3c75cb"})

pulsechainPulseXV2 ==
    V2Protocol("pulsex-v2-pulsechain-mainnet",
        {"0x1715a3", "0x29eA75"})

pulsechainUniswapV3 ==
    V3Protocol("uniswap-v3-pulsechain-mainnet", 0,
        {"0x1F9843"})

pulsechainPancakeswapV3 ==
    V3Protocol("pancakeswap-v3-pulsechain-mainnet", 1,
        {"0xe50dbd", "0xcfd33c", "0x271Fd3", "0x968bac"})

pulsechainStatic == StaticProtocols

MakePulsechainProtocols ==
    RegisterProtocols(pulsechainStatic,
        <<pulsechainUniswapV2, pulsechainPulseXV2, pulsechainUniswapV3,
          pulsechainPancakeswapV3>>)

-----------------------------------------------------------------------------
(* The chains' state operations: NewStateOps holds the schemas with a      *)
(* differ and a patcher, the two decoders the schemas they know.           *)

arbitrumNewStateOps == [differs |-> HandledSchemas, patchers |-> HandledSchemas]
arbitrumDecodeStateJSON == HandledSchemas
arbitrumDecodeStateDiffJSON == HandledSchemas

baseNewStateOps == [differs |-> HandledSchemas, patchers |-> HandledSchemas]
baseDecodeStateJSON == HandledSchemas
baseDecodeStateDiffJSON == HandledSchemas

bscNewStateOps == [differs |-> HandledSchemas, patchers |-> HandledSchemas]
bscDecodeStateJSON == HandledSchemas
bscDecodeStateDiffJSON == HandledSchemas

celoNewStateOps == [differs |-> HandledSchemas, patchers |-> HandledSchemas]
celoDecodeStateJSON == HandledSchemas
celoDecodeStateDiffJSON == HandledSchemas

ethereumNewStateOps == [differs |-> HandledSchemas, patchers |-> HandledSchemas]
ethereumDecodeStateJSON == HandledSchemas
ethereumDecodeStateDiffJSON == HandledSchemas

katanaNewStateOps == [differs |-> HandledSchemas, patchers |-> HandledSchemas]
katanaDecodeStateJSON == HandledSchemas
katanaDecodeStateDiffJSON == HandledSchemas

pulsechainNewStateOps == [differs |-> HandledSchemas, patchers |-> HandledSchemas]
pulsechainDecodeStateJSON == HandledSchemas
pulsechainDecodeStateDiffJSON == HandledSchemas

-----------------------------------------------------------------------------
(* The switches on the chain ID in cmd/defistate.                          *)

Chains == {"arbitrum", "base", "bsc", "celo", "ethereum", "katana", "pulsechain"}

chainProtocolsProvider(c) ==
    CASE c = "arbitrum" -> MakeArbitrumProtocols
      [] c = "base" -> MakeBaseProtocols
      [] c = "bsc" -> MakeBSCProtocols
      [] c = "celo" -> MakeCeloProtocols
      [] c = "ethereum" -> MakeEthereumProtocols
      [] c = "katana" -> MakeKatanaProtocols
      [] c = "pulsechain" -> MakePulsechainProtocols

chainStateOps(c) ==
    CASE c = "arbitrum" -> [ops |-> arbitrumNewStateOps, full |-> arbitrumDecodeStateJSON,
                             diff |-> arbitrumDecodeStateDiffJSON]
      [] c = "base" -> [ops |-> baseNewStateOps, full |-> baseDecodeStateJSON,
                             diff |-> baseDecodeStateDiffJSON]
      [] c = "bsc" -> [ops |-> bscNewStateOps, full |-> bscDecodeStateJSON,
                             diff |-> bscDecodeStateDiffJSON]
      [] c = "celo" -> [ops |-> celoNewStateOps, full |-> celoDecodeStateJSON,
                             diff |-> celoDecodeStateDiffJSON]
      [] c = "ethereum" -> [ops |-> ethereumNewStateOps, full |-> ethereumDecodeStateJSON,
                             diff |-> ethereumDecodeStateDiffJSON]
      [] c = "katana" -> [ops |-> katanaNewStateOps, full |-> katanaDecodeStateJSON,
                             diff |-> katanaDecodeStateDiffJSON]
      [] c = "pulsechain" -> [ops |-> pulsechainNewStateOps, full |-> pulsechainDecodeStateJSON,
                             diff |-> pulsechainDecodeStateDiffJSON]
=============================================================================
