---------------------------- MODULE MCChainClient ----------------------------
(* Every chain with a pool of each of its protocols and a pool of a        *)
(* factory nobody lists, and one block with a log; two blocks, and pools   *)
(* whose tokens are found late, where two protocols of a chain share a     *)
(* schema; two chains with a pool that copies another, and one with a      *)
(* factory that does not answer; a pool alone, with blocks enough to be    *)
(* found and to have its liquidity changed twice.                          *)
EXTENDS ChainClient

MCMinTick == -2

Factory(p) == CHOOSE f \in p.factories : TRUE

Pool(p) == [address |-> Factory(p), factory |-> Factory(p), flavour |-> p.fork,
            between |-> 0, answers |-> TRUE]

Unlisted(v) == [address |-> "0x000000", factory |-> "0x000000", flavour |-> v,
                between |-> 0, answers |-> TRUE]

\* A pool that names the protocol's factory, which does not know it.
Copy(p) == [Pool(p) EXCEPT !.address = "0x111111"]

\* A pool whose factory has no getPool with Uniswap's arguments.
Unanswered(p) == [Pool(p) EXCEPT !.answers = FALSE]

\* A pool with a position that can be burned.
WithPosition(p) == [Pool(p) EXCEPT !.between = 1]

Deployment(pools, late, n) ==
    [pools |-> pools, late |-> {x.address : x \in late}, events |-> n]

OfEach(c, v) ==
    Deployment({Pool(p) : p \in chainProtocolsProvider(c).synced} \cup {Unlisted(v)}, {}, 1)

MCDeployments ==
    [c \in Chains |->
        {OfEach(c, v) : v \in IF c = "celo" THEN {NoFork, 0, 1} ELSE {0}} \cup
        CASE c = "bsc" ->
                {Deployment({Pool(bscUniswapV2), Pool(bscPancakeswapV2)}, {Pool(bscUniswapV2)}, 2)}
          [] c = "celo" ->
                {Deployment({Pool(celoUniswapV3), Pool(celoAerodromeV3)}, {}, 2),
                 Deployment({Unanswered(celoAerodromeV3)}, {}, 1)}
          [] c = "katana" ->
                {Deployment({Pool(katanaSushiV3), Copy(katanaSushiV3)}, {}, 2),
                 Deployment({WithPosition(katanaSushiV3)}, {}, 3)}
          [] c = "ethereum" ->
                {Deployment({Pool(ethereumUniswapV2), Copy(ethereumUniswapV2)}, {}, 2),
                 Deployment({Pool(ethereumUniswapV2)}, {}, 3)}
          [] OTHER -> {}]
=============================================================================
