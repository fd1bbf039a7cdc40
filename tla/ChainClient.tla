----------------------------- MODULE ChainClient -----------------------------
(***************************************************************************)
(* A chain end to end: pool contracts emit logs, every protocol the        *)
(* chain's server runs discovers, checks, registers and updates its pools, *)
(* the engine publishes a state, and the chain's client patches, indexes   *)
(* and shows it.  The chain and the pools deployed on it are chosen        *)
(* initially.                                                              *)
(*                                                                         *)
(* A block is handled by all protocols in one step and so is the           *)
(* initialisation of a pool: UniswapV2System, UniswapV3System and          *)
(* TickIndexer take those apart.  Stream takes apart the delivery.  A pool *)
(* has the tokens of its address and the flavour of the protocol that      *)
(* lists its factory.                                                      *)
(***************************************************************************)
EXTENDS ChainConfig, ChainIndex, V3Forks

CONSTANTS
    Deployments,    \* Deployments[c]: what is tried on chain c: pools, late, events
    MaxBlocks,      \* bound: states published
    NoState

VARIABLES
    chain,          \* the chain ID of the configuration
    contracts,      \* address |-> pool contract
    events,         \* bound: blocks with a log still to come
    tokens,         \* addresses whose tokens the token system holds
    server,         \* the protocols' state, their tick indexers' and the registry
    drift,          \* history: what changed in a contract and no handler could see
    build,          \* the static views of the state being built
    published,      \* history: the states published, with the contracts then
    client

chainVars == <<chain, contracts, events, tokens, server, drift, build, published, client>>

\* The schema of every protocol ID of every chain.
SchemaOfID ==
    LET all == UNION {chainProtocolsProvider(c).static \cup
                      {[id |-> p.id, schema |-> p.schema] :
                          p \in chainProtocolsProvider(c).synced} : c \in Chains}
    IN  [i \in {p.id : p \in all} |-> (CHOOSE p \in all : p.id = i).schema]

DP == INSTANCE DiffPatch WITH
        Protocols <- DOMAIN SchemaOfID, SchemaOf <- SchemaOfID,
        IDs <- {}, Immutable <- <<>>, Values <- {}, NoData <- NoState

Config == chainProtocolsProvider(chain)

-----------------------------------------------------------------------------
(* The chain.                                                              *)

V2Swap == <<"Swap", <<"uint256", "uint256", "uint256", "uint256">>>>

\* A pool f with its price at tick.  The positions of a V3 pool: one each in [-2, 1)
\* and [1, 2), and n in [-1, 1), so that tick -1 is initialised if n > 0.  answers:
\* the factory has the method it is asked by.
PoolAt(f, tick, n, reserves) ==
    [address |-> f.address, factory |-> f.factory, flavour |-> f.flavour, answers |-> f.answers,
     between |-> n, reserves |-> reserves,
     tick |-> tick, sqrtPriceX96 |-> IF tick < 0 THEN 2 ELSE 1,
     liquidity |-> IF tick < 1 THEN 1 + n ELSE 1,
     ticks |-> [t \in {-2, 1, 2} \cup {u \in {-1} : n > 0} |->
                  CASE t = -1 -> n [] t = 1 -> 2 + n [] OTHER -> 1]]

\* A swap moves the price across zero, a Mint and a Burn change the liquidity of
\* [-1, 1).  Every event of a V2 pool changes its reserves.
After(pool, event) ==
    CASE pool.flavour = NoFork -> [pool EXCEPT !.reserves = @ + 1]
      [] event = "Swap" -> PoolAt(pool, -pool.tick, pool.between, pool.reserves)
      [] event = "Mint" -> PoolAt(pool, pool.tick, pool.between + 1, pool.reserves)
      [] event = "Burn" -> PoolAt(pool, pool.tick, pool.between - 1, pool.reserves)

LogOf(pool, event) ==
    IF pool.flavour # NoFork THEN Log(pool, event, -1, 1)
    ELSE [address |-> pool.address, data |-> pool.reserves,
          topic |-> IF event = "Swap" THEN V2Swap ELSE <<event, <<"uint256", "uint256">>>>]

-----------------------------------------------------------------------------
(* The protocols.                                                          *)

\* PoolAddressToID: some protocol has registered the pool.
Known(a) == \E i \in DOMAIN server.pools : server.pools[i].key = a

\* A block with a Swap in its bloom: all pools of the view get the reserves they
\* have in this block, and DiscoverPools finds the pools that swapped.  A block with
\* a Mint or Burn only is skipped.
HandleV2(view, log, after) ==
    IF log.topic # V2Swap THEN [pending |-> {}, view |-> view, indexed |-> <<>>]
    ELSE [pending |-> {a \in {log.address} : ~Known(a)}, indexed |-> <<>>,
          view |-> [id \in DOMAIN view |->
                      [view[id] EXCEPT !.reserves = after[server.pools[id].key].reserves]]]

SetTicks(ticks, changed) ==
    {t \in ticks : t[1] \notin DOMAIN changed} \cup
    {<<t, changed[t]>> : t \in DOMAIN changed}

\* handleNewBlock: the pool info of a pool of the view, which keeps its numbers
\* when the read fails.
Core(info, core) == IF info.err THEN core ELSE info.out

\* The tick indexer, for the pools it tracks: the ticks the block's logs name.
UpdatedTicks(fork, log, indexed) ==
    [id \in DOMAIN indexed |->
        IF \/ server.pools[id].key # log.address \/ ~fork.TickTestBloom
           \/ log.topic \notin fork.FilterTopics \/ fork.Changed.err
          THEN indexed[id] ELSE SetTicks(indexed[id], fork.Changed.out)]

\* handleBlockLogs: unknown pools that swapped; none if a Swap cannot be decoded.
Discovered(fork, log) ==
    IF log.topic \notin fork.FilterTopics \/ fork.ExtractSwaps.err THEN {}
    ELSE {a \in fork.DiscoverPools : ~Known(a)}

\* updateCachedView: the view of the registry, with the indexer's ticks of now.
updateCachedView(view, indexed) ==
    [id \in DOMAIN view |->
        [view[id] EXCEPT !.ticks = IF id \in DOMAIN indexed THEN indexed[id] ELSE {}]]

\* The indexer handles the block before the view is made, or after.
ApplyBlock(p, fork, log, after, indexedFirst) ==
    LET view == server.views[p.id]
        indexed == server.indexed[p.id]
        now == UpdatedTicks(fork, log, indexed)
        read(id) == GetForkData(p.fork, {}, after[server.pools[id].key]).PoolInfoProvider
    IN  IF ~fork.TestBloom THEN [pending |-> {}, view |-> view, indexed |-> indexed]
        ELSE [pending |-> Discovered(fork, log), indexed |-> now,
              view |-> updateCachedView([id \in DOMAIN view |-> [view[id] EXCEPT !.core = Core(read(id), @)]],
                                        IF indexedFirst THEN now ELSE indexed)]

HandleV3(p, log, after, indexedFirst) ==
    ApplyBlock(p, GetForkData(p.fork, {log}, after[log.address]), log, after, indexedFirst)

\* The goroutines of one protocol and of its tick indexer, in one step: modules
\* UniswapV2System and UniswapV3System have their interleavings.
Handle(p, log, after, indexedFirst) ==
    IF p.fork = NoFork THEN HandleV2(server.views[p.id], log, after)
    ELSE HandleV3(p, log, after, indexedFirst)

ByID(i) == CHOOSE p \in Config.synced : p.id = i

\* The reserves that changed in a block without a Swap of a V2 pool, until one with
\* such a Swap; the ticks a Burn left without liquidity.
DriftAfter(old, pool, event) ==
    [reserves |-> CASE pool.flavour # NoFork -> drift.reserves
                    [] event = "Swap" -> {}
                    [] OTHER -> drift.reserves \cup {pool.address},
     ticks |-> (drift.ticks \ ({pool.address} \X DOMAIN pool.ticks))
               \cup ({pool.address} \X (DOMAIN old.ticks \ DOMAIN pool.ticks))]

\* A block with an event of pool a, handled by every protocol.  Bound: liquidity
\* changes in known pools.
Block(a, event, indexedFirst) ==
    LET pool == After(contracts[a], event)
        after == [contracts EXCEPT ![a] = pool]
        done == [i \in DOMAIN server.views |-> Handle(ByID(i), LogOf(pool, event), after, indexedFirst)]
    IN  /\ events > 0
        /\ event # "Swap" => Known(a)
        /\ event = "Swap" => indexedFirst   \* the indexer skips the block
        /\ event = "Burn" /\ contracts[a].flavour # NoFork => contracts[a].between > 0
        /\ contracts' = after
        /\ events' = events - 1
        /\ drift' = DriftAfter(contracts[a], pool, event)
        /\ server' = [server EXCEPT
                        !.views = [i \in DOMAIN @ |-> done[i].view],
                        !.indexed = [i \in DOMAIN @ |-> done[i].indexed],
                        !.pending = [i \in DOMAIN @ |-> @[i] \cup done[i].pending]]
        /\ UNCHANGED <<chain, tokens, build, published, client>>

\* The number of a protocol in the registry's dictionary: a new one is given on
\* first use.
NumberOf(id) ==
    IF \E n \in DOMAIN server.protocols : server.protocols[n] = id
      THEN CHOOSE n \in DOMAIN server.protocols : server.protocols[n] = id
      ELSE Cardinality(DOMAIN server.protocols) + 1

\* RegistryManager.RegisterPool: a pool with unknown tokens is refused; else it
\* is added to the registry, then to the graph.
RegisterPool(a, protocolID) ==
    LET id == Cardinality(DOMAIN server.pools) + 1
        number == NumberOf(protocolID)
    IN  IF a \notin tokens
          THEN [err |-> TRUE]
          ELSE [err |-> FALSE, id |-> id,
                out |-> [server EXCEPT
                            !.pools = (id :> [key |-> a, protocol |-> number]) @@ @,
                            !.protocols = (number :> protocolID) @@ @,
                            !.graph = @ \cup {<<a, id>>}]]

\* getPair(token0, token1) and getPool(token0, token1, fee) of a pool's factory: a
\* factory has made one pool with the tokens and the fee, which has the factory's
\* address; any other pool that names this factory is not its own.  The code asks
\* the factories of all flavours by Uniswap's signature, with the fee, and one
\* without such a method gives no answer.
getPool(pool) == IF pool.answers THEN pool.factory ELSE NoState

\* Initializer, V2: the factory must be listed and know the pool.
InitializeV2(p, pool) ==
    IF pool.factory \notin p.factories \/ getPool(pool) # pool.address
      THEN [err |-> TRUE]
      ELSE [err |-> FALSE, out |-> [imm |-> pool.address, reserves |-> pool.reserves]]

NewView(pool, read) ==
    IF read.err THEN [err |-> TRUE]
    ELSE [err |-> FALSE, out |-> [imm |-> pool.address, core |-> read.out, ticks |-> {}]]

\* Mutant: the factory is not asked whether the pool is its own.
InitializeV3Any(p, pool) ==
    IF pool.factory \notin p.factories THEN [err |-> TRUE]
    ELSE NewView(pool, GetForkData(p.fork, {}, pool).PoolInitializer)

\* Initializer, V3: the factory must be listed, and know the pool that was read.
InitializeV3(p, pool) ==
    IF pool.factory \notin p.factories \/ getPool(pool) # pool.address
      THEN [err |-> TRUE]
    ELSE NewView(pool, GetForkData(p.fork, {}, pool).PoolInitializer)

\* A pool leaves pending whether or not it is accepted.
AfterInit(i, a, read, reg) ==
    IF read.err \/ reg.err THEN server
    ELSE [reg.out EXCEPT
            !.views[i] = LET view == (reg.id :> read.out) @@ @
                         IN  IF ByID(i).fork = NoFork THEN view
                             ELSE updateCachedView(view, server.indexed[i])]

Initialize(i, a) ==
    LET p == ByID(i)
        read == IF p.fork = NoFork THEN InitializeV2(p, contracts[a])
                ELSE InitializeV3(p, contracts[a])
    IN  /\ a \in server.pending[i]
        /\ server' = [AfterInit(i, a, read, RegisterPool(a, p.registrar))
                        EXCEPT !.pending[i] = @ \ {a}]
        /\ UNCHANGED <<chain, contracts, events, tokens, drift, build, published, client>>

\* The ticks behind the bitmap of a pool of protocol i.
TicksRead(i, id) == GetForkData(ByID(i).fork, {}, contracts[server.pools[id].key]).Ticks

Undrifted(ids) == [drift EXCEPT !.ticks = {x \in @ : \A id \in ids : server.pools[id].key # x[1]}]

\* The tick indexer reads a new pool's ticks later; the view has them when it is
\* made the next time.
IndexTicks(i, id) ==
    /\ ByID(i).fork # NoFork
    /\ id \in DOMAIN server.views[i] \ DOMAIN server.indexed[i]
    /\ \E read \in {TicksRead(i, id)} :
          /\ ~read.err
          /\ server' = [server EXCEPT !.indexed[i] = (id :> SetTicks({}, read.out)) @@ @]
    /\ drift' = Undrifted({id})
    /\ UNCHANGED <<chain, contracts, events, tokens, build, published, client>>

\* The resyncer replaces the ticks of the pools that drifted.
ResyncTicks(i) ==
    \E read \in {[id \in DOMAIN server.indexed[i] |-> TicksRead(i, id)]} :
        /\ server' = [server EXCEPT
                        !.indexed[i] = [id \in DOMAIN @ |->
                            IF read[id].err THEN @[id] ELSE SetTicks({}, read[id].out)]]
        /\ server' # server
        /\ drift' = Undrifted({id \in DOMAIN read : ~read[id].err})
        /\ UNCHANGED <<chain, contracts, events, tokens, build, published, client>>

\* The token analyzer adds the tokens of a pool.
TokenFound(a) ==
    /\ tokens' = tokens \cup {a}
    /\ tokens' # tokens
    /\ UNCHANGED <<chain, contracts, events, server, drift, build, published, client>>

-----------------------------------------------------------------------------
(* The engine and the stream.                                              *)

StaticView(schema) ==
    CASE schema = "erc20" ->
            [table |-> [a \in tokens |-> [imm |-> a, fee |-> 0, gas |-> 0]]]
      [] schema = "poolregistry" -> [pools |-> server.pools, protocols |-> server.protocols]
      [] schema = "tokenpools" -> [graph |-> server.graph]

\* buildState reads the static protocols first ...  Bound: states nobody receives
\* are not built.
ReadStatic ==
    /\ build = NoState /\ Len(published) < MaxBlocks
    /\ client.dialed
    /\ build' = [i \in {p.id : p \in Config.static} |->
                    LET schema == SchemaOfID[i]
                    IN  [schema |-> schema, data |-> StaticView(schema)]]
    /\ UNCHANGED <<chain, contracts, events, tokens, server, drift, published, client>>

\* The client's last state after a message: a message with a schema its
\* operations do not know is dropped.
Received(state) ==
    LET ops == chainStateOps(chain)
        schemas == {state.protocols[i].schema : i \in DOMAIN state.protocols}
        prev == published[Len(published)].state
        diff == [i \in DOMAIN state.protocols |->
                    DP!Differ(i, prev.protocols[i].data, state.protocols[i].data)]
    IN  IF client.raw = NoState
          THEN IF schemas \subseteq ops.full THEN state ELSE NoState
          ELSE IF /\ schemas \subseteq ops.ops.differs \cap ops.diff \cap ops.ops.patchers
                  /\ client.raw.block = prev.block
                 THEN [block |-> state.block,
                       protocols |-> [i \in DOMAIN diff |->
                            [schema |-> state.protocols[i].schema,
                             data |-> DP!Patcher(i, client.raw.protocols[i].data, diff[i])]]]
                 ELSE client.raw

\* History: a pool the registry's or the token system's view lacks, because it
\* was registered after they were read.
Torn(state) ==
    \E i \in DOMAIN server.views : \E id \in DOMAIN state.protocols[i].data.table :
        \/ id \notin DOMAIN state.protocols["pool-system"].data.pools
        \/ state.protocols[i].data.table[id].imm
              \notin DOMAIN state.protocols["token-system"].data.table

\* ... then the synchronized ones; the state is sent whole to a client that has
\* none and as a difference to the previous one otherwise.
Publish ==
    LET state == [block |-> Len(published) + 1,
                  protocols |-> build @@ [i \in DOMAIN server.views |->
                        [schema |-> SchemaOfID[i], data |-> [table |-> server.views[i]]]]]
        raw == Received(state)
    IN  /\ build # NoState
        /\ build' = NoState
        /\ published' = Append(published, [state |-> state, torn |-> Torn(state),
                                          contracts |-> contracts])
        /\ client' = IF ~client.dialed \/ client.ended THEN client
                     ELSE [client EXCEPT !.raw = raw, !.sent = state.block,
                              !.queue = IF raw = client.raw THEN @ ELSE Append(@, raw)]
        /\ UNCHANGED <<chain, contracts, events, tokens, server, drift>>

-----------------------------------------------------------------------------
(* The client.                                                             *)

\* DialJSONRPCStream starts the loop.
Dial ==
    /\ ~client.dialed
    /\ client' = [client EXCEPT !.dialed = TRUE, !.running = TRUE]
    /\ UNCHANGED <<chain, contracts, events, tokens, server, drift, build, published>>

\* A second registration fails.
Register ==
    /\ client.dialed /\ ~client.registered
    /\ client.queue # <<>>          \* bound: while a state waits
    /\ client' = [client EXCEPT !.registered = TRUE]
    /\ UNCHANGED <<chain, contracts, events, tokens, server, drift, build, published>>

\* Mutant: a state that cannot be indexed ends the loop.
LoopReturns(result) ==
    /\ client.running /\ client.queue # <<>>
    /\ client' = IF result.err
                   THEN [client EXCEPT !.queue = Tail(@), !.running = FALSE]
                   ELSE [client EXCEPT !.queue = Tail(@), !.latest = result.out,
                            !.handled = IF client.registered THEN result.out.block ELSE @]
    /\ UNCHANGED <<chain, contracts, events, tokens, server, drift, build, published>>

\* A state that cannot be indexed is skipped; the latest state is stored before
\* the handler runs.
Loop(result) ==
    /\ client.running /\ client.queue # <<>>
    /\ client' = IF result.err
                   THEN [client EXCEPT !.queue = Tail(@)]
                   ELSE [client EXCEPT !.queue = Tail(@), !.latest = result.out,
                            !.handled = IF client.registered THEN result.out.block ELSE @]
    /\ UNCHANGED <<chain, contracts, events, tokens, server, drift, build, published>>

\* The stream fails or closes, or the context ends.  Bound: while a state waits.
StreamEnds ==
    /\ client.running /\ client.queue # <<>> /\ build = NoState
    /\ client' = [client EXCEPT !.running = FALSE, !.ended = TRUE]
    /\ UNCHANGED <<chain, contracts, events, tokens, server, drift, build, published>>

arbitrumDialJSONRPCStream == chain = "arbitrum" /\ Dial
arbitrumOnNewBlock == chain = "arbitrum" /\ Register
arbitrumLoop == chain = "arbitrum" /\ Loop(arbitrumProcessState(Head(client.queue)))

baseDialJSONRPCStream == chain = "base" /\ Dial
baseOnNewBlock == chain = "base" /\ Register
baseLoop == chain = "base" /\ Loop(baseProcessState(Head(client.queue)))

bscDialJSONRPCStream == chain = "bsc" /\ Dial
bscOnNewBlock == chain = "bsc" /\ Register
bscLoop == chain = "bsc" /\ Loop(bscProcessState(Head(client.queue)))

celoDialJSONRPCStream == chain = "celo" /\ Dial
celoOnNewBlock == chain = "celo" /\ Register
celoLoop == chain = "celo" /\ Loop(celoProcessState(Head(client.queue)))

ethereumDialJSONRPCStream == chain = "ethereum" /\ Dial
ethereumOnNewBlock == chain = "ethereum" /\ Register
ethereumLoop == chain = "ethereum" /\ Loop(ethereumProcessState(Head(client.queue)))

katanaDialJSONRPCStream == chain = "katana" /\ Dial
katanaOnNewBlock == chain = "katana" /\ Register
katanaLoop == chain = "katana" /\ Loop(katanaProcessState(Head(client.queue)))

pulsechainDialJSONRPCStream == chain = "pulsechain" /\ Dial
pulsechainOnNewBlock == chain = "pulsechain" /\ Register
pulsechainLoop == chain = "pulsechain" /\ Loop(pulsechainProcessState(Head(client.queue)))

-----------------------------------------------------------------------------
ChainInit ==
    /\ chain \in Chains
    /\ \E D \in Deployments[chain] :
          /\ contracts = [a \in {f.address : f \in D.pools} |->
                            LET f == CHOOSE g \in D.pools : g.address = a IN PoolAt(f, 1, f.between, 1)]
          /\ tokens = DOMAIN contracts \ D.late
          /\ events = D.events
    /\ server = [pending |-> [i \in {p.id : p \in Config.synced} |-> {}],
                 views |-> [i \in {p.id : p \in Config.synced} |-> <<>>],
                 indexed |-> [i \in {p.id : p \in Config.synced} |-> <<>>],
                 pools |-> <<>>, protocols |-> <<>>, graph |-> {}]
    /\ drift = [reserves |-> {}, ticks |-> {}]
    /\ build = NoState
    /\ published = <<>>
    /\ client = [dialed |-> FALSE, running |-> FALSE, ended |-> FALSE, registered |-> FALSE,
                 raw |-> NoState, sent |-> 0, queue |-> <<>>, latest |-> NoState, handled |-> 0]

\* Bound: what the server does after the client's end is not explored.
Server ==
    /\ ~client.ended
    /\ \/ \E a \in DOMAIN contracts, e \in {"Swap", "Mint", "Burn"}, first \in BOOLEAN : Block(a, e, first)
       \/ \E a \in DOMAIN contracts : TokenFound(a)
       \/ \E i \in DOMAIN server.pending : \E a \in server.pending[i] : Initialize(i, a)
       \/ \E i \in DOMAIN server.views : ResyncTicks(i) \/ \E id \in DOMAIN server.views[i] : IndexTicks(i, id)
       \/ ReadStatic \/ Publish

ClientDials ==
    \/ arbitrumDialJSONRPCStream
    \/ baseDialJSONRPCStream
    \/ bscDialJSONRPCStream
    \/ celoDialJSONRPCStream
    \/ ethereumDialJSONRPCStream
    \/ katanaDialJSONRPCStream
    \/ pulsechainDialJSONRPCStream

ClientRegisters ==
    \/ arbitrumOnNewBlock
    \/ baseOnNewBlock
    \/ bscOnNewBlock
    \/ celoOnNewBlock
    \/ ethereumOnNewBlock
    \/ katanaOnNewBlock
    \/ pulsechainOnNewBlock

ClientLoop ==
    \/ arbitrumLoop
    \/ baseLoop
    \/ bscLoop
    \/ celoLoop
    \/ ethereumLoop
    \/ katanaLoop
    \/ pulsechainLoop

ChainNext == Server \/ ClientDials \/ ClientRegisters \/ ClientLoop \/ StreamEnds

\* The client's goroutine runs: a waiting state does not wait for ever.
ChainSpec ==
    /\ ChainInit
    /\ [][ChainNext]_chainVars
    /\ []<>~(client.running /\ client.queue # <<>>)

-----------------------------------------------------------------------------
(* Properties.                                                             *)

Owners(pool) == {p \in Config.synced : pool.factory \in p.factories}

Numbers(pool) ==
    [tick |-> pool.tick, sqrtPriceX96 |-> pool.sqrtPriceX96, liquidity |-> pool.liquidity]

TicksOn(pool) ==
    {<<t, [gross |-> pool.ticks[t], net |-> -pool.ticks[t]]>> : t \in DOMAIN pool.ticks}

\* The chain starts without a registration error; every pool a protocol shows
\* is in the registry and the graph, under a number the dictionary holds.
ChainTypeOK ==
    /\ ~Config.err
    /\ chain \in Chains /\ events \in Nat
    /\ tokens \subseteq DOMAIN contracts
    /\ \A i \in DOMAIN server.views :
          /\ server.pending[i] \subseteq DOMAIN contracts
          /\ DOMAIN server.indexed[i] \subseteq DOMAIN server.views[i]
          /\ DOMAIN server.views[i] \subseteq DOMAIN server.pools
    /\ {g[2] : g \in server.graph} = DOMAIN server.pools
    /\ \A i \in DOMAIN server.pools : server.pools[i].protocol \in DOMAIN server.protocols
    /\ client.handled \in 0..Len(published)
    /\ Len(client.queue) <= Len(published)

\* What the server holds of the contracts.  A pool belongs to the
\* protocol that lists its factory and to no other, though protocols whose events
\* have the same signature all see its swaps; a pool of an unlisted factory, or
\* one its factory does not know, is shown by none (DiscoverPools, the
\* initializers' factory checks).  Whichever ABI a V3 pool speaks, its numbers are
\* the contract's, and the indexer has every tick of the contract, negative ones
\* included, as it is there; a tick it has beyond these lost its liquidity in a Burn
\* since the pool was last read as a whole.  The reserves of a V2 pool are the
\* contract's, unless they changed in a block without a Swap of any V2 pool and
\* there was none with one since (testBloom).
ServerMatchesContracts ==
    /\ ChainTypeOK
    /\ \A i \in DOMAIN server.views : \A id \in DOMAIN server.views[i] :
          LET pool == contracts[server.pools[id].key]
              e == server.views[i][id]
          IN  /\ Owners(pool) = {ByID(i)}
              /\ getPool(pool) = server.pools[id].key
              /\ \A j \in DOMAIN server.views \ {i} : id \notin DOMAIN server.views[j]
              /\ IF ByID(i).fork = NoFork
                   THEN e.reserves = pool.reserves \/ pool.address \in drift.reserves
                   ELSE /\ e.core = Numbers(pool)
                        /\ id \in DOMAIN server.indexed[i] =>
                              LET ticks == server.indexed[i][id]
                              IN  /\ TicksOn(pool) \subseteq ticks
                                  /\ \A x \in ticks \ TicksOn(pool) :
                                        <<pool.address, x[1]>> \in drift.ticks

ReadsExactly(pool, swap, changes) ==
    LET a == pool.address
    IN  /\ swap.DiscoverPools = {a}
        /\ ~swap.ExtractSwaps.err /\ swap.ExtractSwaps.out[a] = Numbers(pool)
        /\ ~swap.PoolInitializer.err /\ swap.PoolInitializer.out = Numbers(pool)
        /\ ~swap.PoolInfoProvider.err /\ swap.PoolInfoProvider.out = Numbers(pool)
        /\ ~swap.Ticks.err /\ SetTicks({}, swap.Ticks.out) = TicksOn(pool)
        /\ swap.TestBloom /\ ~swap.TickTestBloom
        /\ \A c \in changes : /\ c.ExtractMintsAndBurns = {a} /\ c.UpdatedInBlock[a] = {-1, 1}
                             /\ c.DiscoverPools = {} /\ c.TestBloom /\ c.TickTestBloom

\* After every block, each fork's copy of the contract code reads a pool of its
\* own flavour exactly: the Swap's numbers, slot0 decoded through the ABI and by
\* hand, the ticks behind the bitmap and the ticks a Mint or a Burn names all agree
\* with the contract, for negative ticks too.  (The contracts do the same whether or
\* not a client is connected.)
ForksFaithful ==
    [][\A a \in DOMAIN contracts : contracts'[a] # contracts[a] /\ ~client.dialed =>
          \A f \in Forks :
             LET pool == [contracts'[a] EXCEPT !.flavour = f]
             IN  ReadsExactly(pool, GetForkData(f, {Log(pool, "Swap", -1, 1)}, pool),
                                {GetForkData(f, {Log(pool, e, -1, 1)}, pool) : e \in {"Mint", "Burn"}})]_chainVars

\* The state a client shows is the one the server published for that block,
\* sorted the way the server's configuration says: every protocol of the server
\* fills exactly one field, under its own ID, with the addresses and numbers
\* published for it, and the resolver leads from every pool to its protocol's
\* schema (extractBuckets, processState, ResolveSchemaFromPoolID).
ShownIsPublished ==
    client.latest # NoState =>
        LET shown == client.latest
            then == published[shown.block]
            field(p) == {f \in DOMAIN shown.protocols :
                           /\ shown.protocols[f] # <<>>
                           /\ \A id \in DOMAIN shown.protocols[f] :
                                 shown.protocols[f][id].Protocol = p.id}
        IN  /\ \A p \in Config.synced :
                  LET table == then.state.protocols[p.id].data.table
                  IN  IF table = <<>> THEN field(p) = {}
                      ELSE \E f \in DOMAIN shown.protocols :
                              /\ field(p) = {f}
                              /\ DOMAIN shown.protocols[f] = DOMAIN table
                              /\ \A id \in DOMAIN table : shown.protocols[f][id].data = table[id]
            /\ \A f \in DOMAIN shown.protocols : \A id \in DOMAIN shown.protocols[f] :
                  LET x == shown.protocols[f][id]
                      owner == CHOOSE p \in Config.synced : p.id = x.Protocol
                      pool == then.contracts[x.Address]
                  IN  /\ pool.factory \in owner.factories
                      /\ x.data.imm = x.Address
                      /\ ResolveSchemaFromPoolID(shown.resolver, id) = owner.schema
                      /\ shown.resolver.registry.protocols[
                            shown.resolver.registry.byID[id].protocol] = owner.id

\* A dialed client gets every state the server publishes, and every one that
\* could be indexed is shown, also after states that could not (a pool that was
\* registered between the reads of one build), unless the stream ends.  It never
\* goes back to an older block, and a registered handler is called with every
\* state that becomes the latest one.
StatesAreShown ==
    /\ \A n \in 1..MaxBlocks :
          (client.sent = n /\ ~published[n].torn)
          ~> (client.ended \/ (client.latest # NoState /\ client.latest.block >= n))
    /\ [][client'.latest # client.latest =>
            /\ client.latest # NoState => client'.latest.block > client.latest.block
            /\ client.registered => client'.handled = client'.latest.block]_chainVars
=============================================================================
