# A TLA+ model of defistate

defistate follows the pools and tokens of EVM chains and streams one state per
block to its clients. This directory holds TLA+ modules that model it, TLC
configurations that check them on small instances, and proofs checked by TLAPS.
`PROJECT.json` lists components, runs, mutants, the map from definitions to source
lines, findings, hazards and theorems.

    tlc -workers 2 -config MCStream.cfg MCStream    # one run
    tlapm StreamProofs.tla                          # one proof module

## 1. The system and its parts

    nodes -> clients -> BlockSubscriber -> FanOutBlock -+-> Uniswap V2 systems -------+
             (health,   (one goroutine     (one channel |                             |
              permits)   per client)        per         +-> Uniswap V3 systems        |
                                            consumer)   |     + tick indexers --------+
                                                        +-> token analyzer, fork pool |
                                                        |     + token system ---------+
                                                        +-> Engine <- views, counters +
                                                              |
                                              Streamer (full | diff) -> wire
                                                              |
                        StreamProcessor -> chain client + indexers -> handlers

| Part | Source | Modelled by |
|---|---|---|
| Clients of the nodes, client manager | `clients/eth-clients` | `ClientManager` |
| Block subscribers, fan-out | `block/` | `BlockFeed` |
| Engine | `engine/` | `Engine`, abstractly `StateFeed` |
| Streamer, stream client | `streams/jsonrpc/{server,client}` | `Stream` |
| Differs, patchers | `differ/`, `patcher/`, `*differ.go`, `*patcher.go` | `DiffPatch` |
| Pool registry | `protocols/pool-registry/pool_*.go` | `PoolRegistry`, abstractly `PoolDirectory` |
| Token graph | `protocols/pool-registry/token_pools_*.go` | `TokenPoolsRegistry`, abstractly `TokenPools` |
| Registry manager | `protocols/pool-registry/registry_manager.go` | in `UniswapV2System`, `UniswapV3System`, `TokenAnalyzer` |
| Uniswap V2 system | `protocols/uniswap-v2/` | `UniswapV2System` |
| Tick indexer | `protocols/uniswap-v3/ticks` | `TickIndexer` |
| Uniswap V3 system | `protocols/uniswap-v3/` | `UniswapV3System`, which extends `TickIndexer` |
| V3 contract calls and the four forks | `protocols/uniswap-v3/{contracts,forks,...}` | `V3Contracts`, `V3Forks` |
| Token registry | `protocols/erc20-token-system/` | `TokenSystem` |
| Token analyzer, fork pool | `token-analyzer/`, `fork/` | `TokenAnalyzer`, which extends `TokenSystem` |
| Protocols of each chain, state operations | `internal/chains`, `stateops/chains` | `ChainConfig` |
| Chain clients, indexers | `clients/chains`, `clients/indexers` | `ChainIndex`, and `ChainClient` end to end |
| Swap arithmetic, bindings, metrics, examples | | no (section 5) |

## 2. The modules

**`DiffPatch`** (operators). A protocol's view is a table from IDs to rows or a whole
value; a row has immutable and mutable fields. Which fields each differ compares is
kept, because rows whose other fields change would never be updated. `Diff` and
`Patch` have the refusals of StateDiffer and StatePatcher.

**`StateFeed`** (abstract). One state per block, in increasing order; a consumer's
current state is a published one without an error.

**`Stream`**. The engine as its subscriber sees it, one subscription, the streamer loop
(`StreamFull`, `StreamDiff`, `DiffFails`), the wire, the client (`HandleFull`,
`HandleDiff`, `Undecodable`), its consumer and reconnection. `Disconnect` loses what is
in flight; the client's `lastState` survives it. Ghosts: `published`, `intact` (every
message of this connection decoded) and `diffRun` (diffs taken since a full state).

**`Engine`**. Goroutine by goroutine: feeder, event loop (wait with timeout, one step per
read of buildState, send, store view, store counter), broadcaster, Subscribe with the
goroutine that sends the initial view. Protocols change between any two of these steps
and store counter and view in two steps, as the Uniswap systems do. Sends that block in
the code block here; a send on a closed channel sets `panicked`. `setup`, chosen
initially, says which protocols and subscribers exist and how many blocks come.

**`PoolRegistry`**. The parallel slices with swap-and-pop, both index maps, the protocol
dictionary with its limit, the block list, every single and batch write with the refresh
of the view, and `FromView`. **`PoolDirectory`**, its abstract form, is a set of (ID, key,
protocol) that readers see change one batch at a time, IDs never reissued.

**`TokenPoolsRegistry`**. Tokens, pools and directed edges in slices; edges are emptied,
not removed, and `compact` renumbers everything when the dangling edges pass the
threshold. **`TokenPools`** is the abstract form: a set of links.

**`UniswapV2System`**. Listener, log handlers (a goroutine per block), initializer, pruner
and readers. Steps that hold `mu` are atomic unless they call the registry manager, whose
systems have locks of their own and are read without `mu`: there each call is a step. RPC
results are the chain's at a block chosen by the step, or a failure. A reserve is
represented by the block in which it last changed.

**`V3Contracts`** (operators). What the V3 code reads from a pool contract: the range of
bitmap words with Go's truncating division and arithmetic shift, ticks from bitmaps, the
freshness window, and the silent gaps of sub-calls that failed. **`V3Forks`** has the four
flavours: each ABI as a list of fields, bloom tests, log and slot0 decoding with two's
complement at scaled-down widths.

**`TickIndexer`**. The parallel slices, both index maps, the queue of new pools, and three
goroutines under one lock whose calls run outside it. A call pinned to a block reads that
block; any other reads the head at some moment between two critical sections.
**`UniswapV3System`** adds the system: discovery, initialisation, registration, refresh and
pruning, with `mu` held across calls to the indexer and both fed the same blocks on
channels of their own.

**`BlockFeed`**. Both subscribers (Ethereum, Arbitrum): discovery of clients, a goroutine
per client, the monitor that records a number before a send that may drop, the fan-out,
consumers, shutdown. **`ClientManager`**: health checks, the two loops of GetClient with
their shared counter, the semaphore of every method and how each way out of a call
releases it, Close.

**`TokenSystem`** (operators). The rows and index maps of the token registry, its write
methods and its restore constructor. **`TokenAnalyzer`**: the volume records with expiry, the
fee loop that simulates transfers on a fork and stores fees, the initializer of new
tokens, the fork with its reset per block, and the hook main wires into
RegisterPool, which allows a pool's transfers before its tokens are looked up.

**`ChainConfig`**, **`ChainIndex`** (operators): the protocols, factories and forks of the
seven chains; how each chain's client sorts protocols into buckets and joins pools,
tokens and registry. **`ChainClient`** composes them with `V3Forks` and `DiffPatch`: from the
logs of pool contracts to the client's handler. Handling a block is one step there; the
modules above take it apart. The view of a V3 system shows the ticks its indexer has when the
view is made, before or after the indexer handled the block; `drift`, a history variable, has what
the handlers cannot see: V2 reserves changed by a Mint or Burn, ticks emptied by a Burn.
`ResyncTicks` replaces the ticks of all pools; the test of their freshness is in `TickIndexer`.

**`MC*`** modules give the constants their values.

## 3. Runs

| Run | Instance | States | Shows |
|---|---|---|---|
| `stream` | 2 connections, 3 blocks, interval 2, 1 failure | | the client only ever has published, error-free states; `InSync`; `ResyncBound`; healthy states sent are stored; refinement of `StateFeed` |
| `engine` | 1 synced and 1 unaware protocol over 2 blocks; 1 subscriber over 3 | 224,171 | a wait that ended synced is not undone; at most one stale view and one hole per subscriber; refinement of `StateFeed`; queued blocks are published; shutdown is signalled |
| `pool_registry` | 3 keys, 3 protocols (2 fit), 5 IDs, batches of 2 | 126,935 | slices and maps exact, restore faithful, refinement of `PoolDirectory` |
| `token_pools` | 3 tokens, 3 pools (one with three tokens), threshold 3 | 6,353 | slices well formed, garbage bounded, lookup exact, a restored graph goes on as the original, refinement of `TokenPools` |
| `uniswap_v2` | 2 pools, 1 reader, inbox 1, 3 blocks | | system, pool registry and graph agree when the lock is free; a pool in view is registered and linked; a reader misses only pools registered in between |
| `tick_indexer` | 1 pool under 2 IDs, 3 blocks, 1 failure | 110,131 | slices and maps agree, also with an address known twice; a resync in flight never undoes a block's ticks; on a quiet chain the ticks become the contract's; pools added get tracked |
| `uniswap_v3` | 2 pools, 2 IDs, 3 blocks | 297,701 | system, registry and view agree when the lock is free and the indexer never loses a pool; the view only has ticks of the pool's own contract; the indexer's slices and maps agree when another pool fills the gap of a removed one |
| `block_feed` | 2 nodes, 2 consumers (one stuck), channels of 1, 2 blocks, 1 failure | 240,892 | increasing numbers; a slow consumer costs the others nothing; a fetched block is seen; cancelling ends everything |
| `client_manager` | 2 clients with 1 slot, 2 callers, 1 failure | 144,698 | GetClient finds the best client; no slot is lost; health recovers; Close ends the checks |
| `chains` | 7 chains, a pool per protocol, 2 states, up to 3 events | 140,983 | one owner per pool; the server's numbers are the contracts' but for `drift`; each fork reads its contracts exactly; the client shows what was published, in order |
| `token_analyzer` | 3 setups: deletion, drained pool, shutdown | 82,314 | rows and maps of the registry belong together; fees were measured on their token and catch up; a trading pool is registered; cancelling ends every goroutine (or the process: `ForkNilBlock`) |
| `engine_panic` | 1 subscriber, 3 blocks | | violation of `NoPanic`: Subscribe, then unsubscribe before the initial-view goroutine runs, is a send on a closed channel |

Types are a conjunct of the first invariant of each run (of `stream`, they are proved: section 4). The
invariants and properties of a component that belong together are one definition, whose comment lists
what it says. Every property has a mutant of the code's model that breaks it (`PROJECT.json`).

**Bounds.** `Max*` constants and buffers only cut executions short.
- `stream`: three blocks and two connections give a full state, a diff, the full state the
  interval forces, and a state left from the first connection with a hole, an error or a
  failure in the second.
- `engine`: the two setups ask different questions and share no state worth composing: the
  broadcaster sees only views. Three blocks let the initial view race two broadcasts.
- `pool_registry`, `token_pools`: deletion in the middle, at the end and of a moved pool, then
  additions; threshold 3 lets a revived edge be counted twice and compaction meet live edges.
- `uniswap_v2`, `uniswap_v3`: discovery, initialisation overtaken by a block, pruning and
  rediscovery. RPC failures of the indexer are in `tick_indexer`, so `uniswap_v3` has none; there
  `IndexSound` is about two addresses, one of which is moved when the other is removed.
- `tick_indexer`: one address under two IDs, so that a batch can hold it twice and the panic below
  is reached, with a resync across a Mint and a Burn. A log filter may know any
  of the tracked addresses. The range
  has a tick in a word of negative index and one in the next.
- `block_feed`: with channels of one, each is full in some state; height 2 lets a node repeat
  or announce blocks out of order. `client_manager`: one slot makes callers and checks
  compete. `token_analyzer`: one request at a time is the production setting; each setup turns on one source
  of trouble, and together they fire every action.
- `chains`: one block with a log per chain, two where protocols share a schema or a pool copies another's factory,
  three for a single V2 and a single V3 pool, which are found by a Swap and then see a Mint, a Burn or
  another Swap in any order.

Keys, protocols and addresses are only compared, hence the symmetry sets, used only in
runs without liveness.

**Deadlock** is checked where the system can always go on (`pool_registry`, `token_pools`). The
others end with the last block of the bounded chain, or stop at shutdown.

**Fairness.** Go schedules runnable goroutines; every assumption is an instance of that.
- `Stream`: the client's handlers and its consumer. An application that does not read `State()`
  blocks it by design. None of the engine, network or decoder.
- `Engine`: feeder, loop (the timer of the wait included), broadcaster. None of protocols,
  subscribers or upstream.
- `TickIndexer`: listener, initializer and resyncer return to idle and take work that waits
  (their tickers fire). None of the chain; faults are bounded.
- `BlockFeed`: calls return, sends with room happen, cancelled goroutines stop. Nothing makes
  consumers read or nodes answer.
- `ClientManager`: in addition, senders blocked on a channel are served in turn (Go's wait
  queues are FIFO), and a select with two ready cases takes either (it chooses at random).
- `ChainClient`: the client's loop only.
- `TokenAnalyzer`: its goroutines run, the clock advances, blocks arrive, calls to the fork are
  answered and fail finitely often, and a pool that holds tokens keeps trading and is
  offered to RegisterPool again, as the pool initializers do while it is pending.

**Observations.** Behaviour the models contain and the checks met, beyond the finding:
- *Counter before view* (uniswap-v2/system.go:401, uniswap-v3/system.go:425): buildState between the
  two stores publishes the old view without an error, against engine/types.go:51.
- *V2 reserves*: those fetched for a new pool are installed after later blocks (system.go:300), older or newer than
  the counter; a block with only Mint or Burn fails the Swap bloom test (241), so the reserves stay old until the next V2 Swap
  of the chain (`ServerMatchesContracts` shows that this is the only lag of a handled block); a failed
  getReserves keeps the old ones (387).
- *Torn states*: the registry's view is read before the V2 view (engine.go:425, 468); a pool
  registered in between makes the state impossible to index (indexers/uniswapv2/indexable.go:69);
  the chain client skips it.
- *Tick indexer*: if an address is tracked under two IDs and one is removed, the block handler writes
  to a nil map (indexer.go:505); `IndexSound` shows this is the only way, and
  removing a pool that is still pending makes it possible (872). A batch with an address twice leaves the first entry without
  ticks, and an error of its read is attributed to the second (646-681). A tick burned to zero stays
  until the resync, as the provider drops uninitialised ticks.
- *Factories*: the V3 initializer asks the factories of all forks by Uniswap's getPool with the fee; a
  factory without that method leaves all its pools out (`Unanswered`).
- *Fork at shutdown*: the fan-out closes its outputs; a fork that reads the closed channel before
  it sees the cancelled context dereferences a nil block (anvil-forker/fork.go:111) and leaves
  anvil running, against rpc.go:33. `ForkNilBlock` has it. A failed start leaves a process
  while the next block starts another on its port (157-172); calls to anvil have no
  timeout (295); errors of anvil_reset are ignored; the target block underflows when the chain is
  shorter than blocksBehind (113).
- *Restored token registry*: the next ID is one above the highest present, so the IDs of deleted
  highest tokens are given out again (token.go:113).
- *GetClient*: with concurrent callers on the shared counter a call may pass over the best client;
  `GetClientFinds` is about a call nobody interferes with.
- *Small*: `SyncedBlockNumber` can be older than the data it labels (engine.go:448, 468); after a differ error
  the next message is a full state, not a diff against the same base as streamer.go:154 says,
  which is why `InSync` holds; a restored token graph does not count the dangling edges of its
  view (token_pools_registry.go:110); `All` of indexers/uniswapv2/indexable.go:136 copies one pool.

## 4. Proofs

The proofs hold for every set of protocols, schemas, IDs and values, every interval and
every buffer size. Assumptions: `StreamAssumption` and those of `DiffPatch` (constants are
of their kinds, the interval is at least 2 as streamer.go:58 sees to, `NoState` is not a state).

`DiffPatchProofs`
- `PatchDiff`: patching a healthy state with the diff to another healthy state gives
  exactly that state. It rests on one lemma per shape of view (`TablePatchDiff`,
  `RegistryPatchDiff`); the key fact (`UnchangedEntry`) is that a row with equal compared
  fields and the same ID is the same row, which holds because IDs are not reused.

`StreamProofs`
- `TypeCorrect`, `ClientGenuine`: `Spec => []TypeOK`, `Spec => []ClientStateGenuine`.
  `ClientStateGenuine` is not inductive: a diff carries only its base's block number, so
  the client's base must be *the* published state of that block (`PublishedOnce`), and the
  messages on the wire must be published states or diffs between healthy ones, for which
  `prevHadError` must be about `prevState` (`ErrorRemembered`). Their conjunction
  `GenuineInv` is inductive; a diff that applies then yields its target by `PatchDiff`.
- `StreamImplementsFeed`: `Spec => ImplementsStateFeed`, step by step from `GenuineInv`.
- `ResyncBounded`: `Spec => []ResyncBound` through `RunInv`, which counts the stretches of
  diffs taken by the client and still on the wire against `blocksSinceFullState`.

Only model-checked: `InSync` and everything about the other modules; and, out of the
prover's reach, all liveness, `ENABLED` and induction over recursive definitions.

## 5. Not modelled, and the plan

- Swap and tick arithmetic (`uniswap-v2/math`, `uniswap-v3/math`): a library for applications, no
  state; 256-bit products and square-root tables are beyond TLC's 32-bit integers, and a
  scaled-down version would not be the code. V2's formula is a candidate.
- Text and bytes: JSON, ABI bytes (fields and widths are in `V3Forks`), addresses, hashes.
- Splitting calls into multicall batches: a batch's results, gaps and failure are modelled, the
  arithmetic of the chunks is not.
- Metrics, logging, configuration files, HTTP servers, generated bindings, examples, back-off delays
  (any delay is allowed), operating-system processes.
- Code without a production caller: the manager's `RegisterPools` and `DeleteToken`,
  `GetPreferredClient`, extraction rules main does not configure.
- A restart of the server in `Stream`: it has one engine.

Next: proofs of `RegistryConsistent` and the refinement of `PoolDirectory`, of
`FeedConserves`, of `RegistriesAgree`, of `IndexSound`, of the engine's refinement of
`StateFeed`, and of `InSync`; a stream with two server incarnations.
