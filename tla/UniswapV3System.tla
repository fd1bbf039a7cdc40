--------------------------- MODULE UniswapV3System ---------------------------
(***************************************************************************)
(* One Uniswap V3 system (protocols/uniswap-v3) on top of its tick indexer  *)
(* (internal/protocols/uniswapv3 wires the two).  The system discovers,    *)
(* initialises and registers pools, refreshes their slot0 data per block   *)
(* and prunes the inactive ones; it adds pools to and removes them from    *)
(* the indexer, and copies the indexer's ticks into its view.  System and  *)
(* indexer get the same blocks on channels of their own and do not wait    *)
(* for each other; the system holds its lock mu across calls to the        *)
(* indexer, whose lock each call takes and releases.                       *)
(***************************************************************************)
EXTENDS TickIndexer

VARIABLES
    poolSystem,     \* PoolSystem: ID -> address
    mu,             \* UniswapV3System.mu
    registry,       \* ID -> [info, lastUpdatedAt]
    cachedView,     \* ID -> [info, ticks]
    counter,        \* lastUpdatedAtBlock of the system
    pendingPools,   \* pendingInit of the system
    taken,          \* number of the last block taken from the system's channel
    handler,        \* listenBlockEventer, handleNewBlock
    logHandlers,    \* blocks whose logs a goroutine has yet to handle
    poolInit, pruner

state == <<registry, cachedView, counter, pendingPools>>
system == <<poolSystem, mu, state, taken, handler, logHandlers, poolInit, pruner>>
indexer == <<faults, tables, clashed, nextID, lastUpdatedAtBlock, delivered, listener, initializer, resyncer>>
v3Vars == <<tickVars, system>>

-----------------------------------------------------------------------------
(* The chain, as the system reads it.                                      *)

\* A pool's slot0, liquidity and fee at block h: named by the last block with
\* an event of the pool.
Info(a, h) == Max({k \in 1..h : \E l \in chain[k].logs : l.pool = a} \cup {0})

TestBloom(b) == \E l \in chain[b].logs : l.event \in {"Swap", "Mint", "Burn"}
DiscoverPools(logs) == {l.pool : l \in {k \in logs : k.event = "Swap"}}
UpdatedPools(logs) == {l.pool : l \in {k \in logs : k.event \in {"Swap", "Mint", "Burn"}}}

\* The view of registry r, with the indexer's ticks of now: none for a pool
\* the indexer does not track.  (The code asks for one pool after the other; the
\* properties do not compare the ticks of two pools.)
viewOf(r) == [i \in DOMAIN r |-> [info |-> r[i].info, ticks |-> GetTicks(i)]]

PoolAddressToID(a) == {i \in DOMAIN poolSystem : poolSystem[i] = a}

\* The pools of addrs the system has.
Known(addrs) == DOMAIN registry \cap UNION {PoolAddressToID(a) : a \in addrs}

\* getCurrentTick answers for the pools of the system's view.
KnownTicks == {a \in Pools : PoolAddressToID(a) \cap DOMAIN cachedView # {}}

-----------------------------------------------------------------------------
(* listenBlockEventer and handleNewBlock.                                  *)

Take(b) == handler.pc = "idle" /\ b \in taken + 1 .. head /\ taken' = b

\* No event of the protocol in the bloom: only the block number moves.
HandlerSkip(b) ==
    /\ Take(b) /\ ~TestBloom(b)
    /\ counter' = b
    /\ UNCHANGED <<chain, indexer, poolSystem, mu, registry, cachedView, pendingPools, handler,
                   logHandlers, poolInit, pruner>>

\* The addresses of the pools of the view, resolved without the lock.
HandlerLoad(b) ==
    /\ Take(b) /\ TestBloom(b)
    /\ handler' = [pc |-> "apply", block |-> b,
                   addrs |-> {poolSystem[i] : i \in DOMAIN cachedView \cap DOMAIN poolSystem}]
    /\ UNCHANGED <<chain, indexer, poolSystem, mu, state, logHandlers, poolInit, pruner>>

updatePools(addrs, b) ==
    [i \in DOMAIN registry |->
        IF i \in Known(addrs) THEN [registry[i] EXCEPT !.info = Info(poolSystem[i], b)]
        ELSE registry[i]]

\* getPoolInfo answered for the block, except for the failed pools.
HandlerApply(failed) ==
    /\ handler.pc = "apply" /\ mu = "free" /\ failed \subseteq handler.addrs
    /\ registry' = updatePools(handler.addrs \ failed, handler.block)
    /\ counter' = handler.block
    /\ cachedView' = viewOf(registry')
    /\ logHandlers' = logHandlers \cup {handler.block}
    /\ handler' = Idle
    /\ UNCHANGED <<chain, faults, tables, clashed, nextID, lastUpdatedAtBlock, delivered, listener, initializer,
                   resyncer, poolSystem, mu, pendingPools, taken, poolInit, pruner>>

-----------------------------------------------------------------------------
(* handleBlockLogs, one goroutine per block.                               *)

\* No client, FilterLogs failed, or the node had no logs of the block yet.
LogsFail(b) ==
    /\ b \in logHandlers
    /\ logHandlers' = logHandlers \ {b}
    /\ UNCHANGED <<chain, indexer, poolSystem, mu, state, taken, handler, poolInit, pruner>>

LogsApply(b) ==
    /\ b \in logHandlers /\ mu = "free"
    /\ logHandlers' = logHandlers \ {b}
    /\ registry' = [i \in DOMAIN registry |->
                      IF i \in Known(UpdatedPools(chain[b].logs))
                        THEN [registry[i] EXCEPT !.lastUpdatedAt = b] ELSE registry[i]]
    /\ pendingPools' = pendingPools \cup (DiscoverPools(chain[b].logs) \ Range(poolSystem))
    /\ UNCHANGED <<chain, indexer, poolSystem, mu, cachedView, counter, taken, handler, poolInit,
                   pruner>>

-----------------------------------------------------------------------------
(* runPendingInitializations and applyInitializations.                     *)

InitDrain ==
    /\ poolInit.pc = "idle" /\ mu = "free" /\ pendingPools # {}
    /\ poolInit' = [pc |-> "register", pools |-> pendingPools, head |-> head]
    /\ pendingPools' = {}
    /\ UNCHANGED <<chain, indexer, poolSystem, mu, registry, cachedView, counter, taken, handler,
                   logHandlers, pruner>>

\* The calls of the initializer read the head of the chain; a pool it fails
\* for is dropped until it swaps again.  registerPools, under the lock: a pool
\* registered already keeps its ID, a new one gets the next.
InitRegister(failed, h) ==
    /\ poolInit.pc = "register" /\ mu = "free"
    /\ failed \subseteq poolInit.pools /\ h \in poolInit.head..head
    /\ \E order \in SetToSeqs(poolInit.pools \ (failed \cup Range(poolSystem))) :
          LET new == [k \in nextID .. nextID + Len(order) - 1 |-> order[k - nextID + 1]]
          IN  /\ nextID' = nextID + Len(order) /\ nextID' <= MaxID + 1
              /\ poolSystem' = [i \in DOMAIN poolSystem \cup DOMAIN new |->
                                  IF i \in DOMAIN new THEN new[i] ELSE poolSystem[i]]
    /\ mu' = "poolInit"
    /\ poolInit' = [pc |-> "add", head |-> h, added |-> {},
                    todo |-> {i \in DOMAIN poolSystem' : poolSystem'[i] \in poolInit.pools \ failed}]
    /\ UNCHANGED <<chain, faults, tables, clashed, lastUpdatedAtBlock, delivered, listener, initializer,
                   resyncer, state, taken, handler, logHandlers, pruner>>

\* tickIndexer.Add, which refuses a tracked pool, then addPool, which refuses
\* one it has, and updatePool.
InitAdd(id) ==
    /\ poolInit.pc = "add" /\ id \in poolInit.todo
    /\ AddPool(id, poolSystem[id])
    /\ registry' = IF id \in DOMAIN registry \cup DOMAIN idToIndex THEN registry
                   ELSE [i \in DOMAIN registry \cup {id} |->
                           IF i = id THEN [info |-> Info(poolSystem[id], poolInit.head), lastUpdatedAt |-> 0]
                           ELSE registry[i]]
    /\ poolInit' = [poolInit EXCEPT !.todo = @ \ {id},
                                    !.added = @ \cup ({id} \ (DOMAIN registry \cup DOMAIN idToIndex))]
    /\ UNCHANGED <<chain, faults, slots, idToIndex, addressToIndex, nextID, lastUpdatedAtBlock,
                   delivered, listener, initializer, resyncer, poolSystem, mu, cachedView, counter,
                   pendingPools, taken, handler, logHandlers, pruner>>

\* The view is refreshed if any pool was added.
InitDone ==
    /\ poolInit.pc = "add" /\ poolInit.todo = {}
    /\ cachedView' = IF poolInit.added = {} THEN cachedView ELSE viewOf(registry)
    /\ mu' = "free" /\ poolInit' = Idle
    /\ UNCHANGED <<chain, indexer, poolSystem, registry, counter, pendingPools, taken, handler,
                   logHandlers, pruner>>

-----------------------------------------------------------------------------
(* pruneInactivePools and deletePools.                                     *)

\* The pools whose last update is before the cutoff of the wall clock.
PruneScan(cutoff) ==
    /\ pruner.pc = "idle" /\ mu = "free"
    /\ LET old == {i \in DOMAIN registry :
                     registry[i].lastUpdatedAt > 0 /\ registry[i].lastUpdatedAt < cutoff}
       IN  old # {} /\ pruner' = [pc |-> "lock", todo |-> old, deleted |-> {}]
    /\ UNCHANGED <<chain, indexer, poolSystem, mu, state, taken, handler, logHandlers, poolInit>>

PruneLock ==
    /\ pruner.pc = "lock" /\ mu = "free"
    /\ mu' = "pruner" /\ pruner' = [pruner EXCEPT !.pc = "delete"]
    /\ UNCHANGED <<chain, indexer, poolSystem, state, taken, handler, logHandlers, poolInit>>

\* deletePool and tickIndexer.Remove; the indexer refuses a pool it has yet to
\* initialise, and the deletion goes on.
PruneDelete(id) ==
    /\ pruner.pc = "delete" /\ id \in pruner.todo
    /\ registry' = Restrict(registry, DOMAIN registry \ {id})
    /\ RemovePool(id)
    /\ pruner' = [pruner EXCEPT !.todo = @ \ {id}, !.deleted = @ \cup {id}]
    /\ UNCHANGED <<chain, faults, pendingInit, clashed, nextID, lastUpdatedAtBlock, delivered,
                   listener, initializer, resyncer, poolSystem, mu, cachedView, counter,
                   pendingPools, taken, handler, logHandlers, poolInit>>

\* Mutant: the view keeps the pools that were deleted.
PruneViewKept ==
    /\ pruner.pc = "delete" /\ pruner.todo = {}
    /\ pruner' = [pruner EXCEPT !.pc = "unregister"]
    /\ UNCHANGED <<chain, indexer, poolSystem, mu, state, taken, handler, logHandlers, poolInit>>

PruneView ==
    /\ pruner.pc = "delete" /\ pruner.todo = {}
    /\ cachedView' = viewOf(registry)
    /\ pruner' = [pruner EXCEPT !.pc = "unregister"]
    /\ UNCHANGED <<chain, indexer, poolSystem, mu, registry, counter, pendingPools, taken, handler,
                   logHandlers, poolInit>>

\* onDeletePools: RegistryManager.DeletePools.
PruneUnregister ==
    /\ pruner.pc = "unregister"
    /\ poolSystem' = Restrict(poolSystem, DOMAIN poolSystem \ pruner.deleted)
    /\ mu' = "free" /\ pruner' = Idle
    /\ UNCHANGED <<chain, indexer, state, taken, handler, logHandlers, poolInit>>

-----------------------------------------------------------------------------
V3Init ==
    /\ TickInit
    /\ poolSystem = <<>> /\ mu = "free"
    /\ registry = <<>> /\ cachedView = <<>> /\ counter = 0 /\ pendingPools = {}
    /\ taken = 1 /\ logHandlers = {}
    /\ handler = Idle /\ poolInit = Idle /\ pruner = Idle

V3Chain ==
    /\ NewBlock \/ \E S \in SUBSET Pools \ {{}} : OtherBlock({[pool |-> a, event |-> "Swap"] : a \in S})
    /\ UNCHANGED <<nextID, system>>

\* The listener asks for the current tick of the pools it tracks.
V3Indexer == (Listen(KnownTicks \cap tracked) \/ Initialize \/ Resync) /\ UNCHANGED <<nextID, system>>

Handler ==
    \/ \E b \in taken + 1 .. head : HandlerSkip(b) \/ HandlerLoad(b)
    \/ \E failed \in SUBSET Pools : HandlerApply(failed)

LogHandler == \E b \in logHandlers : LogsFail(b) \/ LogsApply(b)

PoolInitializer ==
    \/ InitDrain \/ InitDone
    \/ \E failed \in SUBSET Pools, h \in 1..head : InitRegister(failed, h)
    \/ \E id \in 1..MaxID : InitAdd(id)

Pruner ==
    \/ PruneLock \/ PruneView \/ PruneUnregister
    \/ \E cutoff \in 1..head : PruneScan(cutoff)
    \/ \E id \in 1..MaxID : PruneDelete(id)

V3Next ==
    /\ listener.pc # "panic"
    /\ V3Chain \/ V3Indexer \/ Handler \/ LogHandler \/ PoolInitializer \/ Pruner

V3Spec == V3Init /\ [][V3Next]_v3Vars

-----------------------------------------------------------------------------
(* Properties.                                                             *)

\* IDs are issued ones, and no block number is ahead of the chain.
V3TypeOK ==
    /\ DOMAIN poolSystem \cup DOMAIN registry \cup DOMAIN cachedView \subseteq 1..nextID - 1
    /\ Range(poolSystem) \cup pendingPools \subseteq Pools
    /\ counter \in 0..taken /\ taken \in 1..head /\ logHandlers \subseteq 1..taken
    /\ mu \in {"free", "poolInit", "pruner"} /\ nextID \in 1..MaxID + 1

\* Types; and whenever the lock is free, the pool registry and the system hold
\* the same pools, each address has one ID, the view shows exactly these pools
\* with the data of the registry, and the indexer has lost none of them: each is
\* tracked, or waiting to be, whatever the order of discovery, initialisation and
\* pruning.
SystemAgrees ==
    /\ V3TypeOK
    /\ IsInjective(poolSystem)
    /\ mu = "free" => /\ DOMAIN registry = DOMAIN poolSystem
                      /\ DOMAIN cachedView = DOMAIN registry
                      /\ \A i \in DOMAIN cachedView : cachedView[i].info = registry[i].info
                      /\ DOMAIN registry \subseteq DOMAIN idToIndex \cup DOMAIN pendingInit

\* The ticks the view shows for a pool are ones its own contract had, each
\* with a liquidity it had, whatever moved in the indexer's slices.
ViewTicksReal ==
    \A i \in DOMAIN cachedView \cap DOMAIN poolSystem : \A t \in DOMAIN cachedView[i].ticks :
        \E h \in 1..head : LET ticks == Contract(poolSystem[i], h).ticks
                           IN  t \in DOMAIN ticks /\ ticks[t] = cachedView[i].ticks[t]
=============================================================================
