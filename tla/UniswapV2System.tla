--------------------------- MODULE UniswapV2System ---------------------------
(***************************************************************************)
(* The life of a pool in one Uniswap V2 system (protocols/uniswap-v2) and  *)
(* the shared registries it keeps in step through the RegistryManager      *)
(* (protocols/pool-registry): discovery from logs, initialisation by RPC,  *)
(* registration, reserve updates per block, pruning.  The block listener,  *)
(* the log handlers it spawns, the initializer and the pruner are          *)
(* goroutines that share the system's lock; engine readers load the cached *)
(* views without it.  A critical section whose intermediate states no      *)
(* reader can see is one action; the others hold mu over several.          *)
(***************************************************************************)
EXTENDS Naturals, Sequences, Functions

CONSTANTS
    Pools,          \* pool addresses
    Readers,        \* engine loops that build states
    Buffer,         \* capacity of the block channel
    MaxBlock        \* bound: length of the chain

ASSUME V2Assumption == Buffer \in Nat \ {0} /\ MaxBlock \in Nat

VARIABLES
    chain,          \* the blocks so far
    inbox,          \* newBlockEventer
    poolSystem,     \* PoolSystem: ID -> address
    nextID,
    tokenPools,     \* TokenPoolSystem: IDs that have links
    mu,             \* UniswapV2System.mu
    registry,       \* its registry: ID -> [reserve, lastUpdatedAt]
    cachedView,     \* ID -> reserve
    lastUpdatedAtBlock,
    pendingInit,
    listener, logHandlers, initializer, pruner,     \* goroutines
    snapshot        \* what each reader has read, and the next ID when it began

shared == <<poolSystem, nextID, tokenPools>>
system == <<registry, cachedView, lastUpdatedAtBlock, pendingInit>>
goroutines == <<listener, logHandlers, initializer, pruner>>
vars == <<chain, inbox, shared, mu, system, goroutines, snapshot>>

Blocks == [swapped : SUBSET Pools, touched : SUBSET Pools, bloom : BOOLEAN]

\* Swaps change reserves and so do mints and burns, which emit Sync but no
\* Swap; the bloom filter has no false negatives for Swap.
RealBlocks == {b \in Blocks : b.swapped \subseteq b.touched /\ (b.swapped # {} => b.bloom)}

\* A pool's reserves at block n, named by the last block that changed them.
Reserve(a, n) ==
    LET S == {k \in 1..n : a \in chain[k].touched} \cup {0}
    IN  CHOOSE k \in S : \A j \in S : j <= k

viewRegistry(r) == [i \in DOMAIN r |-> r[i].reserve]

Init ==
    /\ chain = <<>> /\ inbox = <<>>
    /\ poolSystem = <<>> /\ nextID = 1 /\ tokenPools = {}
    /\ mu = "free"
    /\ registry = <<>> /\ cachedView = <<>>
    /\ lastUpdatedAtBlock = 0 /\ pendingInit = {}
    /\ listener = [pc |-> "idle", block |-> 0, ids |-> {}, addrs |-> {}]
    /\ logHandlers = {}
    /\ initializer = [pc |-> "idle", todo |-> {}, data |-> <<>>, added |-> {}]
    /\ pruner = [pc |-> "idle", todo |-> {}]
    /\ snapshot = [r \in Readers |-> [pc |-> "idle", pools |-> {}, view |-> {}, next |-> 1]]

\* A block arrives; the fan-out skips a consumer whose channel is full.
NewBlock(b) ==
    /\ Len(chain) < MaxBlock
    /\ chain' = Append(chain, b)
    /\ inbox' = IF Len(inbox) < Buffer THEN Append(inbox, Len(chain) + 1) ELSE inbox
    /\ UNCHANGED <<shared, mu, system, goroutines, snapshot>>

-----------------------------------------------------------------------------
(* listenBlockEventer, handleNewBlock, handleBlockLogs.                    *)

\* No Swap in the bloom: only the block number moves.
ListenerSkip ==
    /\ listener.pc = "idle" /\ inbox # <<>> /\ ~chain[Head(inbox)].bloom
    /\ inbox' = Tail(inbox)
    /\ lastUpdatedAtBlock' = Head(inbox)
    /\ UNCHANGED <<chain, shared, mu, registry, cachedView, pendingInit, goroutines, snapshot>>

ListenerLoad ==
    /\ listener.pc = "idle" /\ inbox # <<>> /\ chain[Head(inbox)].bloom
    /\ inbox' = Tail(inbox)
    /\ listener' = [listener EXCEPT !.pc = "resolve", !.block = Head(inbox),
                                    !.ids = DOMAIN cachedView]
    /\ UNCHANGED <<chain, shared, mu, system, logHandlers, initializer, pruner, snapshot>>

\* poolIDToAddress, without the lock: a pool unregistered meanwhile is left out.
ListenerResolve ==
    /\ listener.pc = "resolve"
    /\ listener' = [listener EXCEPT !.pc = "apply",
                        !.addrs = {poolSystem[i] : i \in listener.ids \cap DOMAIN poolSystem}]
    /\ UNCHANGED <<chain, inbox, shared, mu, system, logHandlers, initializer, pruner, snapshot>>

\* The pools of addrs the system has, through poolAddressToID and hasPool.
Known(addrs) == {i \in DOMAIN registry \cap DOMAIN poolSystem : poolSystem[i] \in addrs}

\* getReserves answered for block n, except for the failed pools; applyUpdates,
\* the counter and the view under the lock, then the log handler is spawned.
ListenerApply(failed) ==
    /\ listener.pc = "apply" /\ mu = "free" /\ failed \subseteq listener.addrs
    /\ registry' = [i \in DOMAIN registry |->
                      IF i \in Known(listener.addrs \ failed)
                        THEN [registry[i] EXCEPT !.reserve = Reserve(poolSystem[i], listener.block)]
                        ELSE registry[i]]
    /\ lastUpdatedAtBlock' = listener.block
    /\ cachedView' = viewRegistry(registry')
    /\ logHandlers' = logHandlers \cup {listener.block}
    /\ listener' = [listener EXCEPT !.pc = "idle", !.ids = {}, !.addrs = {}]
    /\ UNCHANGED <<chain, inbox, shared, mu, pendingInit, initializer, pruner, snapshot>>

\* No client, or FilterLogs failed: the block's logs are lost.
LogsFail(n) ==
    /\ n \in logHandlers
    /\ logHandlers' = logHandlers \ {n}
    /\ UNCHANGED <<chain, inbox, shared, mu, system, listener, initializer, pruner, snapshot>>

LogsApply(n) ==
    /\ n \in logHandlers /\ mu = "free"
    /\ logHandlers' = logHandlers \ {n}
    /\ registry' = [i \in DOMAIN registry |->
                      IF i \in Known(chain[n].touched)
                        THEN [registry[i] EXCEPT !.lastUpdatedAt = n] ELSE registry[i]]
    /\ pendingInit' = pendingInit \cup (chain[n].swapped \ Range(poolSystem))
    /\ UNCHANGED <<chain, inbox, shared, mu, cachedView, lastUpdatedAtBlock,
                   listener, initializer, pruner, snapshot>>

-----------------------------------------------------------------------------
(* runPendingInitializations and the registrations it makes.               *)

InitDrain ==
    /\ initializer.pc = "idle" /\ mu = "free" /\ pendingInit # {}
    /\ initializer' = [initializer EXCEPT !.pc = "fetch", !.todo = pendingInit]
    /\ pendingInit' = {}
    /\ UNCHANGED <<chain, inbox, shared, mu, registry, cachedView, lastUpdatedAtBlock,
                   listener, logHandlers, pruner, snapshot>>

\* The initializer's calls read the head of the chain, not a given block;
\* pools it fails for are dropped until they swap again.
InitFetch(failed) ==
    /\ initializer.pc = "fetch" /\ failed \subseteq initializer.todo
    /\ LET ok == initializer.todo \ failed
       IN  initializer' = [pc |-> IF ok = {} THEN "idle" ELSE "lock", todo |-> ok, added |-> {},
                           data |-> [a \in ok |-> Reserve(a, Len(chain))]]
    /\ UNCHANGED <<chain, inbox, shared, mu, system, listener, logHandlers, pruner, snapshot>>

InitLock ==
    /\ initializer.pc = "lock" /\ mu = "free"
    /\ mu' = "initializer"
    /\ initializer' = [initializer EXCEPT !.pc = "register"]
    /\ UNCHANGED <<chain, inbox, shared, system, listener, logHandlers, pruner, snapshot>>

\* RegisterPool, up to PoolSystem.AddPool: a token may be unknown; a pool
\* registered already keeps its ID.
RegisterPool(a) ==
    /\ initializer.pc = "register" /\ a \in initializer.todo
    /\ \/ /\ initializer' = [initializer EXCEPT !.todo = @ \ {a}]
          /\ UNCHANGED <<poolSystem, nextID>>
       \/ /\ a \notin Range(poolSystem)
          /\ poolSystem' = [i \in DOMAIN poolSystem \cup {nextID} |->
                              IF i = nextID THEN a ELSE poolSystem[i]]
          /\ nextID' = nextID + 1
          /\ initializer' = [initializer EXCEPT !.pc = "link", !.todo = @ \ {a},
                                                !.added = @ \cup {nextID}]
       \/ /\ a \in Range(poolSystem)
          /\ initializer' = [initializer EXCEPT !.pc = "link", !.todo = @ \ {a},
                                !.added = @ \cup {i \in DOMAIN poolSystem : poolSystem[i] = a}]
          /\ UNCHANGED <<poolSystem, nextID>>
    /\ UNCHANGED <<chain, inbox, tokenPools, mu, system, listener, logHandlers, pruner, snapshot>>

\* RegisterPool, from TokenPoolSystem.AddPool on.
LinkPool ==
    /\ initializer.pc = "link"
    /\ tokenPools' = tokenPools \cup initializer.added
    /\ initializer' = [initializer EXCEPT !.pc = "register"]
    /\ UNCHANGED <<chain, inbox, poolSystem, nextID, mu, system, listener, logHandlers,
                   pruner, snapshot>>

\* addPool (which refuses a pool it has) and updatePool for what was
\* registered; the view is refreshed if any of them was new.
InitAdd ==
    /\ initializer.pc = "register" /\ initializer.todo = {}
    /\ LET new == initializer.added \ DOMAIN registry
       IN  /\ registry' = [i \in DOMAIN registry \cup new |->
                             IF i \in new
                               THEN [reserve |-> initializer.data[poolSystem[i]], lastUpdatedAt |-> 0]
                               ELSE registry[i]]
           /\ cachedView' = IF new # {} THEN viewRegistry(registry') ELSE cachedView
    /\ mu' = "free"
    /\ initializer' = [pc |-> "idle", todo |-> {}, data |-> <<>>, added |-> {}]
    /\ UNCHANGED <<chain, inbox, shared, lastUpdatedAtBlock, pendingInit, listener,
                   logHandlers, pruner, snapshot>>

-----------------------------------------------------------------------------
(* pruneInactivePools, deletePools and RegistryManager.DeletePools.        *)

\* The pools whose last update is before the cutoff of the wall clock.
PruneScan(cutoff) ==
    /\ pruner.pc = "idle" /\ mu = "free"
    /\ LET old == {i \in DOMAIN registry :
                     registry[i].lastUpdatedAt > 0 /\ registry[i].lastUpdatedAt < cutoff}
       IN  old # {} /\ pruner' = [pc |-> "delete", todo |-> old]
    /\ UNCHANGED <<chain, inbox, shared, mu, system, listener, logHandlers, initializer, snapshot>>

\* Mutant: the view is not refreshed before the shared registries are told.
PruneDeleteKeepsView ==
    /\ pruner.pc = "delete" /\ mu = "free"
    /\ mu' = "pruner"
    /\ registry' = [i \in DOMAIN registry \ pruner.todo |-> registry[i]]
    /\ pruner' = [pruner EXCEPT !.pc = "unlink"]
    /\ UNCHANGED <<chain, inbox, shared, cachedView, lastUpdatedAtBlock, pendingInit,
                   listener, logHandlers, initializer, snapshot>>

PruneDelete ==
    /\ pruner.pc = "delete" /\ mu = "free"
    /\ mu' = "pruner"
    /\ registry' = [i \in DOMAIN registry \ pruner.todo |-> registry[i]]
    /\ cachedView' = viewRegistry(registry')
    /\ pruner' = [pruner EXCEPT !.pc = "unlink"]
    /\ UNCHANGED <<chain, inbox, shared, lastUpdatedAtBlock, pendingInit, listener,
                   logHandlers, initializer, snapshot>>

\* Mutant: the links stay.
PruneUnlinkNothing ==
    /\ pruner.pc = "unlink"
    /\ pruner' = [pruner EXCEPT !.pc = "unregister"]
    /\ UNCHANGED <<chain, inbox, shared, mu, system, listener, logHandlers,
                   initializer, snapshot>>

PruneUnlink ==
    /\ pruner.pc = "unlink"
    /\ tokenPools' = tokenPools \ pruner.todo
    /\ pruner' = [pruner EXCEPT !.pc = "unregister"]
    /\ UNCHANGED <<chain, inbox, poolSystem, nextID, mu, system, listener, logHandlers,
                   initializer, snapshot>>

PruneUnregister ==
    /\ pruner.pc = "unregister"
    /\ poolSystem' = [i \in DOMAIN poolSystem \ pruner.todo |-> poolSystem[i]]
    /\ mu' = "free"
    /\ pruner' = [pc |-> "idle", todo |-> {}]
    /\ UNCHANGED <<chain, inbox, nextID, tokenPools, system, listener, logHandlers,
                   initializer, snapshot>>

-----------------------------------------------------------------------------
(* Engine.buildState: block-unaware protocols first, then the others.      *)

ReadRegistry(r) ==
    /\ snapshot[r].pc # "registry read"
    /\ snapshot' = [snapshot EXCEPT ![r] = [pc |-> "registry read", view |-> {},
                                            pools |-> DOMAIN poolSystem, next |-> nextID]]
    /\ UNCHANGED <<chain, inbox, shared, mu, system, goroutines>>

ReadView(r) ==
    /\ snapshot[r].pc = "registry read"
    /\ snapshot' = [snapshot EXCEPT ![r].pc = "built", ![r].view = DOMAIN cachedView]
    /\ UNCHANGED <<chain, inbox, shared, mu, system, goroutines>>

Listener ==
    \/ ListenerSkip \/ ListenerLoad \/ ListenerResolve
    \/ \E failed \in SUBSET Pools : ListenerApply(failed)

LogHandler == \E n \in 1..MaxBlock : LogsFail(n) \/ LogsApply(n)

Initializer ==
    \/ InitDrain \/ InitLock \/ LinkPool \/ InitAdd
    \/ \E failed \in SUBSET Pools : InitFetch(failed)
    \/ \E a \in Pools : RegisterPool(a)

Pruner ==
    \/ PruneDelete \/ PruneUnlink \/ PruneUnregister
    \/ \E cutoff \in 1..Len(chain) : PruneScan(cutoff)

Next ==
    \/ \E b \in RealBlocks : NewBlock(b)
    \/ Listener \/ LogHandler \/ Initializer \/ Pruner
    \/ \E r \in Readers : ReadRegistry(r) \/ ReadView(r)

Spec == Init /\ [][Next]_vars

-----------------------------------------------------------------------------
(* Properties.                                                             *)

IDs == 1..(nextID - 1)

\* Values stay in their sets: IDs are issued ones, no block number is ahead
\* of the chain, and the channel keeps to its capacity.
TypeOK ==
    /\ DOMAIN poolSystem \cup tokenPools \cup DOMAIN registry \cup DOMAIN cachedView \subseteq IDs
    /\ Range(poolSystem) \subseteq Pools
    /\ lastUpdatedAtBlock \in 0..Len(chain) /\ Range(cachedView) \subseteq 0..Len(chain)
    /\ pendingInit \subseteq Pools /\ Len(inbox) <= Buffer
    /\ mu \in {"free", "initializer", "pruner"}

\* Types.  Every pool a reader can find in the system's view is registered and
\* linked at that moment: registration comes before the view, unregistration
\* after.  No address has two IDs, and whenever the lock is free the three
\* registries hold the same pools and the view is current in its pools.
RegistriesAgree ==
    /\ TypeOK
    /\ DOMAIN cachedView \subseteq DOMAIN poolSystem \cap tokenPools
    /\ IsInjective(poolSystem)
    /\ mu = "free" => /\ DOMAIN registry = DOMAIN poolSystem
                      /\ tokenPools = DOMAIN poolSystem
                      /\ cachedView = viewRegistry(registry)

\* A pool of the V2 view that the pool registry view of the same state lacks
\* was registered while the state was being built; a pool unregistered before
\* the state was begun is in neither.
SnapshotLacksOnlyNew ==
    \A r \in Readers : \A i \in snapshot[r].view \ snapshot[r].pools : i >= snapshot[r].next
=============================================================================
