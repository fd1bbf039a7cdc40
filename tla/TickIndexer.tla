----------------------------- MODULE TickIndexer -----------------------------
(***************************************************************************)
(* The tick indexer of a Uniswap V3 system (protocols/uniswap-v3/ticks).   *)
(* Three goroutines share its tables under one lock: the block listener,   *)
(* which re-reads the ticks a block's Mint and Burn logs name and those in *)
(* a window around the price; the initializer, which reads the ticks of    *)
(* pools added since; the resyncer, which re-reads everything.  Their RPC  *)
(* calls run without the lock.  A call pinned to a block reads the chain's *)
(* history; the others read the head of the chain at some moment between   *)
(* the critical section before the call and the one after it, and are      *)
(* evaluated in the latter over all such moments.                          *)
(***************************************************************************)
EXTENDS V3Contracts, SequencesExt

CONSTANTS
    Pools,          \* pool contracts
    Spacing,        \* tick spacing of the pools
    Ranges,         \* tick ranges <<lower, upper>> in which there are positions
    StartLiquidity, \* liquidity of each pool's ranges in the first block
    CurrentTick,    \* tick of the price
    MaxLiquidity,   \* bound: liquidity of a range
    MaxBlock,       \* bound: length of the chain
    MaxFaults,      \* bound: RPC failures
    MaxID           \* bound: pool IDs

VARIABLES
    chain,          \* the blocks: the positions after each, and its logs
    faults,         \* RPC failures so far
    slots,          \* id, address, ticks, lastUpdates: parallel slices
    idToIndex, addressToIndex,
    pendingInit,    \* ID -> address
    clashed,        \* history: addresses added while known under another ID
    nextID,         \* the next ID the pool registry will issue
    lastUpdatedAtBlock,
    delivered,      \* number of the last block taken from the channel
    listener, initializer, resyncer

tables == <<slots, idToIndex, addressToIndex, pendingInit>>
tickVars == <<chain, faults, tables, clashed, nextID, lastUpdatedAtBlock, delivered, listener, initializer, resyncer>>

Idle == [pc |-> "idle"]

-----------------------------------------------------------------------------
(* The chain.                                                              *)

head == Len(chain)

\* The gross liquidity of each initialised tick: of the positions it bounds.
GrossLiquidity(pos) ==
    LET gross(t) == MapThenSumSet(LAMBDA r : pos[r], {r \in Ranges : t \in {r[1], r[2]}})
        bounds == UNION {{r[1], r[2]} : r \in Ranges}
    IN  [t \in {u \in bounds : gross(u) > 0} |-> gross(t)]

Block(pos, logs) ==
    [positions |-> pos, logs |-> logs,
     pools |-> [a \in Pools |-> [ticks |-> GrossLiquidity(pos[a])]]]

\* The contract of pool a as of block h.
Contract(a, h) == chain[h].pools[a]

\* A block with one liquidity event.
ChangeLiquidity(a, r, event) ==
    /\ head < MaxBlock
    /\ LET pos == chain[head].positions
           l   == IF event = "Mint" THEN pos[a][r] + 1 ELSE pos[a][r] - 1
       IN  /\ l \in 0..MaxLiquidity
           /\ chain' = Append(chain, Block([pos EXCEPT ![a][r] = l],
                                           {[pool |-> a, event |-> event, lower |-> r[1], upper |-> r[2]]}))
    /\ UNCHANGED <<faults, tables, clashed, lastUpdatedAtBlock, delivered, listener, initializer, resyncer>>

\* A block without any; its logs are none, or a swap.
OtherBlock(logs) ==
    /\ head < MaxBlock
    /\ chain' = Append(chain, Block(chain[head].positions, logs))
    /\ UNCHANGED <<faults, tables, clashed, lastUpdatedAtBlock, delivered, listener, initializer, resyncer>>

\* A call succeeds, reports an error, or returns less than it was asked for.
Outcomes == {"ok", "error", "empty"}
Faulty(outcomes) == IF \A a \in DOMAIN outcomes : outcomes[a] = "ok" THEN 0 ELSE 1
Lost(outcome, all) == IF outcome = "empty" THEN all ELSE {}

-----------------------------------------------------------------------------
(* listenBlockEventer and handleNewBlock.                                  *)

testBloom(b) == \E l \in chain[b].logs : l.event \in {"Mint", "Burn"}

\* A block of the channel; those the fan-out dropped are skipped.
Deliver(b) == listener.pc = "idle" /\ b \in delivered + 1 .. head /\ delivered' = b

ListenerSkip(b) ==
    /\ Deliver(b) /\ ~testBloom(b)
    /\ lastUpdatedAtBlock' = b
    /\ UNCHANGED <<chain, clashed, faults, tables, listener, initializer, resyncer>>

\* No client, or FilterLogs failed: the block is lost.
ListenerFail(b) ==
    /\ Deliver(b) /\ testBloom(b) /\ faults < MaxFaults
    /\ faults' = faults + 1
    /\ UNCHANGED <<chain, clashed, tables, lastUpdatedAtBlock, listener, initializer, resyncer>>

tracked == {slots[i].addr : i \in DOMAIN slots}

Window(i) == SelectTicksForFreshnessWindow(CurrentTick, Spacing, DOMAIN slots[i].ticks)

\* The ticks to fetch, for the pools tracked when the block is handled: the
\* window of those whose current tick the system knows, and the ticks logged.
TicksToFetch(known, logs) ==
    [a \in tracked |->
        (IF a \notin known THEN {}
         ELSE UNION {Window(i) : i \in {j \in DOMAIN slots : slots[j].addr = a}})
        \cup (IF a \notin DOMAIN addressToIndex \cap DOMAIN PoolsUpdatedInBlock(logs) THEN {}
              ELSE PoolsUpdatedInBlock(logs)[a])]

\* A pool has a window but its address is not in the map, which has the sets the
\* window's ticks are put into: the program panics.
NilSet(known) ==
    \E i \in DOMAIN slots : slots[i].addr \in known \ DOMAIN addressToIndex /\ Window(i) # {}

\* getLogsWithRetry: a node that has not indexed the block's logs yet answers
\* with none, and after the last attempt that counts as an answer.  known are the
\* tracked pools whose current tick the system could name when asked: any here,
\* in UniswapV3System those its view shows.
ListenerHandle(b, known, indexed) ==
    /\ Deliver(b) /\ testBloom(b)
    /\ indexed \/ faults < MaxFaults
    /\ faults' = IF indexed THEN faults ELSE faults + 1
    /\ listener' = IF NilSet(known) THEN [pc |-> "panic"]
                   ELSE [pc |-> "apply", block |-> b,
                         fetch |-> TicksToFetch(known, IF indexed THEN chain[b].logs ELSE {})]
    /\ UNCHANGED <<chain, clashed, tables, lastUpdatedAtBlock, initializer, resyncer>>

\* Update, insert, or, with no liquidity left, remove the ticks fetched.
applyTickUpdates(old, new) ==
    [t \in {u \in DOMAIN old \cup DOMAIN new : u \in DOMAIN new => new[u] > 0} |->
        IF t \in DOMAIN new THEN new[t] ELSE old[t]]

\* getTicks at the block; a pool it fails for keeps its ticks.
ListenerApply ==
  /\ listener.pc = "apply"
  /\ \E outcomes \in [DOMAIN listener.fetch -> Outcomes] :
    /\ faults + Faulty(outcomes) <= MaxFaults
    /\ faults' = faults + Faulty(outcomes)
    /\ LET b == listener.block
           new(a) == IF outcomes[a] = "error" THEN <<>>
                     ELSE NewTickInfoProvider(Contract(a, b), listener.fetch[a],
                                              Lost(outcomes[a], listener.fetch[a]))
           hit(i) == /\ slots[i].addr \in DOMAIN listener.fetch \cap DOMAIN addressToIndex
                     /\ addressToIndex[slots[i].addr] = i
                     /\ DOMAIN new(slots[i].addr) # {}
       IN  /\ slots' = [i \in DOMAIN slots |->
                          IF ~hit(i) THEN slots[i]
                          ELSE [slots[i] EXCEPT !.ticks = applyTickUpdates(@, new(slots[i].addr)),
                                                !.last = b]]
           /\ lastUpdatedAtBlock' = b
  /\ listener' = Idle
  /\ UNCHANGED <<chain, clashed, idToIndex, addressToIndex, pendingInit, delivered, initializer, resyncer>>

-----------------------------------------------------------------------------
(* startInitializer, initializePools, resyncPools: getTickBitmap and then   *)
(* getInitializedTicks, each at the head.                                   *)

\* The tick tables one pool's two calls can return when made from block h on.
Reads(a, h) ==
    {GetInitializedTicks(Contract(a, p[2]), NewBitMapProvider(Contract(a, p[1]), Spacing, {}),
                         Spacing, {}) : p \in {q \in (h..head) \X (h..head) : q[1] <= q[2]}}

\* The tables a batch of pools can get: addr is the pools' addresses.
Tables(addr, h) ==
    {f \in [DOMAIN addr -> UNION {Reads(addr[k], h) : k \in DOMAIN addr}] :
        \A k \in DOMAIN addr : f[k] \in Reads(addr[k], h)}

Fetched(outcome, table) == IF outcome = "empty" THEN <<>> ELSE table

InitializerBatch ==
    /\ initializer.pc = "idle" /\ pendingInit # <<>>
    /\ initializer' = [pc |-> "apply", batch |-> pendingInit, head |-> head]
    /\ UNCHANGED <<chain, clashed, faults, tables, lastUpdatedAtBlock, delivered, listener, resyncer>>

NewSlots(order, table) ==
    [k \in DOMAIN order |-> [id |-> order[k], addr |-> initializer.batch[order[k]],
                             ticks |-> table[order[k]], last |-> 0]]

\* New entries at the end of the slices, in the order of the batch; for an
\* address in two of them the later one is the address's index.
appendPools(order, table) ==
    LET n   == Len(slots)
        new == NewSlots(order, table)
    IN  /\ slots' = slots \o new
        /\ idToIndex' = [i \in DOMAIN idToIndex \cup Range(order) |->
                           IF i \in Range(order) THEN n + Inverse(order, DOMAIN order, Range(order))[i]
                           ELSE idToIndex[i]]
        /\ addressToIndex' =
             [a \in DOMAIN addressToIndex \cup {new[k].addr : k \in DOMAIN new} |->
                LET at == {k \in DOMAIN new : new[k].addr = a}
                IN  IF at # {} THEN n + Max(at) ELSE addressToIndex[a]]

\* addressToOriginalIndex: what the second call returns for an address, ticks or
\* an error, goes to the last of its entries in the batch whose bitmap was read.
addressToOriginalIndex(order, outcomes, a) ==
    order[Max({k \in DOMAIN order : initializer.batch[order[k]] = a /\ outcomes[order[k]] # "noBitmap"})]

\* An earlier entry of the address has neither: it counts as read, without ticks.
Placed(order, outcomes, table) ==
    [id \in {i \in DOMAIN outcomes : outcomes[i] # "noBitmap"} |->
        IF addressToOriginalIndex(order, outcomes, initializer.batch[id]) # id
          THEN [err |-> FALSE, ticks |-> <<>>]
          ELSE [err |-> outcomes[id] = "error", ticks |-> Fetched(outcomes[id], table[id])]]

\* The pools that were read are added, unless they are there already; the
\* others stay pending.  The batch is in the order of a map's iteration; either
\* call may fail for an entry ("noBitmap", "error").
InitializerApply ==
  /\ initializer.pc = "apply"
  /\ \E outcomes \in [DOMAIN initializer.batch -> Outcomes \cup {"noBitmap"}] :
    /\ faults + Faulty(outcomes) <= MaxFaults
    /\ faults' = faults + Faulty(outcomes)
    /\ \E order \in SetToSeqs(DOMAIN initializer.batch),
          table \in Tables(initializer.batch, initializer.head) :
         LET placed == Placed(order, outcomes, table)
             ok == {id \in DOMAIN placed : ~placed[id].err}
         IN  /\ appendPools(SelectSeq(order, LAMBDA id : id \in ok \ DOMAIN idToIndex),
                            [id \in ok |-> placed[id].ticks])
             /\ initializer' = IF ok = {} THEN Idle ELSE [pc |-> "done", ids |-> ok]
  /\ UNCHANGED <<chain, clashed, pendingInit, lastUpdatedAtBlock, delivered, listener, resyncer>>

\* Mutant: the whole queue is cleared, not just what was added.
InitializerDoneClears ==
    /\ initializer.pc = "done"
    /\ pendingInit' = <<>>
    /\ initializer' = Idle
    /\ UNCHANGED <<chain, clashed, faults, slots, idToIndex, addressToIndex, lastUpdatedAtBlock, delivered,
                   listener, resyncer>>

InitializerDone ==
    /\ initializer.pc = "done"
    /\ pendingInit' = Restrict(pendingInit, DOMAIN pendingInit \ initializer.ids)
    /\ initializer' = Idle
    /\ UNCHANGED <<chain, clashed, faults, slots, idToIndex, addressToIndex, lastUpdatedAtBlock, delivered,
                   listener, resyncer>>

ResyncSnapshot ==
    /\ resyncer.pc = "idle" /\ slots # <<>>
    /\ resyncer' = [pc |-> "apply", slots |-> slots, head |-> head]
    /\ UNCHANGED <<chain, clashed, faults, tables, lastUpdatedAtBlock, delivered, listener, initializer>>

\* Mutant: the safety check is dropped.
resyncWritesAll(outcomes, table, i, j) ==
    /\ resyncer.slots[i].addr \in DOMAIN addressToIndex
    /\ addressToIndex[resyncer.slots[i].addr] = j
    /\ outcomes[i] # "error"
    /\ Fetched(outcomes[i], table[i]) # resyncer.slots[i].ticks

\* Entry i of the snapshot replaces the ticks of the pool now at j: the pool
\* is tracked, was read, had no block applied since, and had drifted.
resyncWrites(outcomes, table, i, j) ==
    /\ resyncer.slots[i].addr \in DOMAIN addressToIndex
    /\ addressToIndex[resyncer.slots[i].addr] = j
    /\ outcomes[i] # "error"
    /\ resyncer.slots[i].last = slots[j].last
    /\ Fetched(outcomes[i], table[i]) # resyncer.slots[i].ticks

ResyncApply ==
  /\ resyncer.pc = "apply"
  /\ \E outcomes \in [DOMAIN resyncer.slots -> Outcomes] :
    /\ faults + Faulty(outcomes) <= MaxFaults
    /\ faults' = faults + Faulty(outcomes)
    /\ \E table \in Tables([i \in DOMAIN resyncer.slots |-> resyncer.slots[i].addr], resyncer.head) :
          slots' = [j \in DOMAIN slots |->
                      LET by == {i \in DOMAIN outcomes : resyncWrites(outcomes, table, i, j)}
                      IN  IF by = {} THEN slots[j]
                          ELSE [slots[j] EXCEPT !.ticks = Fetched(outcomes[Max(by)], table[Max(by)])]]
  /\ resyncer' = Idle
  /\ UNCHANGED <<chain, clashed, idToIndex, addressToIndex, pendingInit, lastUpdatedAtBlock, delivered,
                   listener, initializer>>

-----------------------------------------------------------------------------
(* Add, Remove and Get, called by the system.                              *)

\* Refused for a tracked pool.
AddPool(id, a) ==
    /\ pendingInit' = IF id \in DOMAIN idToIndex THEN pendingInit
                      ELSE [i \in DOMAIN pendingInit \cup {id} |->
                              IF i = id THEN a ELSE pendingInit[i]]
    /\ clashed' = clashed \cup ({a} \cap ({pendingInit[i] : i \in DOMAIN pendingInit \ {id}} \cup
                                           {slots[i].addr : i \in {k \in DOMAIN slots : slots[k].id # id}}))

\* Mutant: the address of the pool removed stays in the map.
RemovePoolKeepsAddress(id) ==
    LET k == idToIndex[id]
        n == Len(slots)
    IN  IF id \notin DOMAIN idToIndex
          THEN UNCHANGED <<slots, idToIndex, addressToIndex>>
          ELSE /\ slots' = SubSeq([slots EXCEPT ![k] = slots[n]], 1, n - 1)
               /\ idToIndex' = [i \in DOMAIN idToIndex \ {id} |->
                                  IF i = slots[n].id THEN k ELSE idToIndex[i]]
               /\ addressToIndex' = [addressToIndex EXCEPT ![slots[n].addr] = k]

\* Mutant: the address of the entry that fills the gap keeps its old index.
RemovePoolKeepsIndex(id) ==
    LET k == idToIndex[id]
        n == Len(slots)
    IN  IF id \notin DOMAIN idToIndex
          THEN UNCHANGED <<slots, idToIndex, addressToIndex>>
          ELSE /\ slots' = SubSeq([slots EXCEPT ![k] = slots[n]], 1, n - 1)
               /\ idToIndex' = [i \in DOMAIN idToIndex \ {id} |->
                                  IF i = slots[n].id THEN k ELSE idToIndex[i]]
               /\ addressToIndex' = Restrict(addressToIndex, DOMAIN addressToIndex \ {slots[k].addr})

\* Mutant: the ticks of the last entry are not moved with the rest of it.
RemovePoolKeepsTicks(id) ==
    LET k == idToIndex[id]
        n == Len(slots)
    IN  IF id \notin DOMAIN idToIndex
          THEN UNCHANGED <<slots, idToIndex, addressToIndex>>
          ELSE /\ slots' = SubSeq([slots EXCEPT ![k] = [slots[n] EXCEPT !.ticks = slots[k].ticks]], 1, n - 1)
               /\ idToIndex' = [i \in DOMAIN idToIndex \ {id} |->
                                  IF i = slots[n].id THEN k ELSE idToIndex[i]]
               /\ addressToIndex' =
                    [a \in (DOMAIN addressToIndex \cup {slots[n].addr}) \ {slots[k].addr} |->
                        IF a = slots[n].addr THEN k ELSE addressToIndex[a]]

\* Refused unless the pool is tracked: a pending one stays pending.  The last
\* entry of the slices fills the gap.
RemovePool(id) ==
    LET k == idToIndex[id]
        n == Len(slots)
    IN  IF id \notin DOMAIN idToIndex
          THEN UNCHANGED <<slots, idToIndex, addressToIndex>>
          ELSE /\ slots' = SubSeq([slots EXCEPT ![k] = slots[n]], 1, n - 1)
               /\ idToIndex' = [i \in DOMAIN idToIndex \ {id} |->
                                  IF i = slots[n].id THEN k ELSE idToIndex[i]]
               /\ addressToIndex' =
                    [a \in (DOMAIN addressToIndex \cup {slots[n].addr}) \ {slots[k].addr} |->
                        IF a = slots[n].addr THEN k ELSE addressToIndex[a]]

GetTicks(id) == IF id \in DOMAIN idToIndex THEN slots[idToIndex[id]].ticks ELSE <<>>

-----------------------------------------------------------------------------
TickInit ==
    /\ chain = <<Block([a \in Pools |-> [r \in Ranges |-> StartLiquidity[a]]], {})>>
    /\ faults = 0
    /\ slots = <<>> /\ idToIndex = <<>> /\ addressToIndex = <<>> /\ pendingInit = <<>> /\ clashed = {}
    /\ nextID = 1 /\ lastUpdatedAtBlock = 0 /\ delivered = 1
    /\ listener = Idle /\ initializer = Idle /\ resyncer = Idle

NewBlock ==
    \/ OtherBlock({})
    \/ \E a \in Pools, r \in Ranges, e \in {"Mint", "Burn"} : ChangeLiquidity(a, r, e)

Listen(known) ==
    \/ \E b \in delivered + 1 .. head :
          ListenerSkip(b) \/ ListenerFail(b) \/ \E i \in BOOLEAN : ListenerHandle(b, known, i)
    \/ ListenerApply

Initialize == InitializerBatch \/ InitializerApply \/ InitializerDone

Resync == ResyncSnapshot \/ ResyncApply

\* The system, seen from the indexer: it adds and removes any pool at any
\* time; IDs are issued once, and an address may come back under a new one.
SystemAdd(a) ==
    /\ nextID <= MaxID
    /\ AddPool(nextID, a) /\ nextID' = nextID + 1
    /\ UNCHANGED <<chain, faults, slots, idToIndex, addressToIndex, lastUpdatedAtBlock, delivered,
                   listener, initializer, resyncer>>

SystemRemove(id) ==
    /\ id \in DOMAIN idToIndex
    /\ RemovePool(id)
    /\ UNCHANGED <<chain, clashed, faults, pendingInit, nextID, lastUpdatedAtBlock, delivered,
                   listener, initializer, resyncer>>

\* A panic ends the program.
TickNext ==
    /\ listener.pc # "panic"
    /\ \/ NewBlock /\ UNCHANGED nextID
       \/ (\E known \in SUBSET tracked : Listen(known)) /\ UNCHANGED nextID
       \/ (Initialize \/ Resync) /\ UNCHANGED nextID
       \/ \E a \in Pools : SystemAdd(a)
       \/ \E id \in 1..MaxID : SystemRemove(id)

\* The goroutines keep running, as long as the program does; the chain, the system and the node's faults
\* owe nothing.  This is weak fairness of the steps of each goroutine, with
\* the condition under which a step is enabled, and which the step ends,
\* written out.
TickFairness ==
    /\ []<>(listener.pc = "idle") /\ []<>~(listener.pc = "idle" /\ delivered < head)
    /\ []<>(initializer.pc = "idle") /\ []<>~(initializer.pc = "idle" /\ pendingInit # <<>>)
    /\ []<>(resyncer.pc = "idle") /\ []<>~(resyncer.pc = "idle" /\ slots # <<>>)

TickSpec == TickInit /\ [][TickNext]_tickVars /\ TickFairness

-----------------------------------------------------------------------------
(* Properties.                                                             *)

\* The values of every table are in their sets.
TickTypeOK ==
    /\ \A i \in DOMAIN slots : slots[i].addr \in Pools /\ slots[i].id \in 1..MaxID
                               /\ slots[i].last \in 0..head
    /\ Range(pendingInit) \subseteq Pools /\ DOMAIN pendingInit \subseteq 1..nextID - 1
    /\ lastUpdatedAtBlock \in 0..delivered /\ delivered \in 1..head /\ faults \in 0..MaxFaults

\* Types.  The two maps and the slices agree after any mix of initialisations and
\* swap-and-pop removals, whichever address fills the gap and also when an address
\* is tracked under two IDs: an ID's index holds that ID, an address's index that
\* address.  The block handler
\* writes to a set that is not there only after an address was added while the
\* indexer knew it under another ID: removing one of the two takes the address
\* out of the map and leaves the other's entry.
IndexSound ==
    /\ TickTypeOK
    /\ DOMAIN idToIndex = {slots[i].id : i \in DOMAIN slots}
    /\ \A id \in DOMAIN idToIndex : idToIndex[id] \in DOMAIN slots /\ slots[idToIndex[id]].id = id
    /\ \A a \in DOMAIN addressToIndex :
          addressToIndex[a] \in DOMAIN slots /\ slots[addressToIndex[a]].addr = a
    /\ listener.pc = "panic" => clashed # {}

\* A block's ticks survive what races with its handling: as long as no call
\* failed and the address was never known under two IDs at once, the ticks
\* that block L's logs name and that are still initialised in L are, in a table
\* whose last update is L, as in L or in a later block, whatever resync was in
\* flight.
LastUpdateHolds ==
    faults = 0 => \A i \in DOMAIN slots :
        LET L == slots[i].last
            a == slots[i].addr
        IN  L > 0 /\ a \notin clashed => \A l \in {k \in chain[L].logs : k.pool = a} :
                \A t \in {l.lower, l.upper} \cap DOMAIN Contract(a, L).ticks :
                    \E h \in L..head : \/ t \notin DOMAIN Contract(a, h).ticks \cup DOMAIN slots[i].ticks
                                       \/ /\ t \in DOMAIN Contract(a, h).ticks \cap DOMAIN slots[i].ticks
                                          /\ slots[i].ticks[t] = Contract(a, h).ticks[t]

\* "Eventually consistent globally": whatever calls failed, logs were missed
\* and reads were torn, once the chain is quiet the ticks of every pool the
\* address map leads to become those of its contract and stay so.
EventuallyConsistent ==
    <>[](\A a \in DOMAIN addressToIndex : slots[addressToIndex[a]].ticks = Contract(a, head).ticks)

\* A pool added is initialised in the end: it leaves the queue only by being
\* tracked.
PendingIsTracked ==
    \A id \in 1..MaxID :
        id \in DOMAIN pendingInit /\ ~(initializer.pc = "done" /\ id \in initializer.ids)
            ~> id \in DOMAIN idToIndex
=============================================================================
