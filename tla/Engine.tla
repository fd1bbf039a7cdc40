-------------------------------- MODULE Engine --------------------------------
(***************************************************************************)
(* engine/engine.go: the three goroutines of the engine (feedBlockQueue,   *)
(* runEventLoop, broadcastViews), the protocols it polls, and Subscribe    *)
(* with its initial-view goroutine.                                        *)
(*                                                                         *)
(* A protocol is what the engine sees of it: LastUpdatedAtBlock, and the   *)
(* block whose changes the view it caches contains.  The Uniswap systems   *)
(* store the first before the second, and the engine takes no lock.        *)
(***************************************************************************)
EXTENDS Naturals, Sequences, FiniteSets

CONSTANTS
    Setups,         \* what is tried: protocols, subscriptions and number of blocks
    QueueSize,      \* BlockQueueSize
    SubBuffer,      \* DefaultSubscriptionChanBuffer
    MaxBlock,       \* bound: highest block number
    NoView          \* the nil *State

ASSUME EngineAssumption ==
    /\ QueueSize \in Nat \ {0}
    /\ SubBuffer \in Nat \ {0}
    /\ MaxBlock \in Nat
    /\ \A s \in Setups : s.synced \cap s.unaware = {} /\ s.blocks \in 0..MaxBlock

VARIABLES
    setup,          \* the member of Setups at hand
    cancelled,      \* ctx is done
    upstream,       \* last block the new-block eventer delivered
    closed,         \* the new-block eventer is closed
    feeder,         \* feedBlockQueue: "select", "send" or "done"
    queue,          \* blockProcessingQueue
    queueClosed,
    loop,           \* runEventLoop: where it is
    block,          \* runEventLoop: the block it processes
    built,          \* buildState: the results so far
    counter,        \* counter[p]: LastUpdatedAtBlock of p
    data,           \* data[p]: the block whose changes p's cached view contains
    view,           \* broadcastViews: the view it holds, or NoView
    shutdown,       \* shutdownSignal is closed
    lastView,
    lastProcessed,
    status,         \* status[s]: "new", "open" or "closed"
    initial,        \* initial[s]: the view captured by the goroutine of Subscribe
    chan,           \* chan[s]: the subscription channel
    sent,           \* ghost: every view handed to the broadcaster
    waited,         \* ghost: why the last wait for the protocols returned
    got,            \* ghost: got[s]: the block numbers put into chan[s], in order
    dropped,        \* ghost: dropped[s]: those a full channel lost
    panicked        \* a goroutine sent on a closed channel: the process is gone

feedVars == <<upstream, closed, feeder, queue, queueClosed>>
loopVars == <<loop, block, built, waited, lastView, lastProcessed>>
protocolVars == <<counter, data>>
broadcastVars == <<view, shutdown, sent>>
subVars == <<status, initial, chan, got, dropped, panicked>>
vars == <<setup, cancelled, feedVars, loopVars, protocolVars, broadcastVars, subVars>>

Synced == setup.synced      \* block-synchronized protocols
Unaware == setup.unaware    \* protocols without LastUpdatedAtBlock
Subs == setup.subs          \* subscriptions that may be made, one call of Subscribe each
Blocks == 1..setup.blocks   \* bound: block numbers

Protocols == Synced \cup Unaware

Init ==
    /\ setup \in Setups
    /\ cancelled = FALSE
    /\ upstream = 0 /\ closed = FALSE /\ feeder = "select"
    /\ queue = <<>> /\ queueClosed = FALSE
    /\ loop = "select" /\ block = 0 /\ built = <<>>
    /\ counter = [p \in Synced |-> 0] /\ data = [p \in Synced |-> 0]
    /\ view = NoView /\ shutdown = FALSE
    /\ lastView = NoView /\ lastProcessed = 0
    /\ status = [s \in Subs |-> "new"]
    /\ initial = [s \in Subs |-> NoView] /\ chan = [s \in Subs |-> <<>>]
    /\ sent = {}
    /\ got = [s \in Subs |-> <<>>] /\ dropped = [s \in Subs |-> {}]
    /\ waited = ""
    /\ panicked = FALSE

-----------------------------------------------------------------------------
(* The environment: the context, the block feed, the protocols.            *)

Cancel ==
    /\ ~cancelled
    /\ cancelled' = TRUE
    /\ UNCHANGED <<feedVars, loopVars, protocolVars, broadcastVars, subVars>>

UpstreamCloses ==
    /\ ~closed
    /\ closed' = TRUE
    /\ UNCHANGED <<cancelled, upstream, feeder, queue, queueClosed, loopVars,
                   protocolVars, broadcastVars, subVars>>

\* A block whose bloom filter does not match: the cached view is already that
\* of this block, one store of the number says so.
QuietBlock(p, n) ==
    /\ data[p] = counter[p] /\ n > counter[p]
    /\ counter' = [counter EXCEPT ![p] = n]
    /\ data' = [data EXCEPT ![p] = n]
    /\ UNCHANGED <<cancelled, feedVars, loopVars, broadcastVars, subVars>>

\* handleNewBlock: lastUpdatedAtBlock is stored first ...
StoreCounter(p, n) ==
    /\ data[p] = counter[p] /\ n > counter[p]
    /\ counter' = [counter EXCEPT ![p] = n]
    /\ UNCHANGED <<cancelled, feedVars, loopVars, data, broadcastVars, subVars>>

\* ... and the cached view after it.
StoreCachedView(p) ==
    /\ data[p] # counter[p]
    /\ data' = [data EXCEPT ![p] = counter[p]]
    /\ UNCHANGED <<cancelled, feedVars, loopVars, counter, broadcastVars, subVars>>

-----------------------------------------------------------------------------
(* feedBlockQueue.                                                         *)

\* Mutant: an older block may follow a newer one.
FeederReceiveAnyOrder(n) ==
    /\ feeder = "select" /\ ~closed /\ n # upstream
    /\ upstream' = n
    /\ feeder' = "send"
    /\ UNCHANGED <<cancelled, closed, queue, queueClosed, loopVars, protocolVars,
                   broadcastVars, subVars>>

\* Blocks reach the engine in increasing order, some are skipped.
FeederReceive(n) ==
    /\ feeder = "select" /\ ~closed /\ n > upstream
    /\ upstream' = n
    /\ feeder' = "send"
    /\ UNCHANGED <<cancelled, closed, queue, queueClosed, loopVars, protocolVars,
                   broadcastVars, subVars>>

\* The send to blockProcessingQueue blocks while the queue is full, ctx or not.
FeederSend ==
    /\ feeder = "send" /\ Len(queue) < QueueSize
    /\ queue' = Append(queue, upstream)
    /\ feeder' = "select"
    /\ UNCHANGED <<cancelled, upstream, closed, queueClosed, loopVars, protocolVars,
                   broadcastVars, subVars>>

FeederStop ==
    /\ feeder = "select" /\ (cancelled \/ closed)
    /\ queueClosed' = TRUE
    /\ feeder' = "done"
    /\ UNCHANGED <<cancelled, upstream, closed, queue, loopVars, protocolVars,
                   broadcastVars, subVars>>

-----------------------------------------------------------------------------
(* runEventLoop.                                                           *)

LoopTake ==
    /\ loop = "select" /\ queue # <<>>
    /\ block' = Head(queue)
    /\ queue' = Tail(queue)
    /\ built' = <<>>
    /\ loop' = "wait"
    /\ UNCHANGED <<cancelled, upstream, closed, feeder, queueClosed, lastView,
                   lastProcessed, waited, protocolVars, broadcastVars, subVars>>

LoopStop ==
    /\ loop = "select"
    /\ cancelled \/ (queueClosed /\ queue = <<>>)
    /\ loop' = "done"
    /\ UNCHANGED <<cancelled, feedVars, block, built, waited, lastView, lastProcessed,
                   protocolVars, broadcastVars, subVars>>

\* Mutant: one block behind counts as synced.
areProtocolsAlmostSynced == \A p \in Synced : counter[p] + 1 >= block

areProtocolsSynced == \A p \in Synced : counter[p] >= block

\* Mutant: the wait has no timer.
WaitReturnsUntimed(why) ==
    /\ loop = "wait"
    /\ CASE why = "synced" -> areProtocolsSynced
         [] why = "timeout" -> FALSE
         [] why = "cancelled" -> cancelled
    /\ loop' = "build"
    /\ waited' = why
    /\ UNCHANGED <<cancelled, feedVars, block, built, lastView, lastProcessed,
                   protocolVars, broadcastVars, subVars>>

\* waitForBlockSynchronizedProtocols returns: the protocols are synced, the
\* timer fired (at any time), or ctx is done.
WaitReturns(why) ==
    /\ loop = "wait"
    /\ CASE why = "synced" -> areProtocolsSynced
         [] why = "timeout" -> TRUE
         [] why = "cancelled" -> cancelled
    /\ loop' = "build"
    /\ waited' = why
    /\ UNCHANGED <<cancelled, feedVars, block, built, lastView, lastProcessed,
                   protocolVars, broadcastVars, subVars>>

Result(err, synced, content) == [error |-> err, synced |-> synced, data |-> content]

Put(f, p, r) == [q \in DOMAIN f \cup {p} |-> IF q = p THEN r ELSE f[q]]

Reading(p) == p \in DOMAIN built /\ built[p].error = "reading"

\* After the block-unaware protocols, buildState visits the others one by one:
\* it reads LastUpdatedAtBlock, and gives one that is behind an error and no
\* data ...
ReadSynced(p) ==
    /\ loop = "build" /\ p \notin DOMAIN built
    /\ Unaware \subseteq DOMAIN built /\ ~\E q \in Synced : Reading(q)
    /\ built' = Put(built, p, IF counter[p] < block
                                THEN Result("out of sync", counter[p], 0)
                                ELSE Result("reading", counter[p], 0))
    /\ UNCHANGED <<cancelled, feedVars, loop, block, waited, lastView, lastProcessed,
                   protocolVars, broadcastVars, subVars>>

\* ... or goes on to read its view.
ReadView(p) ==
    /\ loop = "build" /\ Reading(p)
    /\ built' = Put(built, p, Result("", built[p].synced, data[p]))
    /\ UNCHANGED <<cancelled, feedVars, loop, block, waited, lastView, lastProcessed,
                   protocolVars, broadcastVars, subVars>>

\* View returns an error, or an empty schema.
ViewFails(p) ==
    /\ loop = "build"
    /\ Reading(p) \/ (p \in Unaware /\ p \notin DOMAIN built)
    /\ built' = Put(built, p,
                    Result("view error", IF p \in Synced THEN built[p].synced ELSE 0, 0))
    /\ UNCHANGED <<cancelled, feedVars, loop, block, waited, lastView, lastProcessed,
                   protocolVars, broadcastVars, subVars>>

\* A block-unaware protocol: whatever its view holds now.
ReadUnaware(p) ==
    /\ loop = "build" /\ p \notin DOMAIN built
    /\ built' = Put(built, p, Result("", 0, 0))
    /\ UNCHANGED <<cancelled, feedVars, loop, block, waited, lastView, lastProcessed,
                   protocolVars, broadcastVars, subVars>>

BuiltView == [block |-> block, protocols |-> built]

\* viewEventer is unbuffered: the send completes when the broadcaster, in its
\* select, receives the view.
LoopSend ==
    /\ loop = "build" /\ DOMAIN built = Protocols /\ ~\E p \in Synced : Reading(p)
    /\ view = NoView /\ ~shutdown
    /\ view' = BuiltView
    /\ sent' = sent \cup {BuiltView}
    /\ loop' = "store"
    /\ UNCHANGED <<cancelled, feedVars, block, built, waited, lastView, lastProcessed,
                   protocolVars, shutdown, subVars>>

\* Mutant: the cache is filled once and never refreshed.
LoopStoreViewOnce ==
    /\ loop = "store"
    /\ lastView' = IF lastView = NoView THEN BuiltView ELSE lastView
    /\ loop' = "count"
    /\ UNCHANGED <<cancelled, feedVars, block, built, waited, lastProcessed, protocolVars,
                   broadcastVars, subVars>>

LoopStoreView ==
    /\ loop = "store"
    /\ lastView' = BuiltView
    /\ loop' = "count"
    /\ UNCHANGED <<cancelled, feedVars, block, built, waited, lastProcessed, protocolVars,
                   broadcastVars, subVars>>

LoopStoreProcessed ==
    /\ loop = "count"
    /\ lastProcessed' = block
    /\ loop' = "select"
    /\ UNCHANGED <<cancelled, feedVars, block, built, waited, lastView, protocolVars,
                   broadcastVars, subVars>>

-----------------------------------------------------------------------------
(* broadcastViews and the subscribers.                                     *)

\* A non-blocking send of f[s] to each subscriber s of S.
Offer(S, f) ==
    LET room == {s \in S : Len(chan[s]) < SubBuffer}
    IN  /\ chan' = [s \in Subs |-> IF s \in room THEN Append(chan[s], f[s]) ELSE chan[s]]
        /\ got' = [s \in Subs |-> IF s \in room THEN Append(got[s], f[s].block) ELSE got[s]]
        /\ dropped' = [s \in Subs |-> dropped[s] \cup
                          IF s \in S \ room THEN {f[s].block} ELSE {}]

\* Mutant: the send to a subscriber blocks.
BroadcastBlocking ==
    /\ view # NoView
    /\ \A s \in Subs : status[s] = "open" => Len(chan[s]) < SubBuffer
    /\ Offer({s \in Subs : status[s] = "open"}, [s \in Subs |-> view])
    /\ view' = NoView
    /\ UNCHANGED <<cancelled, feedVars, loopVars, protocolVars, shutdown, sent, status,
                   initial, panicked>>

\* Under subscribersMu: a non-blocking send to every subscriber.
Broadcast ==
    /\ view # NoView
    /\ Offer({s \in Subs : status[s] = "open"}, [s \in Subs |-> view])
    /\ view' = NoView
    /\ UNCHANGED <<cancelled, feedVars, loopVars, protocolVars, shutdown, sent, status,
                   initial, panicked>>

BroadcasterStop ==
    /\ view = NoView /\ ~shutdown
    /\ cancelled \/ loop = "done"
    /\ shutdown' = TRUE
    /\ UNCHANGED <<cancelled, feedVars, loopVars, protocolVars, view, sent, subVars>>

Subscribe(s) ==
    /\ status[s] = "new"
    /\ status' = [status EXCEPT ![s] = "open"]
    /\ initial' = [initial EXCEPT ![s] = lastView]
    /\ UNCHANGED <<cancelled, feedVars, loopVars, protocolVars, broadcastVars, chan,
                   got, dropped, panicked>>

Unsubscribe(s) ==
    /\ status[s] = "open"
    /\ status' = [status EXCEPT ![s] = "closed"]
    /\ UNCHANGED <<cancelled, feedVars, loopVars, protocolVars, broadcastVars, initial,
                   chan, got, dropped, panicked>>

\* The goroutine of Subscribe: a non-blocking send, given up on shutdown.
\* When both are ready the select takes either; a send on a channel that
\* unsubscribe has closed panics.
InitialSend(s) ==
    /\ initial[s] # NoView
    /\ initial' = [initial EXCEPT ![s] = NoView]
    /\ IF status[s] = "closed"
          THEN panicked' = TRUE /\ UNCHANGED <<chan, got, dropped>>
          ELSE Offer({s}, initial) /\ UNCHANGED panicked
    /\ UNCHANGED <<cancelled, feedVars, loopVars, protocolVars, broadcastVars, status>>

InitialAbort(s) ==
    /\ initial[s] # NoView /\ shutdown
    /\ initial' = [initial EXCEPT ![s] = NoView]
    /\ UNCHANGED <<cancelled, feedVars, loopVars, protocolVars, broadcastVars, status,
                   chan, got, dropped, panicked>>

\* The consumer receives from C().
Receive(s) ==
    /\ chan[s] # <<>>
    /\ chan' = [chan EXCEPT ![s] = Tail(@)]
    /\ UNCHANGED <<cancelled, feedVars, loopVars, protocolVars, broadcastVars, status,
                   initial, got, dropped, panicked>>

-----------------------------------------------------------------------------
Environment ==
    \/ Cancel \/ UpstreamCloses
    \/ \E p \in Synced, n \in Blocks : QuietBlock(p, n) \/ StoreCounter(p, n)
    \/ \E p \in Synced : StoreCachedView(p)

Feeder == (\E n \in Blocks : FeederReceive(n)) \/ FeederSend \/ FeederStop

Build ==
    \/ \E p \in Unaware : ReadUnaware(p)
    \/ \E p \in Synced : ReadSynced(p) \/ ReadView(p)
    \/ \E p \in Protocols : ViewFails(p)

Loop ==
    \/ LoopTake \/ LoopStop
    \/ \E why \in {"synced", "timeout", "cancelled"} : WaitReturns(why)
    \/ Build \/ LoopSend \/ LoopStoreView \/ LoopStoreProcessed

Broadcaster == Broadcast \/ BroadcasterStop

Subscriber(s) ==
    \/ Subscribe(s) \/ Unsubscribe(s) \/ Receive(s)
    \/ InitialSend(s) \/ InitialAbort(s)

Next ==
    /\ ~panicked /\ UNCHANGED setup
    /\ Environment \/ Feeder \/ Loop \/ Broadcaster \/ \E s \in Subs : Subscriber(s)

Spec == Init /\ [][Next]_vars

\* The engine's goroutines keep running and the timer of the wait fires.
Fairness ==
    /\ WF_vars(~panicked /\ UNCHANGED setup /\ (FeederSend \/ FeederStop))
    /\ WF_vars(~panicked /\ UNCHANGED setup /\ Loop)
    /\ WF_vars(~panicked /\ UNCHANGED setup /\ Broadcaster)

LiveSpec == Spec /\ Fairness

-----------------------------------------------------------------------------
(* Properties.                                                             *)

Results == [error : {"", "reading", "out of sync", "view error"},
            synced : 0..MaxBlock, data : 0..MaxBlock]

ViewsOf(s) == [block : 1..s.blocks, protocols : [s.synced \cup s.unaware -> Results]]

Views == UNION {ViewsOf(s) : s \in Setups}

\* Every variable holds a value the engine's goroutines can store.
TypeOK ==
    /\ setup \in Setups
    /\ {cancelled, closed, queueClosed, shutdown, panicked} \subseteq BOOLEAN
    /\ upstream \in 0..MaxBlock /\ feeder \in {"select", "send", "done"}
    /\ queue \in Seq(Blocks) /\ Len(queue) <= QueueSize
    /\ loop \in {"select", "wait", "build", "store", "count", "done"}
    /\ block \in 0..MaxBlock
    /\ DOMAIN built \subseteq Protocols /\ \A p \in DOMAIN built : built[p] \in Results
    /\ waited \in {"", "synced", "timeout", "cancelled"}
    /\ counter \in [Synced -> 0..MaxBlock] /\ data \in [Synced -> 0..MaxBlock]
    /\ view \in ViewsOf(setup) \cup {NoView} /\ lastView \in ViewsOf(setup) \cup {NoView}
    /\ sent \subseteq ViewsOf(setup)
    /\ lastProcessed \in 0..MaxBlock
    /\ status \in [Subs -> {"new", "open", "closed"}]
    /\ \A s \in Subs :
          /\ initial[s] \in ViewsOf(setup) \cup {NoView}
          /\ chan[s] \in Seq(ViewsOf(setup)) /\ Len(chan[s]) <= SubBuffer
          /\ got[s] \in Seq(Blocks) /\ dropped[s] \subseteq Blocks

\* Types; and a wait that ended because the protocols are synced is not undone
\* by what buildState reads later: no protocol is then reported out of sync.
SyncedWaitHolds ==
    /\ TypeOK
    /\ waited = "synced" /\ loop \in {"build", "store", "count"}
         => \A p \in DOMAIN built : built[p].error # "out of sync"

Broadcasted == {v.block : v \in sent \ {view}}

\* What joining may cost a subscriber.  The race of the initial-view goroutine
\* with the broadcaster shows it at most one view that is not newer than one it
\* already has; and as lastView is stored after the view is broadcast, it may
\* miss a view its initial view does not make up for, at most one, if its
\* channel never overflows.
JoiningCostsOne ==
    \A s \in Subs :
        LET G == {got[s][i] : i \in DOMAIN got[s]}
        IN  /\ Cardinality({i \in DOMAIN got[s] : \E j \in 1..i-1 : got[s][j] >= got[s][i]}) <= 1
            /\ (status[s] = "open" /\ initial[s] = NoView /\ dropped[s] = {})
                 => Cardinality({b \in Broadcasted : (\E g \in G : g < b) /\ b \notin G}) <= 1

Never(v) == FALSE

Feed == INSTANCE StateFeed
    WITH StateSet <- Views, Errored <- Never, Nil <- NoView,
         feed <- sent, current <- lastView

\* The goroutines and channels implement the feed the streams rely on: one
\* view per block, in increasing block order, and a cache that holds one of
\* them.
ImplementsStateFeed == Feed!Spec

\* Cancelling the context reaches every subscriber: shutdownSignal is closed,
\* whatever the event loop is blocked on.
ShutdownSignalled == cancelled ~> (shutdown \/ panicked)

\* A queued block is published, a protocol that never syncs only delays it,
\* unless the engine is stopped.
QueuedIsPublished ==
    \A n \in 1..MaxBlock :
        (\E i \in DOMAIN queue : queue[i] = n)
            ~> ((\E v \in sent : v.block = n) \/ cancelled \/ panicked)

\* "Engine functions as a reliable eventing pipeline": no legal sequence of
\* Subscribe and unsubscribe brings it down.
NoPanic == ~panicked
=============================================================================
