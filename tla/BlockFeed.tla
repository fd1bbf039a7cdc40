------------------------------ MODULE BlockFeed ------------------------------
(***************************************************************************)
(* block: the way of a block from the nodes to its consumers.  One         *)
(* goroutine per client subscribes to new heads and sends the blocks to    *)
(* the subscriber's monitor, which passes on those with a number higher    *)
(* than any before, and the fan-out copies them to one channel per         *)
(* consumer.  Both drop what a full channel has no room for.  The clients  *)
(* that discoverAndSubscribe finds are those module ClientManager's        *)
(* GetClient returns, by then healthy and at the latest block or not.      *)
(*                                                                         *)
(* A block is its number; kind says which of the two subscribers runs.     *)
(***************************************************************************)
EXTENDS Integers, Sequences, SequencesExt

CONSTANTS
    Clients,
    Consumers,          \* cfg.Outputs, in this order
    Stuck,              \* the consumers that have stopped reading
    NewBlockBuffer,     \* the capacity of newBlockC
    EventerBuffer,      \* DefaultNewBlockEventerBuffer, of the channels after it
    MaxHeight,          \* bound: blocks of the chain
    MaxFaults           \* bound: calls, subscriptions and branches that fail

ASSUME FeedAssumptions == NewBlockBuffer \in Nat \ {0} /\ EventerBuffer \in Nat \ {0}

VARIABLES
    kind,           \* "ethereum" or "arbitrum"
    height, faults, \* the head of each node; failures so far
    clientSet,      \* BlockSubscriber.clientSet
    sub,            \* the subscribeNewBlocks goroutine of each client
    newBlockC,      \* the channel of the blocks fetched
    latestBlock,    \* BlockSubscriber.latestBlock
    monitor,        \* monitorNewBlocks runs
    eventer,        \* newBlockReceiverC, the fan-out's Input
    fan,            \* the fan-out goroutine: the block in hand and what is left to do
    outputs,        \* the consumers' channels
    received,       \* the blocks each consumer has read
    nilRead,        \* a consumer has read nil
    accepted, dropped, \* history: the blocks passed on, and those lost on the way to each consumer
    done            \* the context is cancelled

subscriber == <<clientSet, sub, newBlockC, latestBlock, monitor>>
fanout == <<fan, outputs>>
history == <<received, nilRead, accepted, dropped>>
feedVars == <<kind, height, faults, subscriber, eventer, fanout, history, done>>

NoSub == [pc |-> "none"]

-----------------------------------------------------------------------------
(* subscribeNewBlocks.                                                     *)

\* discoverAndSubscribe: a goroutine for every client found and not known.
discoverAndSubscribe(found) ==
    /\ ~done
    /\ found \ clientSet # {}
    /\ clientSet' = clientSet \cup found
    /\ sub' = [c \in Clients |-> IF c \in found \ clientSet THEN [pc |-> "subscribe"] ELSE sub[c]]
    /\ UNCHANGED <<kind, height, faults, newBlockC, latestBlock, monitor, eventer, fanout, history, done>>

\* The goroutine of c goes on with state s.
Goto(c, s) ==
    /\ sub' = [sub EXCEPT ![c] = s]
    /\ UNCHANGED <<kind, height, clientSet, latestBlock, monitor, eventer, fanout, history, done>>

\* It returns, and its deferred call takes the client out of the set.
Exit(c) ==
    /\ sub' = [sub EXCEPT ![c] = NoSub]
    /\ clientSet' = clientSet \ {c}
    /\ UNCHANGED <<kind, height, newBlockC, latestBlock, monitor, eventer, fanout, history, done>>

Fault == faults < MaxFaults /\ faults' = faults + 1

Subscribed(c) ==
    /\ sub[c].pc = "subscribe"
    /\ Goto(c, [pc |-> "wait", next |-> height[c] + 1])
    /\ UNCHANGED <<faults, newBlockC>>

\* The subscription is refused, or breaks later.
SubscriptionFails(c) == sub[c].pc \in {"subscribe", "wait"} /\ Fault /\ Exit(c)

\* The next header; next says what to do with it.
Header(c, next) ==
    /\ sub[c].pc = "wait" /\ sub[c].next <= height[c]
    /\ Goto(c, [pc |-> next, next |-> sub[c].next + 1])
    /\ UNCHANGED <<faults, newBlockC>>

BlockByNumber(c) ==
    /\ sub[c].pc = "fetch"
    /\ Goto(c, [sub[c] EXCEPT !.pc = "send"])
    /\ UNCHANGED <<faults, newBlockC>>

\* Mutant: the client is forgotten when a block cannot be fetched.
BlockByNumberFailsForgets(c) ==
    /\ sub[c].pc = "fetch" /\ Fault
    /\ sub' = [sub EXCEPT ![c].pc = "wait"]
    /\ clientSet' = clientSet \ {c}
    /\ UNCHANGED <<kind, height, newBlockC, latestBlock, monitor, eventer, fanout, history, done>>

\* The block is lost as far as this client goes.
BlockByNumberFails(c) ==
    /\ sub[c].pc = "fetch" /\ Fault
    /\ Goto(c, [sub[c] EXCEPT !.pc = "wait"])
    /\ UNCHANGED newBlockC

Send(c) ==
    /\ sub[c].pc = "send" /\ Len(newBlockC) < NewBlockBuffer
    /\ newBlockC' = Append(newBlockC, sub[c].next - 1)
    /\ Goto(c, [sub[c] EXCEPT !.pc = "wait"])
    /\ UNCHANGED faults

\* Mutant: the send does not watch the context.
SubscriptionStopNotSending(c) ==
    /\ sub[c].pc \notin {"none", "send"} /\ done
    /\ Exit(c)
    /\ UNCHANGED faults

SubscriptionStop(c) ==
    /\ sub[c].pc # "none" /\ done
    /\ Exit(c)
    /\ UNCHANGED faults

-----------------------------------------------------------------------------
(* processNewBlock.                                                        *)

\* Block b is handed to the fan-out, or dropped when its channel is full; at
\* shutdown the select may take the context's case instead.
PassOn(b, stopping) ==
    /\ latestBlock' = b
    /\ accepted' = accepted \cup {b}
    /\ IF Len(eventer) < EventerBuffer /\ ~stopping
         THEN eventer' = Append(eventer, b) /\ UNCHANGED dropped
         ELSE UNCHANGED eventer /\ dropped' = [o \in Range(Consumers) |-> dropped[o] \cup {b}]

\* Mutant: a block that is not new ends the loop.
processNewBlockReturns(stopping) ==
    /\ monitor = "run" /\ newBlockC # <<>> /\ (stopping => done)
    /\ newBlockC' = Tail(newBlockC)
    /\ IF Head(newBlockC) > latestBlock THEN PassOn(Head(newBlockC), stopping) /\ UNCHANGED monitor
       ELSE monitor' = "stopped" /\ UNCHANGED <<latestBlock, accepted, eventer, dropped>>
    /\ UNCHANGED <<kind, height, faults, clientSet, sub, fanout, received, nilRead, done>>

processNewBlock(stopping) ==
    /\ monitor = "run" /\ newBlockC # <<>> /\ (stopping => done)
    /\ newBlockC' = Tail(newBlockC)
    /\ IF Head(newBlockC) > latestBlock THEN PassOn(Head(newBlockC), stopping)
       ELSE UNCHANGED <<latestBlock, accepted, eventer, dropped>>
    /\ UNCHANGED <<kind, height, faults, clientSet, sub, monitor, fanout, received, nilRead, done>>

monitorStop ==
    /\ monitor = "run" /\ done
    /\ monitor' = "stopped"
    /\ UNCHANGED <<kind, height, faults, clientSet, sub, newBlockC, latestBlock, eventer, fanout, history, done>>

-----------------------------------------------------------------------------
(* FanOutBlock.                                                            *)

FanTake ==
    /\ fan.pc = "idle" /\ eventer # <<>>
    /\ eventer' = Tail(eventer)
    /\ fan' = [pc |-> "send", block |-> Head(eventer), left |-> Consumers]
    /\ UNCHANGED <<kind, height, faults, subscriber, outputs, history, done>>

\* Mutant: the loop is left at the first full output.
FanSendBreaks ==
    /\ fan.pc = "send"
    /\ LET o    == Head(fan.left)
           full == Len(outputs[o]) >= EventerBuffer
       IN  /\ outputs' = IF full THEN outputs ELSE [outputs EXCEPT ![o] = Append(@, fan.block)]
           /\ dropped' = IF full THEN [dropped EXCEPT ![o] = @ \cup {fan.block}] ELSE dropped
           /\ fan' = IF full \/ Len(fan.left) = 1 THEN [pc |-> "idle"] ELSE [fan EXCEPT !.left = Tail(@)]
    /\ UNCHANGED <<kind, height, faults, subscriber, eventer, received, nilRead, accepted, done>>

\* The next output, unless it is full.
FanSend ==
    /\ fan.pc = "send"
    /\ LET o    == Head(fan.left)
           full == Len(outputs[o]) >= EventerBuffer
       IN  /\ outputs' = IF full THEN outputs ELSE [outputs EXCEPT ![o] = Append(@, fan.block)]
           /\ dropped' = IF full THEN [dropped EXCEPT ![o] = @ \cup {fan.block}] ELSE dropped
           /\ fan' = IF Len(fan.left) = 1 THEN [pc |-> "idle"] ELSE [fan EXCEPT !.left = Tail(@)]
    /\ UNCHANGED <<kind, height, faults, subscriber, eventer, received, nilRead, accepted, done>>

\* The goroutine returns, in the middle of a block or not, and its deferred
\* call closes the outputs.
FanStop ==
    /\ fan.pc # "closed" /\ done
    /\ fan' = [pc |-> "closed"]
    /\ UNCHANGED <<kind, height, faults, subscriber, eventer, outputs, history, done>>

-----------------------------------------------------------------------------
(* The consumers' loops, the nodes, and the program's context.             *)

Consume(o) ==
    /\ outputs[o] # <<>>
    /\ outputs' = [outputs EXCEPT ![o] = Tail(@)]
    /\ received' = [received EXCEPT ![o] = Append(@, Head(outputs[o]))]
    /\ UNCHANGED <<kind, height, faults, subscriber, eventer, fan, nilRead, accepted, dropped, done>>

\* A receive from a channel that is closed and empty yields nil; the Uniswap
\* systems do not test for it.
ConsumeNil(o) ==
    /\ outputs[o] = <<>> /\ fan.pc = "closed" /\ ~nilRead
    /\ nilRead' = TRUE
    /\ UNCHANGED <<kind, height, faults, subscriber, eventer, fanout, received, accepted, dropped, done>>

NodeBlock(c) ==
    /\ ~done /\ height[c] < MaxHeight
    /\ height' = [height EXCEPT ![c] = @ + 1]
    /\ UNCHANGED <<kind, faults, subscriber, eventer, fanout, history, done>>

\* The node changes to another branch and announces its blocks from n on.
Reorg(c, n) ==
    /\ sub[c].pc = "wait" /\ n < sub[c].next
    /\ Fault
    /\ sub' = [sub EXCEPT ![c].next = n]
    /\ UNCHANGED <<kind, height, clientSet, newBlockC, latestBlock, monitor, eventer, fanout, history, done>>

Cancel ==
    /\ ~done /\ done' = TRUE
    /\ UNCHANGED <<kind, height, faults, subscriber, eventer, fanout, history>>

-----------------------------------------------------------------------------
(* MakeBlockSubscriberGenerator's start.                                   *)

FeedInit ==
    /\ kind \in {"ethereum", "arbitrum"}
    /\ height = [c \in Clients |-> 0] /\ faults = 0
    /\ clientSet = {} /\ sub = [c \in Clients |-> NoSub]
    /\ newBlockC = <<>> /\ latestBlock = 0 /\ monitor = "run"
    /\ eventer = <<>> /\ fan = [pc |-> "idle"]
    /\ outputs = [o \in Range(Consumers) |-> <<>>]
    /\ received = [o \in Range(Consumers) |-> <<>>] /\ nilRead = FALSE
    /\ accepted = {} /\ dropped = [o \in Range(Consumers) |-> {}]
    /\ done = FALSE

subscribeNewBlocks(c) ==
    Subscribed(c) \/ SubscriptionFails(c) \/ SubscriptionStop(c) \/ Send(c)

\* The block of a header is asked for.
ethereumSubscriber(c) ==
    /\ kind = "ethereum"
    /\ subscribeNewBlocks(c) \/ Header(c, "fetch") \/ BlockByNumber(c) \/ BlockByNumberFails(c)

\* It is made of the header alone.
arbitrumSubscriber(c) ==
    /\ kind = "arbitrum"
    /\ subscribeNewBlocks(c) \/ Header(c, "send")

monitorNewBlocks == (\E stopping \in BOOLEAN : processNewBlock(stopping)) \/ monitorStop

FanOutBlock == FanTake \/ FanSend \/ FanStop

FeedNext ==
    \/ \E found \in SUBSET Clients : discoverAndSubscribe(found)
    \/ \E c \in Clients : ethereumSubscriber(c) \/ arbitrumSubscriber(c) \/ NodeBlock(c)
    \/ \E c \in Clients, n \in 1..MaxHeight : Reorg(c, n)
    \/ monitorNewBlocks \/ FanOutBlock
    \/ \E o \in Range(Consumers) \ Stuck : Consume(o) \/ ConsumeNil(o)
    \/ Cancel

\* Goroutines run and calls return.  Nothing makes the consumers read, or the
\* nodes answer.
FeedFairness ==
    /\ \A c \in Clients : /\ []<>(sub[c].pc \notin {"subscribe", "fetch"})
                          /\ []<>~(sub[c].pc = "send" /\ Len(newBlockC) < NewBlockBuffer)
                          /\ WF_feedVars(SubscriptionStop(c))
    /\ []<>~(monitor = "run" /\ newBlockC # <<>>)
    /\ WF_feedVars(monitorStop) /\ WF_feedVars(FanStop)

FeedSpec == FeedInit /\ [][FeedNext]_feedVars /\ FeedFairness

-----------------------------------------------------------------------------
(* Properties.                                                             *)

\* What consumer o has read, can read, and is going to be sent.
Way(o) ==
    received[o] \o outputs[o]
      \o (IF fan.pc = "send" /\ o \in Range(fan.left) THEN <<fan.block>> ELSE <<>>) \o eventer

\* Types; no channel holds more than its capacity.
FeedTypeOK ==
    /\ clientSet \subseteq Clients
    /\ \A c \in Clients : sub[c].pc \in {"none", "subscribe", "wait", "fetch", "send"}
    /\ Len(newBlockC) <= NewBlockBuffer /\ Len(eventer) <= EventerBuffer
    /\ \A o \in Range(Consumers) : Len(outputs[o]) <= EventerBuffer
    /\ latestBlock \in 0..MaxHeight
    /\ fan.pc \in {"idle", "send", "closed"} /\ monitor \in {"run", "stopped"}

\* Types; and the client set names exactly the clients with a goroutine, so none
\* is subscribed to twice and none that lost its subscription is passed over.
OneSubscription ==
    /\ FeedTypeOK
    /\ \A c \in Clients : c \in clientSet <=> sub[c].pc # "none"

\* Every consumer gets blocks with increasing numbers, however many nodes
\* announce a block, in whatever order, and whatever they announce again
\* after a reorganisation.  Until shutdown a block passed on by the subscriber
\* reaches every consumer or was dropped at a full channel, so that a consumer
\* that is slow costs the others nothing, and no consumer reads nil.
FeedConserves ==
    /\ \A o \in Range(Consumers) : \A i, j \in DOMAIN Way(o) : i < j => Way(o)[i] < Way(o)[j]
    /\ ~done => /\ ~nilRead
                /\ \A o \in Range(Consumers) : /\ Range(Way(o)) \cup dropped[o] = accepted
                                               /\ Range(Way(o)) \cap dropped[o] = {}

\* A block fetched from some node is seen by the monitor, whatever the
\* consumers do: none of them can hold up the feed.
FetchedIsSeen ==
    \A n \in 1..MaxHeight :
        (\E c \in Clients : sub[c].pc = "send" /\ sub[c].next = n + 1) ~> done \/ latestBlock >= n

\* Cancelling the context ends every goroutine of the feed and closes the
\* consumers' channels, also while a send waits for room.
CancelEnds ==
    done ~> /\ clientSet = {} /\ monitor = "stopped" /\ fan.pc = "closed"
            /\ \A c \in Clients : sub[c].pc = "none"
=============================================================================
