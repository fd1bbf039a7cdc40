-------------------------------- MODULE Stream --------------------------------
(***************************************************************************)
(* The path of a state from the engine's broadcaster to a remote consumer: *)
(* the engine subscription of one streamer goroutine, SubscribeStateStream *)
(* (full or diff), the websocket, and the client's StreamProcessor.        *)
(*                                                                         *)
(* Faults: a subscriber channel that is full, a differ error, a connection *)
(* that drops with messages in flight, and a message the client cannot     *)
(* decode.  Notify's error is ignored by the streamer; it fails only on a  *)
(* broken connection, which loses whatever follows too: Disconnect.        *)
(***************************************************************************)
EXTENDS DiffPatch, Sequences

CONSTANTS
    FullStateInterval,  \* Config.FullStateInterval of the streamer
    SubBuffer,          \* DefaultSubscriptionChanBuffer
    BufferSize,         \* Config.BufferSize of the client
    MaxBlock,           \* bound: highest block number
    MaxWire,            \* bound: messages in flight
    MaxFaults,          \* bound: differ and decoding failures
    MaxConnects,        \* bound: connections
    NoState             \* the nil *engine.State

ASSUME StreamAssumption ==
    /\ FullStateInterval \in Nat /\ FullStateInterval >= 2
    /\ SubBuffer \in Nat \ {0}
    /\ BufferSize \in Nat \ {0}
    /\ MaxBlock \in Nat /\ MaxWire \in Nat
    /\ MaxFaults \in Nat /\ MaxConnects \in Nat
    /\ NoState \notin States

VARIABLES
    published,      \* ghost: every state the engine has sent to its broadcaster
    head,           \* number of the last published block
    broadcasting,   \* the view broadcastViews holds, or NoState
    lastView,       \* Engine.lastView
    connected,      \* a streamer goroutine serves the client
    initial,        \* view captured by the initial-view goroutine of Subscribe
    chan,           \* the subscription channel subChan
    prevState,      \* SubscribeStateStream: prevState
    sinceFull,      \* SubscribeStateStream: blocksSinceFullState
    prevHadError,   \* SubscribeStateStream: previousStateHadError
    wire,           \* notifications in flight
    lastState,      \* StreamProcessor.lastState
    stateCh,        \* StreamProcessor.stateCh, a blocked send included
    faults,         \* failures so far
    connects,       \* connections so far
    intact,         \* ghost: every event of this connection was decoded
    diffRun         \* ghost: diffs the client took from the wire since a full

engineVars == <<published, head, broadcasting, lastView>>
streamerVars == <<prevState, sinceFull, prevHadError>>
clientVars == <<lastState, stateCh>>
ghostVars == <<intact, diffRun>>
vars == <<engineVars, connected, initial, chan, streamerVars, wire, clientVars,
          faults, connects, ghostVars>>

Healthy(s) == ~HasErrors(s)

Init ==
    /\ published = {} /\ head = 0
    /\ broadcasting = NoState /\ lastView = NoState
    /\ connected = FALSE /\ initial = NoState /\ chan = <<>>
    /\ prevState = NoState /\ sinceFull = FullStateInterval /\ prevHadError = FALSE
    /\ wire = <<>>
    /\ lastState = NoState /\ stateCh = <<>>
    /\ faults = 0 /\ connects = 0
    /\ intact = TRUE /\ diffRun = 0

-----------------------------------------------------------------------------
(* The engine, as its subscriber sees it (module Engine has the detail).   *)

\* The newest published state.
Newest == CHOOSE s \in published : s.block = head

\* runEventLoop hands a state to the broadcaster: blocks come in increasing
\* order, with gaps where the feed dropped one.
Publish(s) ==
    /\ broadcasting = NoState
    /\ published # {} => lastView = Newest
    /\ s.block > head
    /\ published' = published \cup {s}
    /\ head' = s.block
    /\ broadcasting' = s
    /\ UNCHANGED <<lastView, connected, initial, chan, streamerVars, wire,
                   clientVars, faults, connects, ghostVars>>

\* Non-blocking send: a full channel drops the view.
Offer(ch, s) == IF Len(ch) < SubBuffer THEN Append(ch, s) ELSE ch

Broadcast ==
    /\ broadcasting # NoState
    /\ chan' = IF connected THEN Offer(chan, broadcasting) ELSE chan
    /\ broadcasting' = NoState
    /\ UNCHANGED <<published, head, lastView, connected, initial, streamerVars,
                   wire, clientVars, faults, connects, ghostVars>>

StoreLastView ==
    /\ published # {} /\ lastView # Newest
    /\ lastView' = Newest
    /\ UNCHANGED <<published, head, broadcasting, connected, initial, chan,
                   streamerVars, wire, clientVars, faults, connects, ghostVars>>

-----------------------------------------------------------------------------
(* The connection.                                                         *)

\* Mutant: a new connection forgets the client's state.
ConnectForgets ==
    /\ ~connected /\ connects < MaxConnects
    /\ connected' = TRUE /\ connects' = connects + 1
    /\ initial' = lastView /\ chan' = <<>>
    /\ prevState' = NoState /\ sinceFull' = FullStateInterval /\ prevHadError' = FALSE
    /\ wire' = <<>>
    /\ intact' = TRUE /\ diffRun' = 0
    /\ lastState' = NoState
    /\ UNCHANGED <<engineVars, stateCh, faults>>

\* The client dials and subscribes; the streamer goroutine calls
\* Engine.Subscribe, which captures lastView for the initial send.
Connect ==
    /\ ~connected /\ connects < MaxConnects
    /\ connected' = TRUE /\ connects' = connects + 1
    /\ initial' = lastView /\ chan' = <<>>
    /\ prevState' = NoState /\ sinceFull' = FullStateInterval /\ prevHadError' = FALSE
    /\ wire' = <<>>
    /\ intact' = TRUE /\ diffRun' = 0
    /\ UNCHANGED <<engineVars, clientVars, faults>>

\* The goroutine of Subscribe sends the captured view, at any later time.
InitialView ==
    /\ connected /\ initial # NoState
    /\ chan' = Offer(chan, initial)
    /\ initial' = NoState
    /\ UNCHANGED <<engineVars, connected, streamerVars, wire, clientVars, faults,
                   connects, ghostVars>>

\* The connection drops: what is in flight is lost, the streamer goroutine
\* leaves on rpcSub.Err() and unsubscribes.
Disconnect ==
    /\ connected
    /\ connected' = FALSE
    /\ initial' = NoState /\ chan' = <<>> /\ wire' = <<>>
    /\ prevState' = NoState /\ sinceFull' = FullStateInterval /\ prevHadError' = FALSE
    /\ UNCHANGED <<engineVars, clientVars, faults, connects, ghostVars>>

-----------------------------------------------------------------------------
(* The streamer goroutine: one iteration of its loop on engineSub.C().     *)

Full(s) == [type |-> "full", state |-> s]
DiffTo(s) == [type |-> "diff", diff |-> Diff(prevState, s)]

\* The decision logic: a diff only when none of the conditions 1 to 5 for a
\* full state holds.
CanDiff(s) ==
    /\ prevState # NoState
    /\ prevState.block + 1 = s.block
    /\ sinceFull < FullStateInterval
    /\ ~HasErrors(s)
    /\ ~prevHadError

Streamed(s, event) ==
    /\ prevHadError' = HasErrors(s)
    /\ prevState' = s
    /\ wire' = Append(wire, event)

StreamFull ==
    /\ connected /\ chan # <<>> /\ Len(wire) < MaxWire
    /\ ~CanDiff(Head(chan))
    /\ Streamed(Head(chan), Full(Head(chan)))
    /\ sinceFull' = 1
    /\ chan' = Tail(chan)
    /\ UNCHANGED <<engineVars, connected, initial, clientVars, faults, connects,
                   intact, diffRun>>

\* Mutant: diffs are not counted.
StreamDiffUncounted ==
    /\ connected /\ chan # <<>> /\ Len(wire) < MaxWire
    /\ CanDiff(Head(chan))
    /\ Streamed(Head(chan), DiffTo(Head(chan)))
    /\ chan' = Tail(chan)
    /\ UNCHANGED <<engineVars, connected, initial, sinceFull, clientVars, faults,
                   connects, intact, diffRun>>

StreamDiff ==
    /\ connected /\ chan # <<>> /\ Len(wire) < MaxWire
    /\ CanDiff(Head(chan))
    /\ Streamed(Head(chan), DiffTo(Head(chan)))
    /\ sinceFull' = sinceFull + 1
    /\ chan' = Tail(chan)
    /\ UNCHANGED <<engineVars, connected, initial, clientVars, faults, connects,
                   intact, diffRun>>

\* Mutant: the skipped state becomes the base of the next diff.
DiffFailsRebases ==
    /\ connected /\ chan # <<>> /\ faults < MaxFaults
    /\ CanDiff(Head(chan))
    /\ prevState' = Head(chan)
    /\ chan' = Tail(chan)
    /\ faults' = faults + 1
    /\ UNCHANGED <<engineVars, connected, initial, sinceFull, prevHadError, wire,
                   clientVars, connects, intact, diffRun>>

\* Diff returns an error: the state is skipped, prevState is kept.
DiffFails ==
    /\ connected /\ chan # <<>> /\ faults < MaxFaults
    /\ CanDiff(Head(chan))
    /\ chan' = Tail(chan)
    /\ faults' = faults + 1
    /\ UNCHANGED <<engineVars, connected, initial, streamerVars, wire, clientVars,
                   connects, intact, diffRun>>

-----------------------------------------------------------------------------
(* The client: ProcessMessage, one message at a time.  A handler that finds *)
(* stateCh full stays blocked in its send: stateCh then holds one state    *)
(* more than its buffer and no further message is taken.                   *)

Idle == Len(stateCh) <= BufferSize

storeState(s) ==
    /\ lastState' = s
    /\ stateCh' = Append(stateCh, s)

\* Mutant: only the first full state is stored.
HandleFullOnce ==
    /\ connected /\ wire # <<>> /\ Head(wire).type = "full" /\ Idle
    /\ IF HasErrors(Head(wire).state) \/ lastState # NoState
          THEN UNCHANGED clientVars
          ELSE storeState(Head(wire).state)
    /\ wire' = Tail(wire)
    /\ diffRun' = 0
    /\ UNCHANGED <<engineVars, connected, initial, chan, streamerVars, faults,
                   connects, intact>>

\* handleFullState: a state with an errored protocol is refused.
HandleFull ==
    /\ connected /\ wire # <<>> /\ Head(wire).type = "full" /\ Idle
    /\ IF HasErrors(Head(wire).state)
          THEN UNCHANGED clientVars
          ELSE storeState(Head(wire).state)
    /\ wire' = Tail(wire)
    /\ diffRun' = 0
    /\ UNCHANGED <<engineVars, connected, initial, chan, streamerVars, faults,
                   connects, intact>>

\* handleDiff: no state yet, or another base block, and the diff is dropped.
Applies(diff) ==
    /\ lastState # NoState
    /\ diff.from = lastState.block
    /\ PatchAccepts(lastState, diff)

HandleDiff ==
    /\ connected /\ wire # <<>> /\ Head(wire).type = "diff" /\ Idle
    /\ IF Applies(Head(wire).diff)
          THEN storeState(Patch(lastState, Head(wire).diff))
          ELSE UNCHANGED clientVars
    /\ wire' = Tail(wire)
    /\ diffRun' = diffRun + 1
    /\ UNCHANGED <<engineVars, connected, initial, chan, streamerVars, faults,
                   connects, intact>>

\* ProcessMessage fails to decode the message: logged, state unchanged.
Undecodable ==
    /\ connected /\ wire # <<>> /\ Idle /\ faults < MaxFaults
    /\ wire' = Tail(wire)
    /\ faults' = faults + 1
    /\ intact' = FALSE
    /\ diffRun' = IF Head(wire).type = "full" THEN 0 ELSE diffRun + 1
    /\ UNCHANGED <<engineVars, connected, initial, chan, streamerVars, clientVars,
                   connects>>

\* The consumer reads State().
Consume ==
    /\ stateCh # <<>>
    /\ stateCh' = Tail(stateCh)
    /\ UNCHANGED <<engineVars, connected, initial, chan, streamerVars, wire,
                   lastState, faults, connects, ghostVars>>

-----------------------------------------------------------------------------
Engine ==
    \/ \E n \in (head + 1)..MaxBlock, m \in ProtocolMaps :
          Publish([block |-> n, protocols |-> m])
    \/ Broadcast
    \/ StoreLastView

Server == InitialView \/ StreamFull \/ StreamDiff \/ DiffFails

Client == HandleFull \/ HandleDiff \/ Undecodable \/ Consume

Next == Engine \/ Connect \/ Disconnect \/ Server \/ Client

Spec == Init /\ [][Next]_vars

\* The client goroutine keeps running and the consumer keeps reading.
Fairness == WF_vars(HandleFull \/ HandleDiff) /\ WF_vars(Consume)

LiveSpec == Spec /\ Fairness

-----------------------------------------------------------------------------
(* Properties.                                                             *)

HealthyStates == {s \in published : Healthy(s)}

Events ==
    [type : {"full"}, state : published]
        \cup [type : {"diff"},
              diff : {Diff(s, t) : s \in HealthyStates, t \in HealthyStates}]

\* Types; the streamer's count of blocks since a full state stays between one and
\* the interval.
TypeOK ==
    /\ published \subseteq States
    /\ head \in Nat
    /\ broadcasting \in published \cup {NoState}
    /\ lastView \in published \cup {NoState}
    /\ connected \in BOOLEAN
    /\ initial \in published \cup {NoState}
    /\ chan \in Seq(published)
    /\ prevState \in published \cup {NoState}
    /\ sinceFull \in 1..FullStateInterval
    /\ prevHadError \in BOOLEAN
    /\ wire \in Seq(Events)
    /\ lastState \in States \cup {NoState}
    /\ stateCh \in Seq(States)
    /\ faults \in 0..MaxFaults /\ connects \in 0..MaxConnects
    /\ intact \in BOOLEAN /\ diffRun \in Nat

\* A state the engine published, with no errored protocol.
Genuine(s) == s \in published /\ Healthy(s)

\* What a consumer reads, and what the client patches next, is exactly a
\* state the engine published, with no errored protocol: whatever was dropped,
\* failed to diff or decode, or was lost with a connection, handleFullState
\* and handleDiff never build a state the engine never had.
ClientStateGenuine ==
    /\ lastState # NoState => Genuine(lastState)
    /\ \A k \in 1..Len(stateCh) : Genuine(stateCh[k])

\* While every message of the connection decodes, the client that has caught
\* up holds the very state the streamer diffs against: differ errors (the
\* `continue` that keeps prevState) and errored states (the forced full after
\* them) never leave the two apart.
InSync ==
    (connected /\ intact /\ wire = <<>> /\ prevState # NoState)
        => \/ lastState = prevState
           \/ HasErrors(prevState) /\ prevHadError

(* The inductive strengthening the proofs use (module StreamProofs).       *)

\* One state per block number, none above head.
PublishedOnce ==
    /\ \A s \in published : s.block <= head
    /\ \A s, t \in published : s.block = t.block => s = t
    /\ published # {} => \E s \in published : s.block = head

\* previousStateHadError is about prevState.
ErrorRemembered == prevState # NoState => prevHadError = HasErrors(prevState)

GenuineInv == TypeOK /\ PublishedOnce /\ ErrorRemembered /\ ClientStateGenuine

\* No stretch of diffs, whether taken by the client or still on the wire, is
\* as long as the interval; the stretch that ends with the newest message is
\* counted by blocksSinceFullState.
DiffsOnly(i, j) == \A m \in i..j : wire[m].type = "diff"

RunInv ==
    /\ \A j \in 0..Len(wire) : DiffsOnly(1, j) => diffRun + j < FullStateInterval
    /\ \A i \in 1..Len(wire) : \A j \in i..Len(wire) :
          DiffsOnly(i + 1, j) => j - i < FullStateInterval
    /\ connected /\ DiffsOnly(1, Len(wire)) => diffRun + Len(wire) < sinceFull
    /\ \A i \in 1..Len(wire) : DiffsOnly(i + 1, Len(wire)) => Len(wire) - i < sinceFull

\* blocksSinceFullState bounds how long a client that lost its base stays out
\* of sync: it never takes FullStateInterval diffs in a row without a full.
ResyncBound == diffRun < FullStateInterval

\* A healthy state that the streamer has sent reaches the client, unless the
\* connection drops or a message of it cannot be decoded.
SentIsStored ==
    \A n \in 1..MaxBlock :
        (connected /\ intact /\ prevState # NoState /\ prevState.block = n
            /\ Healthy(prevState))
          ~> (~connected \/ ~intact \/ (lastState # NoState /\ lastState.block = n))

Feed == INSTANCE StateFeed
    WITH StateSet <- States, Errored <- HasErrors, Nil <- NoState,
         feed <- published, current <- lastState

\* The pipeline implements StateFeed: the client only ever moves from one
\* error-free published state to another, and no step but the engine's adds a
\* state.
ImplementsStateFeed == Feed!Spec
=============================================================================
