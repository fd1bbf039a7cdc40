----------------------------- MODULE StreamProofs -----------------------------
(***************************************************************************)
(* The client's state is always a genuine, error-free engine state, and a  *)
(* client that lost its base waits for less than FullStateInterval diffs.  *)
(***************************************************************************)
EXTENDS Stream, DiffPatchProofs

\* The empty channel is a sequence over any set of events.
LEMMA EmptySequence == ASSUME NEW S PROVE <<>> \in Seq(S)
OBVIOUS

\* A fresh streamer's counter, FullStateInterval, is in the counter's range.
LEMMA FullInterval == FullStateInterval \in 1..FullStateInterval
BY StreamAssumption

\* Nothing is published yet: the invariant holds of the empty pipeline.
LEMMA InitGenuine == Init => GenuineInv
<1> SUFFICES ASSUME Init PROVE GenuineInv
  OBVIOUS
<1>1. TypeOK
  <2>1. chan \in Seq(published) /\ wire \in Seq(Events) /\ stateCh \in Seq(States)
    BY EmptySequence DEF Init
  <2>2. connected \in BOOLEAN /\ prevHadError \in BOOLEAN /\ intact \in BOOLEAN
    BY Zenon DEF Init
  <2> QED
    BY <2>1, <2>2, FullInterval, StreamAssumption DEF Init, TypeOK
<1>2. PublishedOnce /\ ErrorRemembered /\ ClientStateGenuine
  BY DEF Init, PublishedOnce, ErrorRemembered, ClientStateGenuine
<1> QED
  BY <1>1, <1>2 DEF GenuineInv

\* Events stay events as the engine publishes more.
LEMMA EventsMono ==
    ASSUME published \subseteq published'
    PROVE  Events \subseteq Events'
BY DEF Events, HealthyStates, Healthy

\* Steps that leave the client alone keep what it holds genuine.
LEMMA ClientUntouched ==
    ASSUME ClientStateGenuine, published \subseteq published', UNCHANGED clientVars
    PROVE  ClientStateGenuine'
BY DEF ClientStateGenuine, Genuine, Healthy, HasErrors, clientVars

\* Newest is a published state.
LEMMA NewestPublished ==
    ASSUME PublishedOnce, published # {}
    PROVE  Newest \in published /\ Newest.block = head
<1>1. PICK s \in published : s.block = head
  BY DEF PublishedOnce
<1> QED
  BY <1>1 DEF Newest

\* Engine.Publish adds a state and leaves every state published before it so.
LEMMA PublishStep ==
    ASSUME GenuineInv, NEW n \in (head + 1)..MaxBlock, NEW m \in ProtocolMaps,
           Publish([block |-> n, protocols |-> m])
    PROVE  GenuineInv'
<1> DEFINE s == [block |-> n, protocols |-> m]
<1>0. s \in States /\ s.block = n /\ n \in Nat /\ n > head
  BY StreamAssumption DEF GenuineInv, TypeOK, States
<1>1. published \subseteq published' /\ published' = published \cup {s}
  BY DEF Publish
<1>2. TypeOK'
  <2>1. chan' \in Seq(published') /\ wire' \in Seq(Events')
    <3>1. chan' = chan /\ wire' = wire
      BY DEF Publish
    <3> QED
      BY <3>1, <1>1, EventsMono DEF GenuineInv, TypeOK
  <2> QED
    BY <1>0, <1>1, <2>1 DEF GenuineInv, TypeOK, Publish, streamerVars, clientVars, ghostVars
<1>3. PublishedOnce'
  BY <1>0, <1>1 DEF GenuineInv, PublishedOnce, TypeOK, States, Publish
<1>4. ErrorRemembered'
  BY DEF GenuineInv, ErrorRemembered, Publish, streamerVars, HasErrors
<1>5. ClientStateGenuine'
  BY <1>1, ClientUntouched DEF GenuineInv, Publish
<1> QED
  BY <1>2, <1>3, <1>4, <1>5 DEF GenuineInv

\* The engine's other steps, the connection and the streamer's fault move
\* published states around and change nothing else.
LEMMA ShuffleStep ==
    ASSUME GenuineInv,
           Broadcast \/ StoreLastView \/ Connect \/ InitialView \/ Disconnect \/ DiffFails
    PROVE  GenuineInv'
<1>1. UNCHANGED <<published, head>> /\ UNCHANGED clientVars
  BY DEF Broadcast, StoreLastView, Connect, InitialView, Disconnect, DiffFails,
         engineVars, clientVars
<1>2. Events' = Events
  BY <1>1 DEF Events, HealthyStates, Healthy
<1>3. TypeOK'
  <2>1. CASE Broadcast
    BY <2>1, <1>1, <1>2 DEF GenuineInv, TypeOK, Broadcast, Offer, streamerVars, clientVars, ghostVars
  <2>2. CASE StoreLastView
    BY <2>2, <1>1, <1>2, NewestPublished
       DEF GenuineInv, TypeOK, StoreLastView, streamerVars, clientVars, ghostVars
  <2>3. CASE Connect
    <3>1. connected' \in BOOLEAN /\ prevHadError' \in BOOLEAN /\ intact' \in BOOLEAN
      BY <2>3, Zenon DEF Connect
    <3> QED
      BY <2>3, <3>1, <1>1, <1>2, StreamAssumption, FullInterval, EmptySequence
       DEF GenuineInv, TypeOK, Connect, engineVars, clientVars
  <2>4. CASE InitialView
    BY <2>4, <1>1, <1>2
       DEF GenuineInv, TypeOK, InitialView, Offer, engineVars, streamerVars, clientVars, ghostVars
  <2>5. CASE Disconnect
    BY <2>5, <1>1, <1>2, FullInterval, EmptySequence
       DEF GenuineInv, TypeOK, Disconnect, engineVars, clientVars, ghostVars
  <2>6. CASE DiffFails
    <3>1. Head(chan) \in published /\ Tail(chan) \in Seq(published)
      BY <2>6 DEF GenuineInv, TypeOK, DiffFails
    <3>2. Head(chan).block \in Nat
      BY <3>1 DEF GenuineInv, TypeOK, States
    <3> QED
      BY <2>6, <1>1, <1>2, <3>1, <3>2, StreamAssumption
         DEF GenuineInv, TypeOK, DiffFails, engineVars, streamerVars, clientVars
  <2> QED
    BY <2>1, <2>2, <2>3, <2>4, <2>5, <2>6
<1>4. PublishedOnce'
  BY <1>1 DEF GenuineInv, PublishedOnce
<1>5. ErrorRemembered'
  BY DEF GenuineInv, ErrorRemembered, HasErrors, Broadcast, StoreLastView, Connect,
         InitialView, Disconnect, DiffFails, streamerVars
<1>6. ClientStateGenuine'
  BY <1>1, ClientUntouched DEF GenuineInv
<1> QED
  BY <1>3, <1>4, <1>5, <1>6 DEF GenuineInv

\* The streamer puts a full state or the diff of two error-free states on the
\* wire, and remembers the state it sent.
LEMMA StreamerStep ==
    ASSUME GenuineInv, StreamFull \/ StreamDiff
    PROVE  GenuineInv'
<1> DEFINE s == Head(chan)
<1>1. s \in published /\ Tail(chan) \in Seq(published)
  BY DEF GenuineInv, TypeOK, StreamFull, StreamDiff
<1>2. /\ UNCHANGED <<engineVars, connected, initial, clientVars, faults, connects, intact, diffRun>>
      /\ chan' = Tail(chan) /\ prevState' = s /\ prevHadError' = HasErrors(s)
  BY DEF StreamFull, StreamDiff, Streamed
<1>3. sinceFull' \in 1..FullStateInterval
  BY StreamAssumption DEF GenuineInv, TypeOK, StreamFull, StreamDiff, CanDiff
<1>4. Events' = Events
  BY <1>2 DEF Events, HealthyStates, Healthy, engineVars
<1>5. PICK e \in Events : wire' = Append(wire, e)
  <2>1. CASE StreamFull
    <3>1. Full(s) \in Events
      BY <1>1 DEF Full, Events
    <3> QED
      BY <2>1, <3>1 DEF StreamFull, Streamed
  <2>2. CASE StreamDiff
    <3>1. CanDiff(s)
      BY <2>2 DEF StreamDiff
    <3>2. prevState \in HealthyStates /\ s \in HealthyStates
      BY <3>1, <1>1 DEF CanDiff, GenuineInv, TypeOK, ErrorRemembered, HealthyStates, Healthy
    <3>3. DiffTo(s) \in Events
      BY <3>2 DEF DiffTo, Events
    <3> QED
      BY <2>2, <3>3 DEF StreamDiff, Streamed
  <2> QED
    BY <2>1, <2>2
<1>6. wire' \in Seq(Events)
  BY <1>5 DEF GenuineInv, TypeOK
<1>7. prevHadError' \in BOOLEAN
  BY <1>2, Zenon DEF HasErrors
<1>8. TypeOK'
  BY <1>1, <1>2, <1>3, <1>4, <1>6, <1>7 DEF GenuineInv, TypeOK, engineVars, clientVars
<1>9. ErrorRemembered'
  BY <1>2 DEF ErrorRemembered, HasErrors
<1> QED
  BY <1>2, <1>8, <1>9, ClientUntouched DEF GenuineInv, PublishedOnce, engineVars

\* A diff that handleDiff accepts turns the client's state into the state the
\* streamer diffed: the block number identifies the base, and Patch inverts
\* Diff.
LEMMA AppliedDiffIsGenuine ==
    ASSUME GenuineInv, NEW e \in Events, e.type = "diff", Applies(e.diff)
    PROVE  Genuine(Patch(lastState, e.diff))
<1>1. PICK s \in HealthyStates, t \in HealthyStates : e.diff = Diff(s, t)
  BY DEF Events
<1>2. Genuine(lastState)
  BY DEF GenuineInv, ClientStateGenuine, Applies
<1>3. e.diff.from = s.block
  BY <1>1 DEF Diff
<1>4. s = lastState
  BY <1>1, <1>2, <1>3 DEF Applies, Genuine, HealthyStates, GenuineInv, PublishedOnce
<1>5. Patch(s, Diff(s, t)) = t
  BY <1>1, PatchDiff DEF HealthyStates, Healthy, GenuineInv, TypeOK
<1> QED
  BY <1>1, <1>4, <1>5 DEF Genuine, HealthyStates

\* The client's handlers store only genuine states, and the consumer takes
\* them away.
LEMMA ClientStep ==
    ASSUME GenuineInv, Client
    PROVE  GenuineInv'
<1>1. UNCHANGED <<engineVars, connected, initial, chan, streamerVars, connects>>
  BY DEF Client, HandleFull, HandleDiff, Undecodable, Consume, ghostVars
<1>2. Events' = Events /\ published' = published
  BY <1>1 DEF Events, HealthyStates, Healthy, engineVars
<1>3. wire' \in Seq(Events)
  <2>1. wire' = wire \/ (wire # <<>> /\ wire' = Tail(wire))
    BY DEF Client, HandleFull, HandleDiff, Undecodable, Consume
  <2>2. wire \in Seq(Events)
    BY DEF GenuineInv, TypeOK
  <2> QED
    BY <2>1, <2>2
<1>4. faults' \in 0..MaxFaults /\ diffRun' \in Nat
  BY StreamAssumption
     DEF Client, HandleFull, HandleDiff, Undecodable, Consume, GenuineInv, TypeOK, ghostVars
<1>5. intact' \in BOOLEAN
  <2>1. intact \in BOOLEAN
    BY DEF GenuineInv, TypeOK
  <2>2. intact' = intact \/ intact' = FALSE
    BY DEF Client, HandleFull, HandleDiff, Undecodable, Consume, ghostVars
  <2> QED
    BY <2>1, <2>2, Zenon
<1>6. /\ ClientStateGenuine'
      /\ lastState' \in States \cup {NoState} /\ stateCh' \in Seq(States)
  <2>0. /\ ClientStateGenuine /\ published \subseteq States
        /\ lastState \in States \cup {NoState} /\ stateCh \in Seq(States)
    BY DEF GenuineInv, TypeOK
  <2>1. CASE UNCHANGED clientVars
    BY <2>0, <2>1, <1>2, ClientUntouched DEF clientVars
  <2>2. ASSUME NEW s, Genuine(s), storeState(s)
        PROVE  /\ ClientStateGenuine'
               /\ lastState' \in States \cup {NoState} /\ stateCh' \in Seq(States)
    <3>1. s \in States /\ Genuine(s)'
      BY <2>0, <2>2, <1>2 DEF Genuine, Healthy, HasErrors
    <3>2. \A k \in 1..Len(stateCh') : stateCh'[k] = s \/ (k \in 1..Len(stateCh) /\ stateCh'[k] = stateCh[k])
      BY <2>0, <2>2, <3>1 DEF storeState
    <3>3. \A k \in 1..Len(stateCh) : stateCh[k] \in published /\ ~HasErrors(stateCh[k])
      BY <2>0 DEF ClientStateGenuine, Genuine, Healthy
    <3>4. lastState' = s /\ stateCh' \in Seq(States)
      BY <2>0, <2>2, <3>1 DEF storeState
    <3>5. \A k \in 1..Len(stateCh') : stateCh'[k] \in published /\ ~HasErrors(stateCh'[k])
      BY <2>2, <3>2, <3>3 DEF Genuine, Healthy
    <3>6. Genuine(lastState)'
      BY <3>1, <3>4 DEF Genuine
    <3> QED
      BY <1>2, <3>1, <3>4, <3>5, <3>6 DEF ClientStateGenuine, Genuine, Healthy, HasErrors
  <2>3. CASE HandleFull
    <3>1. Head(wire) \in Events /\ Head(wire).type = "full"
      BY <2>3 DEF HandleFull, GenuineInv, TypeOK
    <3>2. Head(wire).state \in published
      BY <3>1 DEF Events
    <3> QED
      BY <2>1, <2>2, <2>3, <3>2 DEF HandleFull, Genuine, Healthy
  <2>4. CASE HandleDiff
    <3>1. Head(wire) \in Events /\ Head(wire).type = "diff"
      BY <2>4 DEF HandleDiff, GenuineInv, TypeOK
    <3> QED
      BY <2>1, <2>2, <2>4, <3>1, AppliedDiffIsGenuine DEF HandleDiff
  <2>5. CASE Undecodable
    BY <2>1, <2>5 DEF Undecodable
  <2>6. CASE Consume
    <3>1. /\ stateCh' = Tail(stateCh) /\ lastState' = lastState
          /\ \A k \in 1..Len(stateCh') : k + 1 \in 1..Len(stateCh) /\ stateCh'[k] = stateCh[k + 1]
          /\ stateCh' \in Seq(States)
      BY <2>0, <2>6 DEF Consume
    <3> QED
      BY <2>0, <3>1, <1>2 DEF ClientStateGenuine, Genuine, Healthy, HasErrors
  <2> QED
    BY <2>3, <2>4, <2>5, <2>6 DEF Client
<1>7. TypeOK'
  BY <1>1, <1>2, <1>3, <1>4, <1>5, <1>6 DEF GenuineInv, TypeOK, engineVars, streamerVars
<1>8. PublishedOnce' /\ ErrorRemembered'
  BY <1>1 DEF GenuineInv, PublishedOnce, ErrorRemembered, HasErrors, engineVars, streamerVars
<1> QED
  BY <1>6, <1>7, <1>8 DEF GenuineInv

\* Every step of the pipeline keeps what it carries and holds genuine.
LEMMA GenuineInductive == GenuineInv /\ [Next]_vars => GenuineInv'
<1> SUFFICES ASSUME GenuineInv, [Next]_vars PROVE GenuineInv'
  OBVIOUS
<1>1. CASE Next
  BY <1>1, PublishStep, ShuffleStep, StreamerStep, ClientStep DEF Next, Engine, Server
<1>2. CASE UNCHANGED vars
  <2>1. Events' = Events
    BY <1>2 DEF Events, HealthyStates, Healthy, vars, engineVars
  <2>2. TypeOK'
    BY <1>2, <2>1 DEF GenuineInv, TypeOK, vars, engineVars, streamerVars, clientVars, ghostVars
  <2>3. PublishedOnce' /\ ErrorRemembered'
    BY <1>2 DEF GenuineInv, PublishedOnce, ErrorRemembered, vars, engineVars, streamerVars
  <2>4. ClientStateGenuine'
    BY <1>2, ClientUntouched DEF GenuineInv, vars, engineVars
  <2> QED
    BY <2>2, <2>3, <2>4 DEF GenuineInv
<1> QED
  BY <1>1, <1>2

\* Every variable of the pipeline keeps its type.
THEOREM TypeCorrect == Spec => []TypeOK
BY InitGenuine, GenuineInductive, PTL DEF Spec, GenuineInv

\* handleFullState and handleDiff never hand the consumer, or keep as the base
\* of the next patch, a state the engine did not publish.
THEOREM ClientGenuine == Spec => []ClientStateGenuine
BY InitGenuine, GenuineInductive, PTL DEF Spec, GenuineInv

\* What the client stores in one step is a genuine state of the feed.
LEMMA StoresGenuine ==
    ASSUME GenuineInv, HandleFull \/ HandleDiff
    PROVE  lastState' = lastState \/ Genuine(lastState')
<1>1. Head(wire) \in Events
  BY DEF GenuineInv, TypeOK, HandleFull, HandleDiff
<1>2. CASE HandleFull
  <2>1. Head(wire).state \in published
    BY <1>1, <1>2 DEF Events, HandleFull
  <2> QED
    BY <1>2, <2>1 DEF HandleFull, storeState, Genuine, Healthy, clientVars
<1>3. CASE HandleDiff
  BY <1>1, <1>3, AppliedDiffIsGenuine DEF HandleDiff, storeState, clientVars
<1> QED
  BY <1>2, <1>3

\* Every step of the pipeline is a step of the abstract feed or leaves it alone.
LEMMA FeedStep ==
    ASSUME GenuineInv, [Next]_vars
    PROVE  [Feed!Next]_<<published, lastState>>
<1>1. CASE UNCHANGED <<published, lastState>>
  BY <1>1
<1>2. ASSUME NEW n \in (head + 1)..MaxBlock, NEW m \in ProtocolMaps,
             Publish([block |-> n, protocols |-> m])
      PROVE  Feed!Publish
  <2> DEFINE s == [block |-> n, protocols |-> m]
  <2>1. s \in States /\ \A t \in published : s.block > t.block
    BY <1>2, StreamAssumption DEF States, GenuineInv, TypeOK, PublishedOnce
  <2>2. published' = published \cup {s} /\ lastState' = lastState
    BY <1>2 DEF Publish, clientVars
  <2> QED
    BY <2>1, <2>2 DEF Feed!Publish
<1>3. CASE HandleFull \/ HandleDiff
  <2>1. published' = published
    BY <1>3 DEF HandleFull, HandleDiff, engineVars
  <2> QED
    BY <1>3, <2>1, StoresGenuine DEF Feed!Next, Feed!Advance, Genuine, Healthy
<1>4. CASE \/ Broadcast \/ StoreLastView \/ Connect \/ Disconnect \/ InitialView
           \/ StreamFull \/ StreamDiff \/ DiffFails \/ Undecodable \/ Consume
  BY <1>1, <1>4 DEF Broadcast, StoreLastView, Connect, Disconnect, InitialView, StreamFull,
     StreamDiff, DiffFails, Undecodable, Consume, engineVars, clientVars
<1>5. CASE UNCHANGED vars
  BY <1>1, <1>5 DEF vars, engineVars, clientVars
<1> QED
  BY <1>2, <1>3, <1>4, <1>5 DEF Next, Engine, Server, Client, Feed!Next

\* The whole pipeline, with its drops, faults and reconnections, implements
\* StateFeed: the client moves only from one error-free published state to
\* another.
THEOREM StreamImplementsFeed == Spec => ImplementsStateFeed
<1>1. Init => Feed!Init
  BY DEF Init, Feed!Init
<1>2. GenuineInv /\ [Next]_vars => [Feed!Next]_<<published, lastState>>
  BY FeedStep
<1> QED
  BY <1>1, <1>2, InitGenuine, GenuineInductive, PTL DEF Spec, ImplementsStateFeed, Feed!Spec

-----------------------------------------------------------------------------
(* The bound on a stretch of diffs.                                        *)

\* The facts about the wire and the counters the proofs below use.
LEMMA WireFacts ==
    ASSUME TypeOK
    PROVE  /\ wire \in Seq(Events) /\ Len(wire) \in Nat
           /\ sinceFull \in Nat /\ sinceFull <= FullStateInterval /\ 1 <= sinceFull
           /\ diffRun \in Nat /\ FullStateInterval \in Nat /\ 2 <= FullStateInterval
BY StreamAssumption DEF TypeOK

\* Appending a message: blocksSinceFullState counts it when it is a diff and
\* starts again when it is a full state.
LEMMA RunAppend ==
    ASSUME TypeOK, RunInv, connected, connected', diffRun' = diffRun,
           NEW e, wire' = Append(wire, e),
           \/ e.type = "diff" /\ sinceFull < FullStateInterval /\ sinceFull' = sinceFull + 1
           \/ e.type = "full" /\ sinceFull' = 1
    PROVE  RunInv'
<1> USE WireFacts
<1> PICK n \in Nat : n = Len(wire)
  OBVIOUS
<1>1. /\ Len(wire') = n + 1 /\ wire'[n + 1] = e
      /\ \A m \in 1..n : wire'[m] = wire[m]
  OBVIOUS
<1>2. \A i \in 1..n+1 : \A j \in 0..n : DiffsOnly(i, j)' <=> DiffsOnly(i, j)
  BY <1>1 DEF DiffsOnly
<1>3. \A i \in 1..n+1 : DiffsOnly(i, n + 1)' => e.type = "diff" /\ DiffsOnly(i, n)
  BY <1>1 DEF DiffsOnly
<1>4. \A j \in 0..n+1 : DiffsOnly(1, j)' => diffRun + j < FullStateInterval
  <2> TAKE j \in 0..n+1
  <2>1. CASE j \in 0..n
    BY <2>1, <1>2 DEF RunInv
  <2>2. CASE j = n + 1
    BY <2>2, <1>3 DEF RunInv
  <2> QED
    BY <2>1, <2>2
<1>5. \A i \in 1..n+1 : \A j \in i..n+1 : DiffsOnly(i + 1, j)' => j - i < FullStateInterval
  <2> TAKE i \in 1..n+1
  <2> TAKE j \in i..n+1
  <2>1. CASE j \in i..n
    BY <2>1, <1>2 DEF RunInv
  <2>2. CASE j = n + 1 /\ i \in 1..n
    BY <2>2, <1>3 DEF RunInv
  <2>3. CASE i = n + 1
    BY <2>3
  <2> QED
    BY <2>1, <2>2, <2>3
<1>6. DiffsOnly(1, n + 1)' => diffRun + n + 1 < sinceFull'
  BY <1>3 DEF RunInv
<1>7. \A i \in 1..n+1 : DiffsOnly(i + 1, n + 1)' => n + 1 - i < sinceFull'
  <2> TAKE i \in 1..n+1
  <2>1. CASE i = n + 1
    BY <2>1
  <2>2. CASE i \in 1..n
    BY <2>2, <1>3 DEF RunInv
  <2> QED
    BY <2>1, <2>2
<1>8. /\ \A j \in 0..Len(wire') : DiffsOnly(1, j)' => diffRun' + j < FullStateInterval
      /\ \A i \in 1..Len(wire') : \A j \in i..Len(wire') :
            DiffsOnly(i + 1, j)' => j - i < FullStateInterval
  BY <1>1, <1>4, <1>5, Zenon
<1>9. DiffsOnly(1, Len(wire))' => diffRun' + Len(wire') < sinceFull'
  BY <1>1, <1>6
<1>10. \A i \in 1..Len(wire') : DiffsOnly(i + 1, Len(wire))' => Len(wire') - i < sinceFull'
  BY <1>1, <1>7
<1> QED
  BY <1>8, <1>9, <1>10, Zenon DEF RunInv

\* Taking the first message: a diff lengthens the client's stretch and
\* shortens the wire by one, a full state ends the stretch.
LEMMA RunTake ==
    ASSUME TypeOK, RunInv, UNCHANGED <<connected, sinceFull>>,
           wire # <<>>, wire' = Tail(wire),
           diffRun' = IF Head(wire).type = "full" THEN 0 ELSE diffRun + 1
    PROVE  RunInv'
<1> USE WireFacts
<1> PICK n \in Nat : n = Len(wire)
  OBVIOUS
<1>0. Head(wire) \in Events /\ Head(wire) = wire[1] /\ n >= 1
  OBVIOUS
<1>1. wire[1].type = "full" \/ wire[1].type = "diff"
  BY <1>0 DEF Events
<1>2. Len(wire') = n - 1 /\ \A m \in 1..n-1 : wire'[m] = wire[m + 1]
  BY <1>0
<1>3. \A i \in 1..n : \A j \in 0..n-1 : DiffsOnly(i, j)' => DiffsOnly(i + 1, j + 1)
  <2> SUFFICES ASSUME NEW i \in 1..n, NEW j \in 0..n-1, DiffsOnly(i, j)',
                      NEW m \in i+1..j+1
               PROVE  wire[m].type = "diff"
    BY DEF DiffsOnly
  <2>1. m - 1 \in i..j /\ m - 1 \in 1..n-1 /\ (m - 1) + 1 = m
    OBVIOUS
  <2>2. wire'[m - 1].type = "diff"
    BY <2>1 DEF DiffsOnly
  <2> QED
    BY <1>2, <2>1, <2>2
<1>4. ASSUME NEW j \in 0..n-1, DiffsOnly(1, j)'
      PROVE  /\ DiffsOnly(1 + 1, j + 1)
             /\ wire[1].type = "diff" => DiffsOnly(1, j + 1)
  <2>1. DiffsOnly(1 + 1, j + 1)
    BY <1>0, <1>3, <1>4
  <2> QED
    BY <2>1 DEF DiffsOnly
<1>5. \A j \in 0..n-1 : DiffsOnly(1, j)' => diffRun' + j < FullStateInterval
  <2> SUFFICES ASSUME NEW j \in 0..n-1, DiffsOnly(1, j)'
               PROVE  diffRun' + j < FullStateInterval
    OBVIOUS
  <2>1. j + 1 \in 0..n /\ 1 \in 1..n /\ j + 1 \in 1..n
    BY <1>0
  <2>2. CASE wire[1].type = "full"
    BY <2>1, <2>2, <1>0, <1>4 DEF RunInv
  <2>3. CASE wire[1].type = "diff"
    BY <2>1, <2>3, <1>0, <1>4 DEF RunInv
  <2> QED
    BY <1>1, <2>2, <2>3
<1>6. \A i \in 1..n-1 : \A j \in i..n-1 : DiffsOnly(i + 1, j)' => j - i < FullStateInterval
  <2> SUFFICES ASSUME NEW i \in 1..n-1, NEW j \in i..n-1, DiffsOnly(i + 1, j)'
               PROVE  j - i < FullStateInterval
    OBVIOUS
  <2>1. i + 1 \in 1..n /\ j + 1 \in i+1..n /\ j \in 0..n-1 /\ DiffsOnly((i + 1) + 1, j + 1)
    BY <1>3
  <2> QED
    BY <2>1 DEF RunInv
<1>7. connected' /\ DiffsOnly(1, n - 1)' => diffRun' + (n - 1) < sinceFull'
  <2> SUFFICES ASSUME connected', DiffsOnly(1, n - 1)'
               PROVE  diffRun' + (n - 1) < sinceFull'
    OBVIOUS
  <2>1. n - 1 \in 0..n-1 /\ (n - 1) + 1 = n /\ 1 \in 1..n
    BY <1>0
  <2>2. DiffsOnly(1 + 1, n) /\ (wire[1].type = "diff" => DiffsOnly(1, n))
    BY <1>4, <2>1
  <2>3. CASE wire[1].type = "full"
    BY <2>1, <2>2, <2>3, <1>0 DEF RunInv
  <2>4. CASE wire[1].type = "diff"
    BY <2>1, <2>2, <2>4, <1>0 DEF RunInv
  <2> QED
    BY <1>1, <2>3, <2>4
<1>8. \A i \in 1..n-1 : DiffsOnly(i + 1, n - 1)' => n - 1 - i < sinceFull'
  <2> SUFFICES ASSUME NEW i \in 1..n-1, DiffsOnly(i + 1, n - 1)'
               PROVE  n - 1 - i < sinceFull'
    OBVIOUS
  <2>1. i + 1 \in 1..n /\ n - 1 \in 0..n-1 /\ (n - 1) + 1 = n
    OBVIOUS
  <2>2. DiffsOnly((i + 1) + 1, n)
    BY <1>3, <2>1
  <2> QED
    BY <2>1, <2>2 DEF RunInv
<1>9. /\ \A j \in 0..Len(wire') : DiffsOnly(1, j)' => diffRun' + j < FullStateInterval
      /\ \A i \in 1..Len(wire') : \A j \in i..Len(wire') :
            DiffsOnly(i + 1, j)' => j - i < FullStateInterval
  BY <1>2, <1>5, <1>6, Zenon
<1>10. connected' /\ DiffsOnly(1, Len(wire))' => diffRun' + Len(wire') < sinceFull'
  BY <1>2, <1>7
<1>11. \A i \in 1..Len(wire') : DiffsOnly(i + 1, Len(wire))' => Len(wire') - i < sinceFull'
  BY <1>2, <1>8
<1> QED
  BY <1>9, <1>10, <1>11, Zenon DEF RunInv

\* An empty wire leaves only the client's own stretch to bound.
LEMMA RunEmpty ==
    ASSUME diffRun' \in Nat, sinceFull' \in Nat, wire' = <<>>,
           diffRun' < FullStateInterval, connected' => diffRun' < sinceFull'
    PROVE  RunInv'
<1>1. \A d, k \in Nat : d < k => d + 0 < k /\ \A j \in 0..0 : d + j < k
  OBVIOUS
<1>2. FullStateInterval \in Nat
  BY StreamAssumption
<1>3. Len(wire') = 0
  OBVIOUS
<1>4. \A j \in 0..Len(wire') : diffRun' + j < FullStateInterval
  BY <1>1, <1>2, <1>3, Zenon
<1>5. connected' => diffRun' + Len(wire') < sinceFull'
  BY <1>1, <1>3, Zenon
<1>6. 1..Len(wire') = {}
  BY <1>3
<1> QED
  BY <1>4, <1>5, <1>6, Zenon DEF RunInv

\* Every step of the pipeline keeps stretches without a full state bounded.
LEMMA RunInductive ==
    ASSUME GenuineInv, RunInv, [Next]_vars
    PROVE  RunInv'
<1> USE WireFacts DEF GenuineInv
<1>1. CASE UNCHANGED <<connected, sinceFull, wire, diffRun>>
  BY <1>1 DEF RunInv, DiffsOnly
<1>2. CASE \/ Broadcast \/ StoreLastView \/ InitialView \/ DiffFails \/ Consume
  BY <1>1, <1>2 DEF Broadcast, StoreLastView, InitialView, DiffFails, Consume,
     streamerVars, ghostVars
<1>3. CASE UNCHANGED vars
  BY <1>1, <1>3 DEF vars, streamerVars, ghostVars
<1>4. ASSUME NEW s, Publish(s) PROVE RunInv'
  BY <1>1, <1>4 DEF Publish, streamerVars, ghostVars
<1>5. CASE Connect
  BY <1>5, RunEmpty DEF Connect
<1>6. CASE Disconnect
  <2>1. diffRun < FullStateInterval
    <3>1. 0 \in 0..Len(wire) /\ DiffsOnly(1, 0)
      BY DEF DiffsOnly
    <3> QED
      BY <3>1 DEF RunInv
  <2> QED
    BY <1>6, <2>1, RunEmpty DEF Disconnect, ghostVars
<1>7. CASE StreamFull
  <2>1. Full(Head(chan)).type = "full"
    BY DEF Full
  <2> QED
    BY <1>7, <2>1, RunAppend DEF StreamFull, Streamed
<1>8. CASE StreamDiff
  <2>1. DiffTo(Head(chan)).type = "diff"
    BY DEF DiffTo
  <2> QED
    BY <1>8, <2>1, RunAppend DEF StreamDiff, Streamed, CanDiff
<1>9. CASE HandleFull \/ HandleDiff \/ Undecodable
  <2>1. /\ UNCHANGED <<connected, sinceFull>> /\ wire # <<>> /\ wire' = Tail(wire)
        /\ diffRun' = IF Head(wire).type = "full" THEN 0 ELSE diffRun + 1
    BY <1>9 DEF HandleFull, HandleDiff, Undecodable, streamerVars
  <2> QED
    BY <2>1, RunTake
<1> QED
  BY <1>2, <1>3, <1>4, <1>5, <1>6, <1>7, <1>8, <1>9 DEF Next, Engine, Server, Client

\* blocksSinceFullState never lets FullStateInterval diffs pass in a row, so
\* a client that lost its base gets a new one before that many messages.
THEOREM ResyncBounded == Spec => []ResyncBound
<1>1. Init => RunInv
  <2> SUFFICES ASSUME Init PROVE RunInv
    OBVIOUS
  <2>1. Len(wire) = 0
    BY DEF Init
  <2> QED
    BY <2>1, StreamAssumption DEF Init, RunInv
<1>2. GenuineInv /\ RunInv /\ [Next]_vars => RunInv'
  BY RunInductive
<1>3. GenuineInv /\ RunInv => ResyncBound
  <2> SUFFICES ASSUME GenuineInv, RunInv PROVE ResyncBound
    OBVIOUS
  <2>1. 0 \in 0..Len(wire) /\ DiffsOnly(1, 0) /\ diffRun \in Nat
    BY WireFacts DEF DiffsOnly, GenuineInv
  <2> QED
    BY <2>1 DEF RunInv, ResyncBound
<1> QED
  BY <1>1, <1>2, <1>3, InitGenuine, GenuineInductive, PTL DEF Spec
=============================================================================
