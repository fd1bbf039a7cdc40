---------------------------- MODULE TokenAnalyzer ----------------------------
(***************************************************************************)
(* token-analyzer/, fork/anvil-forker and the hook of the registry manager *)
(* that feeds them: how a token becomes known, and how its fee stays true. *)
(*                                                                         *)
(*   RegisterPool   puts the pool on the allow list, then fails while a    *)
(*                  token of the pool is unknown (registry_manager.go);    *)
(*   Extract        the transfers of a block, by allowed senders, become   *)
(*                  records: a holder for each token (LiveExtractor,       *)
(*                  VolumeAnalyzer);                                       *)
(*   Cycle ...      the fee loop asks the fork to move each token from its *)
(*                  holder, and adds or updates the token (Analyzer,       *)
(*                  ERC20FeeAndGasRequester, ERC20Initializer);            *)
(*   ForkReset ...  the fork follows the chain, BlocksBehind blocks late.  *)
(*                                                                         *)
(* A pool holds all of the tokens, or was drained of them.  A fee is a     *)
(* token and the version of its contract's fee.  Time is the set of        *)
(* records older than RecordStaleDuration and the set of tokens checked    *)
(* less than MinTokenUpdateInterval ago.                                   *)
(***************************************************************************)
EXTENDS TokenSystem, FiniteSets

CONSTANTS
    Setups,         \* what is tried: see Tokens to Overridden below
    MaxConcurrent,  \* capacity of the requester's semaphore
    Failed          \* a FeeAndGasResult with its Error set

ASSUME AnalyzerAssumption ==
    /\ MaxConcurrent \in Nat \ {0}
    /\ \A s \in Setups : s.drains < Cardinality(s.pools) /\ s.volumes \subseteq Nat

VARIABLES
    setup,          \* the member of Setups at hand
    history,        \* the states of the chain so far: who holds tokens, the fees
    behind,         \* the one BlocksBehind blocks ago
    allow,          \* erc20AnalyzerAllowlist
    registered,     \* the pools in the pool registry
    records,        \* VolumeAnalyzer.records: holder and amount of a token
    stale,          \* the tokens whose record is older than RecordStaleDuration
    registry,       \* the TokenSystem
    checked,        \* the tokens with a recent lastFeeAndGasCheck
    loop,           \* the fee loop: "select", "request", "update" or "done"
    asked,          \* RequestAll: the tokens not yet requested, with their holders
    flight,         \* RequestAll: those that hold a slot of the semaphore
    results,        \* the results of RequestAll still to be collected or applied
    upd,            \* updateTokens: the token it holds a TokenView of, with the ID
    fork,           \* the fork: whether anvil runs, its balances and its fees
    running,        \* the other goroutines: "extractor", "expiry" and "fork"
    cancelled,      \* ctx is done
    crashed,        \* a goroutine panicked: the process is gone
    budget          \* bound: changes of the chain, deletions and failed calls left

chainVars == <<history, behind>>
poolVars == <<allow, registered>>
holderVars == <<records, stale>>
loopVars == <<checked, loop, asked, flight, results, upd>>
lifeVars == <<running, cancelled, crashed>>
vars == <<setup, chainVars, poolVars, holderVars, registry, loopVars, fork, lifeVars, budget>>

Tokens == setup.tokens          \* the tokens of each pool
Pools == setup.pools
Volumes == setup.volumes        \* amounts a pool can send in a block
Ages == setup.ages              \* whether records grow old
Overridden == setup.overridden  \* the tokens configured in TokenOverrides

Configured == 9                 \* their fee: no version of a contract's

chain == history[Len(history)]

Init ==
    /\ setup \in Setups
    /\ history = <<[holds |-> Pools, fee |-> [t \in Tokens |-> 0]]>> /\ behind = 1
    /\ allow = {} /\ registered = {}
    /\ records = <<>> /\ stale = {}
    /\ registry = NewTokenRegistry
    /\ checked = {}
    /\ loop = "select" /\ asked = <<>> /\ flight = <<>> /\ results = <<>> /\ upd = <<>>
    /\ fork = [state |-> "off", holds |-> {}, fee |-> [t \in Tokens |-> 0]]
    /\ running = {"extractor", "expiry", "fork"} /\ cancelled = FALSE /\ crashed = FALSE
    /\ budget = [drains |-> setup.drains, fees |-> setup.fees, deletes |-> setup.deletes,
                 faults |-> setup.faults]

Spend(what) == budget[what] > 0 /\ budget' = [budget EXCEPT ![what] = @ - 1]

----------------------------------------------------------------------------
\* The chain.

\* The last tokens of pool p leave it.
Drain(p) ==
    /\ p \in chain.holds
    /\ Spend("drains")
    /\ history' = Append(history, [chain EXCEPT !.holds = @ \ {p}])
    /\ UNCHANGED <<behind, poolVars, holderVars, registry, loopVars, fork, lifeVars>>

\* The contract of token t changes the fee it takes.
ChangeFee(t) ==
    /\ Spend("fees")
    /\ history' = Append(history, [chain EXCEPT !.fee[t] = @ + 1])
    /\ UNCHANGED <<behind, poolVars, holderVars, registry, loopVars, fork, lifeVars>>

\* The block the fork looks at moves past the next change of the chain.
Settle ==
    /\ behind < Len(history)
    /\ behind' = behind + 1
    /\ UNCHANGED <<history, poolVars, holderVars, registry, loopVars, fork, lifeVars, budget>>

\* ctx is cancelled.
Cancel ==
    /\ setup.cancels /\ ~cancelled
    /\ cancelled' = TRUE
    /\ UNCHANGED <<chainVars, poolVars, holderVars, registry, loopVars, fork, running,
                   crashed, budget>>

----------------------------------------------------------------------------
\* Registration of pools.

Known == DOMAIN registry.addressToID

addPoolToAllowedList(p) == allow' = allow \cup {p}

isAllowedAddressForAnalyzer(p) == p \in allow

\* Mutant: the hook runs once the tokens were found.
RegisterPoolHookLast(p) ==
    /\ p \in chain.holds \ registered
    /\ Tokens \subseteq Known
    /\ addPoolToAllowedList(p)
    /\ registered' = registered \cup {p}
    /\ UNCHANGED <<chainVars, holderVars, registry, loopVars, fork, lifeVars, budget>>

\* A pool that trades and is not registered is offered to RegisterPool again.
RegisterPool(p) ==
    /\ p \in chain.holds \ registered
    /\ addPoolToAllowedList(p)
    /\ registered' = IF Tokens \subseteq Known THEN registered \cup {p} ELSE registered
    /\ UNCHANGED <<chainVars, holderVars, registry, loopVars, fork, lifeVars, budget>>

\* A caller of TokenSystem deletes a token.
DeleteToken(id) ==
    /\ Spend("deletes")
    /\ CanFind(registry, id)
    /\ registry' = deleteToken(registry, id)
    /\ UNCHANGED <<chainVars, poolVars, holderVars, loopVars, fork, lifeVars>>

----------------------------------------------------------------------------
\* Holders.

\* A block: what each sender moved of each token, in all.  A pool that holds
\* nothing can still send an amount of 0.
Blocks == UNION {[S -> Volumes] : S \in SUBSET (Tokens \X Pools)}

Possible(b) == \A x \in DOMAIN b : b[x] > 0 => x[2] \in chain.holds

\* The sender with the largest total for each token, among the allowed ones.
\* Which of two equal senders wins is up to the order of a Go map.
ExtractMaxTotalVolumeTransferrer(b) ==
    LET seen == {x \in DOMAIN b : isAllowedAddressForAnalyzer(x[2])}
        MaxOf(t) == {x \in seen : x[1] = t /\ \A y \in seen : y[1] = t => b[y] <= b[x]}
    IN  {[t \in {x[1] : x \in seen} |-> [holder |-> c[t][2], amount |-> b[c[t]]]] :
            c \in {c \in [{x[1] : x \in seen} -> seen] : \A t \in DOMAIN c : c[t] \in MaxOf(t)}}

Replaces(t, new) ==
    t \in DOMAIN new /\ (t \in DOMAIN records => new[t].amount > records[t].amount)

MergeMaxTransferRecords(new) ==
    [t \in DOMAIN records \cup DOMAIN new |-> IF Replaces(t, new) THEN new[t] ELSE records[t]]

\* VolumeAnalyzer.Update, under its lock.
Update(b) ==
    \E new \in ExtractMaxTotalVolumeTransferrer(b) :
        /\ records' = MergeMaxTransferRecords(new)
        /\ stale' = {t \in stale : ~Replaces(t, new)}

\* The extractor gets a block, and its logs from the node.  A block that the
\* bloom test, the node or a full channel loses changes nothing here.
Extract(b) ==
    /\ "extractor" \in running
    /\ Possible(b)
    /\ Update(b)
    /\ UNCHANGED <<chainVars, poolVars, registry, loopVars, fork, lifeVars, budget>>

\* RecordStaleDuration passes for the record of t.
Age(t) ==
    /\ Ages /\ t \in DOMAIN records \ stale
    /\ stale' = stale \cup {t}
    /\ UNCHANGED <<chainVars, poolVars, records, registry, loopVars, fork, lifeVars, budget>>

\* Mutant: a stale record gets a new time and keeps its amount.
resetStaleRecordsKeepsAmount ==
    /\ "expiry" \in running
    /\ stale # {}
    /\ stale' = {}
    /\ UNCHANGED <<chainVars, poolVars, records, registry, loopVars, fork, lifeVars, budget>>

\* A stale record keeps its holder, with an amount that any trade exceeds.
resetStaleRecords ==
    /\ "expiry" \in running
    /\ stale # {}
    /\ records' = [t \in DOMAIN records |->
                     IF t \in stale THEN [records[t] EXCEPT !.amount = 0] ELSE records[t]]
    /\ stale' = {}
    /\ UNCHANGED <<chainVars, poolVars, registry, loopVars, fork, lifeVars, budget>>

\* The extractor and the expiry ticker see ctx done.
Stop(g) ==
    /\ cancelled /\ g \in running \cap {"extractor", "expiry"}
    /\ running' = running \ {g}
    /\ UNCHANGED <<chainVars, poolVars, holderVars, registry, loopVars, fork, cancelled,
                   crashed, budget>>

----------------------------------------------------------------------------
\* The fork.

\* A block reaches the fork: anvil is started, or reset, at the block that is
\* BlocksBehind older.  A failed start or reset leaves it as it was.
ForkReset ==
    /\ "fork" \in running
    /\ fork' = [state |-> "on", holds |-> history[behind].holds \X Tokens,
                fee |-> history[behind].fee]
    /\ UNCHANGED <<chainVars, poolVars, holderVars, registry, loopVars, lifeVars, budget>>

ForkStop ==
    /\ "fork" \in running /\ cancelled
    /\ fork' = [fork EXCEPT !.state = "stopped"]
    /\ running' = running \ {"fork"}
    /\ UNCHANGED <<chainVars, poolVars, holderVars, registry, loopVars, cancelled, crashed,
                   budget>>

\* FanOutBlock closes newBlockC when ctx is done; the loop, if it selects the
\* closed channel rather than ctx.Done(), reads the number of a nil block.
ForkNilBlock ==
    /\ "fork" \in running /\ cancelled
    /\ crashed' = TRUE
    /\ UNCHANGED <<chainVars, poolVars, holderVars, registry, loopVars, fork, running,
                   cancelled, budget>>

----------------------------------------------------------------------------
\* The fee loop.

\* MinTokenUpdateInterval passes since t was last checked.
IntervalPasses(t) ==
    /\ t \in checked
    /\ checked' = checked \ {t}
    /\ UNCHANGED <<chainVars, poolVars, holderVars, registry, loop, asked, flight, results,
                   upd, fork, lifeVars, budget>>

filterTokensRequiringUpdate ==
    [t \in DOMAIN records \ checked |-> records[t].holder]

\* The ticker fires, or the loop starts, with a token to check.  Once ctx is
\* done RequestAll fails at once.
Cycle ==
    /\ loop = "select" /\ ~cancelled
    /\ DOMAIN filterTokensRequiringUpdate # {}
    /\ loop' = "request" /\ asked' = filterTokensRequiringUpdate
    /\ UNCHANGED <<chainVars, poolVars, holderVars, registry, checked, flight, results, upd,
                   fork, lifeVars, budget>>

Launch(t) ==
    /\ loop = "request" /\ ~cancelled
    /\ t \in DOMAIN asked
    /\ Cardinality(DOMAIN flight) < MaxConcurrent
    /\ asked' = Without(asked, t) /\ flight' = With(flight, t, asked[t])
    /\ UNCHANGED <<chainVars, poolVars, holderVars, registry, checked, loop, results, upd,
                   fork, lifeVars, budget>>

\* The goroutine of t stores its result and frees its slot.
Return(t, result) ==
    /\ t \in DOMAIN flight
    /\ flight' = Without(flight, t) /\ results' = With(results, t, result)
    /\ UNCHANGED <<chainVars, poolVars, holderVars, registry, checked, loop, asked, upd,
                   lifeVars>>

CanSimulate(t) ==
    fork.state = "on" /\ t \notin Overridden /\ <<flight[t], t>> \in fork.holds

\* Three hops, from the holder over two fresh addresses back to the holder;
\* an overridden token is not simulated.
SimulateTokenTransfer(t) ==
    \/ /\ t \in DOMAIN flight /\ CanSimulate(t)
       /\ Return(t, <<t, fork.fee[t]>>)
       /\ UNCHANGED <<fork, budget>>
    \/ /\ t \in DOMAIN flight \cap Overridden
       /\ Return(t, <<t, Configured>>)
       /\ UNCHANGED <<fork, budget>>

\* A hop after the first fails: the tokens stay where they are on the fork,
\* and the holder has none until the next reset.
HopFails(t) ==
    /\ t \in DOMAIN flight /\ CanSimulate(t)
    /\ Spend("faults")
    /\ fork' = [fork EXCEPT !.holds = @ \ {<<flight[t], t>>}]
    /\ Return(t, Failed)

\* anvil does not run, the holder has nothing, ctx is done, or a call fails.
RequestFails(t) ==
    /\ t \in DOMAIN flight
    /\ \/ ~CanSimulate(t) /\ t \notin Overridden /\ UNCHANGED budget
       \/ cancelled /\ UNCHANGED budget
       \/ Spend("faults")
    /\ Return(t, Failed)
    /\ UNCHANGED fork

\* Mutant: RequestAll goes on waiting for the requests it did not start.
CollectAll ==
    /\ loop = "request"
    /\ DOMAIN flight = {} /\ DOMAIN asked = {}
    /\ loop' = "update"
    /\ UNCHANGED <<chainVars, poolVars, holderVars, registry, checked, asked, flight, results,
                   upd, fork, lifeVars, budget>>

\* RequestAll returns; what it did not start because ctx is done has failed.
Collect ==
    /\ loop = "request"
    /\ DOMAIN flight = {} /\ (cancelled \/ DOMAIN asked = {})
    /\ loop' = "update"
    /\ results' = [t \in DOMAIN results \cup DOMAIN asked |->
                     IF t \in DOMAIN results THEN results[t] ELSE Failed]
    /\ asked' = <<>>
    /\ UNCHANGED <<chainVars, poolVars, holderVars, registry, checked, flight, upd, fork,
                   lifeVars, budget>>

Applying(t) == loop = "update" /\ upd = <<>> /\ t \in DOMAIN results

\* updateTokens leaves t for a later cycle: its request failed, or t is new
\* and the calls for its name, symbol and decimals do.
SkipToken(t) ==
    /\ Applying(t)
    /\ \/ results[t] = Failed /\ UNCHANGED budget
       \/ results[t] # Failed /\ t \notin Known /\ cancelled /\ UNCHANGED budget
       \/ results[t] # Failed /\ t \notin Known /\ Spend("faults")
    /\ results' = Without(results, t)
    /\ UNCHANGED <<chainVars, poolVars, holderVars, registry, checked, loop, asked, flight,
                   upd, fork, lifeVars>>

GetTokenByAddress(t) ==
    /\ Applying(t) /\ results[t] # Failed
    /\ t \in Known
    /\ upd' = <<t, getTokenByAddress(registry, t).id>>
    /\ UNCHANGED <<chainVars, poolVars, holderVars, registry, checked, loop, asked, flight,
                   results, fork, lifeVars, budget>>

\* The token is new: Initialize fetches its metadata and adds it.
Initialize(t) ==
    /\ Applying(t) /\ results[t] # Failed
    /\ CanAdd(registry, t) /\ ~cancelled
    /\ registry' = addToken(registry, t)
    /\ upd' = <<t, registry.nextID>>
    /\ UNCHANGED <<chainVars, poolVars, holderVars, checked, loop, asked, flight, results,
                   fork, lifeVars, budget>>

\* The token may be gone since its ID was read: then it is not marked checked.
UpdateToken ==
    /\ upd # <<>>
    /\ LET t == upd[1]  id == upd[2]
       IN  /\ IF CanFind(registry, id)
              THEN /\ registry' = updateToken(registry, id, results[t])
                   /\ checked' = checked \cup {t}
              ELSE UNCHANGED <<registry, checked>>
           /\ results' = Without(results, t)
    /\ upd' = <<>>
    /\ UNCHANGED <<chainVars, poolVars, holderVars, loop, asked, flight, fork, lifeVars,
                   budget>>

UpdateDone ==
    /\ loop = "update" /\ upd = <<>> /\ DOMAIN results = {}
    /\ loop' = "select"
    /\ UNCHANGED <<chainVars, poolVars, holderVars, registry, checked, asked, flight, results,
                   upd, fork, lifeVars, budget>>

LoopStop ==
    /\ loop = "select" /\ cancelled
    /\ loop' = "done"
    /\ UNCHANGED <<chainVars, poolVars, holderVars, registry, checked, asked, flight, results,
                   upd, fork, lifeVars, budget>>

----------------------------------------------------------------------------

LoopStep(t) ==
    \/ Launch(t)
    \/ SimulateTokenTransfer(t) \/ HopFails(t) \/ RequestFails(t)
    \/ SkipToken(t) \/ GetTokenByAddress(t) \/ Initialize(t)

LoopControl == Cycle \/ Collect \/ UpdateToken \/ UpdateDone \/ LoopStop

Next ==
    /\ ~crashed
    /\ UNCHANGED setup
    /\ \/ \E p \in Pools : Drain(p) \/ RegisterPool(p)
       \/ \E t \in Tokens : ChangeFee(t) \/ Age(t) \/ IntervalPasses(t) \/ LoopStep(t)
       \/ Settle \/ Cancel
       \/ \E id \in DOMAIN registry.idToIndex : DeleteToken(id)
       \/ \E b \in Blocks : Extract(b)
       \/ resetStaleRecords
       \/ \E g \in running : Stop(g)
       \/ ForkReset \/ ForkStop \/ ForkNilBlock
       \/ LoopControl

Spec == Init /\ [][Next]_vars

\* A pool that holds tokens trades each of them in blocks that reach the
\* extractor, and is offered for registration again and again.
Trades(p) == \E b \in Blocks : (\A t \in Tokens : <<t, p>> \in DOMAIN b /\ b[<<t, p>>] > 0)
                               /\ Extract(b)

\* Fairness: goroutines that can go on do, the clock advances, blocks arrive
\* and calls are answered; from some time on (setup.faults) without an error.
Fairness ==
    /\ \A p \in UNION {s.pools : s \in Setups} :
          /\ WF_vars(~crashed /\ p \in Pools /\ UNCHANGED setup /\ Trades(p))
          /\ WF_vars(~crashed /\ p \in Pools /\ UNCHANGED setup /\ RegisterPool(p))
    /\ \A t \in UNION {s.tokens : s \in Setups} :
          /\ WF_vars(~crashed /\ t \in Tokens /\ UNCHANGED setup /\ IntervalPasses(t))
          /\ WF_vars(~crashed /\ t \in Tokens /\ UNCHANGED setup /\ Age(t))
    /\ WF_vars(~crashed /\ UNCHANGED setup /\ (LoopControl \/ \E t \in Tokens : LoopStep(t)))
    /\ WF_vars(~crashed /\ UNCHANGED setup /\ resetStaleRecords)
    /\ WF_vars(~crashed /\ UNCHANGED setup /\ \E g \in running : Stop(g))
    /\ WF_vars(~crashed /\ UNCHANGED setup /\ Settle)
    /\ WF_vars(~crashed /\ UNCHANGED setup /\ (ForkReset \/ ForkStop \/ ForkNilBlock))

LiveSpec == Spec /\ Fairness

----------------------------------------------------------------------------
\* Properties.

Partial(S, T) == UNION {[D -> T] : D \in SUBSET S}
Fees == (Tokens \X {0, 1, Configured}) \cup {NoFee}

\* Types, and RequestAll's semaphore: never more requests than it has slots.
TypeOK ==
    /\ behind \in DOMAIN history
    /\ registered \subseteq allow /\ allow \subseteq Pools
    /\ records \in Partial(Tokens, [holder : allow, amount : Volumes \cup {0}])
    /\ stale \subseteq DOMAIN records /\ checked \subseteq Tokens
    /\ loop \in {"select", "request", "update", "done"}
    /\ asked \in Partial(Tokens, allow) /\ flight \in Partial(Tokens, allow)
    /\ \A t \in DOMAIN results : results[t] = Failed \/ results[t] \in Fees \ {NoFee}
    /\ \A i \in DOMAIN registry.rows :
          registry.rows[i].address \in Tokens /\ registry.rows[i].fee \in Fees
    /\ fork.state \in {"off", "on", "stopped"} /\ fork.holds \subseteq Pools \X Tokens
    /\ Cardinality(DOMAIN flight) <= MaxConcurrent

\* The maps of the token registry, kept up to date by addToken and the swap
\* of deleteToken, are those NewTokenRegistryFromViews builds from its view;
\* and the IDs a restored registry hands out are not ahead of the original's.
IndexesRebuild ==
    LET r == FromViews(viewRegistry(registry))
    IN  /\ [r EXCEPT !.nextID = registry.nextID] = registry
        /\ r.nextID <= registry.nextID

\* Types; the rows and maps of the token registry belong together; and a token's
\* fee in it was measured for that very token, on a state of the chain the fork
\* has reached, whatever was deleted between the lookup of the token, the
\* measurement and UpdateToken.
FeesWereMeasured ==
    /\ TypeOK /\ IndexesRebuild
    /\ \A i \in DOMAIN registry.rows :
          LET row == registry.rows[i]
          IN  \/ row.fee = NoFee
              \/ row.fee = <<row.address, Configured>>
              \/ \E k \in 1..behind : row.fee = <<row.address, history[k].fee[row.address]>>

\* A pool that goes on trading is registered in the end, although RegisterPool
\* needs its tokens, the tokens are found from transfers of allowed pools
\* only, and the pool is allowed by RegisterPool: the hook comes first.
TradingPoolIsRegistered == <>[](chain.holds \subseteq registered \/ cancelled)

Current(t) ==
    /\ t \in Known
    /\ \/ t \in Overridden
       \/ getTokenByAddress(registry, t).fee = <<t, chain.fee[t]>>

\* As long as one pool trades a token, the token becomes known and its fee in
\* the registry catches up with the contract's: also when the recorded holder
\* was drained after its largest transfer, or lost its tokens on the fork.
FeesCatchUp == <>[]((\A t \in Tokens : Current(t)) \/ cancelled)

\* When ctx is done the fee loop, the extractor, the expiry ticker and the
\* fork end, in whatever state RequestAll was (or the process is gone).
ShutdownStops == cancelled ~> (crashed \/ (loop = "done" /\ running = {}))
=============================================================================
