---------------------------- MODULE ClientManager ----------------------------
(***************************************************************************)
(* clients/eth-clients: the clients of the nodes, each with a health check *)
(* goroutine and a semaphore that bounds its concurrent calls, and the     *)
(* client manager that hands them out in turn to the callers.              *)
(*                                                                         *)
(* The maximum of the latest block numbers is read in one step, and a      *)
(* successful check stores the number and the health in one: in between, a *)
(* client looks like one that failed after its last success.  Latencies    *)
(* and GetPreferredClient are left out.                                    *)
(***************************************************************************)
EXTENDS Integers, FiniteSets, FiniteSetsExt

CONSTANTS
    NumClients,             \* len(cm.clients)
    MaxConcurrentETHCalls,  \* the slots of a client's semaphore
    Callers,                \* goroutines that call GetClient
    Method,                 \* the method each of them calls on the client
    MaxHeight,              \* bound: blocks of the chain
    MaxCalls,               \* bound: calls of the callers
    MaxFaults               \* bound: calls that fail

ASSUME ClientAssumptions ==
    /\ NumClients \in Nat \ {0}
    /\ MaxConcurrentETHCalls \in Nat \ {0}
    /\ MaxHeight \in Nat /\ MaxCalls \in Nat /\ MaxFaults \in Nat

VARIABLES
    height,             \* the head of each node
    faults, calls,      \* failures and calls so far
    healthy,            \* Client.healthy
    latestBlockNumber,  \* Client.latestBlockNumber
    semaphore,          \* who holds a slot of each client
    check,              \* the state of each health check goroutine
    counter,            \* ClientManager.counter
    caller,             \* the state of each caller
    done                \* the clients' contexts are cancelled

clientVars == <<height, faults, calls, healthy, latestBlockNumber, semaphore, check, counter, caller, done>>

clients == 1..NumClients

-----------------------------------------------------------------------------
(* The methods of ETHClientWithMaxConcurrentCalls.                         *)

BlockMethods == {"ChainID", "BlockByHash", "BlockByNumber", "BlockNumber", "PeerCount",
                 "BlockReceipts", "HeaderByHash", "HeaderByNumber"}
TransactionMethods == {"TransactionByHash", "TransactionSender", "TransactionCount",
                       "TransactionInBlock", "TransactionReceipt", "SyncProgress", "SubscribeNewHead",
                       "NetworkID"}
AccountMethods == {"BalanceAt", "BalanceAtHash", "StorageAt", "StorageAtHash", "CodeAt", "CodeAtHash",
                   "NonceAt", "NonceAtHash"}
FilterMethods == {"FilterLogs", "SubscribeFilterLogs"}
PendingMethods == {"PendingBalanceAt", "PendingStorageAt", "PendingCodeAt", "PendingNonceAt",
                   "PendingTransactionCount", "CallContractAtHash", "PendingCallContract"}
GasMethods == {"SuggestGasPrice", "SuggestGasTipCap", "FeeHistory", "EstimateGas"}

\* The methods that take a slot; SendTransaction, Close and Client do not.
Limited == {"CallContract"} \cup BlockMethods \cup TransactionMethods \cup AccountMethods
             \cup FilterMethods \cup PendingMethods \cup GasMethods

hasSlot(c) == Cardinality(semaphore[c]) < MaxConcurrentETHCalls

-----------------------------------------------------------------------------
(* The health checks.  alone is history: the counter, the health and the   *)
(* numbers have not been changed by anyone else since a caller's GetClient *)
(* began.                                                                  *)

IdleCaller == [pc |-> "idle", alone |-> FALSE]

Disturb(ps) == [p \in Callers |-> [caller[p] EXCEPT !.alone = @ /\ p \notin ps]]

\* The ticker fires and there is a slot.
CheckAcquire(c) ==
    /\ check[c] = "idle" /\ hasSlot(c)
    /\ semaphore' = [semaphore EXCEPT ![c] = @ \cup {"check"}]
    /\ check' = [check EXCEPT ![c] = "call"]
    /\ UNCHANGED <<height, faults, calls, healthy, latestBlockNumber, counter, caller, done>>

CheckFailed(c, next) ==
    /\ healthy' = [healthy EXCEPT ![c] = FALSE]
    /\ semaphore' = [semaphore EXCEPT ![c] = @ \ {"check"}]
    /\ check' = [check EXCEPT ![c] = next]
    /\ caller' = Disturb(Callers)
    /\ UNCHANGED <<height, calls, latestBlockNumber, counter, done>>

\* No slot before the timeout, or the client is closed: the check fails
\* without having reached the node.
CheckTimeout(c) ==
    /\ check[c] = "idle" /\ (done \/ ~hasSlot(c))
    /\ CheckFailed(c, "idle")
    /\ UNCHANGED faults

\* Mutant: a failed check ends the goroutine.
CheckFailExits(c) ==
    /\ check[c] = "call" /\ (done \/ faults < MaxFaults)
    /\ faults' = IF done THEN faults ELSE faults + 1
    /\ CheckFailed(c, "stopped")

\* BlockNumber fails; the number of the last success stays.
CheckFail(c) ==
    /\ check[c] = "call" /\ (done \/ faults < MaxFaults)
    /\ faults' = IF done THEN faults ELSE faults + 1
    /\ CheckFailed(c, "idle")

CheckOK(c) ==
    /\ check[c] = "call"
    /\ latestBlockNumber' = [latestBlockNumber EXCEPT ![c] = height[c]]
    /\ healthy' = [healthy EXCEPT ![c] = TRUE]
    /\ semaphore' = [semaphore EXCEPT ![c] = @ \ {"check"}]
    /\ check' = [check EXCEPT ![c] = "idle"]
    /\ caller' = Disturb(Callers)
    /\ UNCHANGED <<height, faults, calls, counter, done>>

\* monitorHealth returns when its context is done.
CheckStop(c) ==
    /\ check[c] = "idle" /\ done
    /\ check' = [check EXCEPT ![c] = "stopped"]
    /\ UNCHANGED <<height, faults, calls, healthy, latestBlockNumber, semaphore, counter, caller, done>>

-----------------------------------------------------------------------------
(* GetClient, and a call on the client it returns.                         *)

maxBlock == Max({latestBlockNumber[c] : c \in clients} \cup {0})

GetClient(p) ==
    /\ caller[p].pc = "idle" /\ calls < MaxCalls
    /\ calls' = calls + 1
    /\ caller' = [caller EXCEPT ![p] = [pc |-> "best", i |-> 0, latest |-> maxBlock, alone |-> TRUE]]
    /\ UNCHANGED <<height, faults, healthy, latestBlockNumber, semaphore, check, counter, done>>

\* getClient: the next client in turn.
getClient == counter + 1

\* Mutant: the loops leave one client out.
TryClientShort(p) ==
    /\ caller[p].pc \in {"best", "any"}
    /\ counter' = (counter + 1) % NumClients
    /\ LET c    == getClient
           q    == caller[p]
           fits == healthy[c] /\ (q.pc = "best" => latestBlockNumber[c] >= q.latest)
       IN  caller' = [Disturb(Callers \ {p}) EXCEPT ![p] =
              CASE fits -> [pc |-> "got", c |-> c, alone |-> q.alone]
                [] ~fits /\ q.i + 2 < NumClients -> [q EXCEPT !.i = @ + 1]
                [] ~fits /\ q.i + 2 >= NumClients /\ q.pc = "best" -> [q EXCEPT !.pc = "any", !.i = 0]
                [] OTHER -> [pc |-> "failed", alone |-> q.alone]]
    /\ UNCHANGED <<height, faults, calls, healthy, latestBlockNumber, semaphore, check, done>>

\* One turn of the first loop, which wants a healthy client that has the
\* latest block, or of the second, which takes any healthy one.
TryClient(p) ==
    /\ caller[p].pc \in {"best", "any"}
    /\ counter' = (counter + 1) % NumClients
    /\ LET c    == getClient
           q    == caller[p]
           fits == healthy[c] /\ (q.pc = "best" => latestBlockNumber[c] >= q.latest)
       IN  caller' = [Disturb(Callers \ {p}) EXCEPT ![p] =
              CASE fits -> [pc |-> "got", c |-> c, alone |-> q.alone]
                [] ~fits /\ q.i + 1 < NumClients -> [q EXCEPT !.i = @ + 1]
                [] ~fits /\ q.i + 1 = NumClients /\ q.pc = "best" -> [q EXCEPT !.pc = "any", !.i = 0]
                [] OTHER -> [pc |-> "failed", alone |-> q.alone]]
    /\ UNCHANGED <<height, faults, calls, healthy, latestBlockNumber, semaphore, check, done>>

\* No client, or none of its slots before the context is done.
GiveUp(p) ==
    /\ \/ caller[p].pc = "failed"
       \/ caller[p].pc = "got" /\ Method[p] \in Limited /\ done
    /\ caller' = [caller EXCEPT ![p] = IdleCaller]
    /\ UNCHANGED <<height, faults, calls, healthy, latestBlockNumber, semaphore, check, counter, done>>

Acquire(p) ==
    /\ caller[p].pc = "got"
    /\ LET c == caller[p].c
           limited == Method[p] \in Limited
       IN  /\ limited => hasSlot(c)
           /\ semaphore' = IF limited THEN [semaphore EXCEPT ![c] = @ \cup {p}] ELSE semaphore
           /\ caller' = [caller EXCEPT ![p] = [pc |-> "call", c |-> c, alone |-> FALSE]]
    /\ UNCHANGED <<height, faults, calls, healthy, latestBlockNumber, check, counter, done>>

\* Mutant: the slot of a call that failed is not given back.
ReleaseOnSuccess(p, failed) ==
    /\ caller[p].pc = "call"
    /\ failed => faults < MaxFaults
    /\ faults' = IF failed THEN faults + 1 ELSE faults
    /\ semaphore' = IF failed THEN semaphore
                    ELSE [semaphore EXCEPT ![caller[p].c] = @ \ {p}]
    /\ caller' = [caller EXCEPT ![p] = IdleCaller]
    /\ UNCHANGED <<height, calls, healthy, latestBlockNumber, check, counter, done>>

\* The call returns, with an error or without one.
Release(p, failed) ==
    /\ caller[p].pc = "call"
    /\ failed => faults < MaxFaults
    /\ faults' = IF failed THEN faults + 1 ELSE faults
    /\ semaphore' = [semaphore EXCEPT ![caller[p].c] = @ \ {p}]
    /\ caller' = [caller EXCEPT ![p] = IdleCaller]
    /\ UNCHANGED <<height, calls, healthy, latestBlockNumber, check, counter, done>>

\* Close, or the context of the program is cancelled.
Close ==
    /\ ~done /\ done' = TRUE
    /\ UNCHANGED <<height, faults, calls, healthy, latestBlockNumber, semaphore, check, counter, caller>>

\* A node gets the next block.
NodeBlock(c) ==
    /\ height[c] < MaxHeight
    /\ height' = [height EXCEPT ![c] = @ + 1]
    /\ UNCHANGED <<faults, calls, healthy, latestBlockNumber, semaphore, check, counter, caller, done>>
-----------------------------------------------------------------------------
(* NewClientFromETHClient makes a first check before the manager exists.   *)

ClientInit ==
    /\ height = [c \in clients |-> IF c = 1 THEN MaxHeight ELSE 0]
    /\ healthy \in [clients -> BOOLEAN]
    /\ latestBlockNumber = [c \in clients |-> IF healthy[c] THEN height[c] ELSE 0]
    /\ faults = 0 /\ calls = 0 /\ counter = 0 /\ done = FALSE
    /\ semaphore = [c \in clients |-> {}]
    /\ check = [c \in clients |-> "idle"]
    /\ caller = [p \in Callers |-> IdleCaller]

performHealthCheck(c) ==
    CheckAcquire(c) \/ CheckTimeout(c) \/ CheckFail(c) \/ CheckOK(c)

monitorHealth(c) == performHealthCheck(c) \/ CheckStop(c)

Call(p) == TryClient(p) \/ GiveUp(p) \/ Acquire(p) \/ \E failed \in BOOLEAN : Release(p, failed)

ClientNext ==
    \/ \E c \in clients : monitorHealth(c) \/ NodeBlock(c)
    \/ \E p \in Callers : GetClient(p) \/ Call(p)
    \/ Close

\* The goroutines run: none stays for ever where it has a step to take.  The
\* senders blocked on a channel are served in turn, so a caller does not wait
\* for ever for a slot that is free again and again; a select with two cases
\* ready takes either, so a loop that is ready to return again and again does.
ClientFairness ==
    /\ \A c \in clients : /\ []<>(check[c] # "call")
                          /\ []<>~(check[c] = "idle" /\ (done \/ hasSlot(c)))
                          /\ SF_clientVars(CheckStop(c))
    /\ \A p \in Callers : []<>(caller[p].pc = "idle" \/ (caller[p].pc = "got" /\ Method[p] \in Limited))
    /\ \A p \in {o \in Callers : Method[o] \in Limited} :
          []<>(caller[p].pc = "got" /\ (done \/ hasSlot(caller[p].c))) => []<>(caller[p].pc # "got")

ClientSpec == ClientInit /\ [][ClientNext]_clientVars /\ ClientFairness

-----------------------------------------------------------------------------
(* Properties.                                                             *)

\* Types; the calls in flight on a client stay within its semaphore.
ClientTypeOK ==
    /\ height \in [clients -> 0..MaxHeight]
    /\ healthy \in [clients -> BOOLEAN]
    /\ latestBlockNumber \in [clients -> 0..MaxHeight]
    /\ counter \in 0..NumClients - 1
    /\ check \in [clients -> {"idle", "call", "stopped"}]
    /\ \A c \in clients : /\ semaphore[c] \subseteq Callers \cup {"check"}
                          /\ Cardinality(semaphore[c]) <= MaxConcurrentETHCalls

\* Types.  GetClient, when nothing interferes with it, fails only if no client is
\* healthy, and returns one that has the latest block if a healthy client has
\* it: after the first loop the second starts at the same client, so each loop
\* sees every client.
GetClientFinds ==
    /\ ClientTypeOK
    /\ \A p \in Callers : caller[p].alone =>
          /\ caller[p].pc = "failed" => \A c \in clients : ~healthy[c]
          /\ caller[p].pc = "got" =>
               LET best == {c \in clients : healthy[c] /\ latestBlockNumber[c] = maxBlock}
               IN  healthy[caller[p].c] /\ (best # {} => caller[p].c \in best)

\* Nothing waits for ever.  Every call returns, no slot being lost whatever way
\* the calls before ended; Close ends every health check goroutine and leaves
\* none of them with a slot.
CallsFinish ==
    /\ \A p \in Callers : caller[p].pc # "idle" ~> caller[p].pc = "idle"
    /\ done ~> \A c \in clients : check[c] = "stopped" /\ semaphore[c] \subseteq Callers

\* A client whose node answers is healthy again in the end, and knows the
\* node's block: failed checks, and checks that found no free slot, are
\* repeated.
HealthRecovers ==
    <>[](done \/ \A c \in clients : healthy[c] /\ latestBlockNumber[c] = height[c])
=============================================================================
