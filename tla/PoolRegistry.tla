----------------------------- MODULE PoolRegistry -----------------------------
(***************************************************************************)
(* protocols/pool-registry: PoolRegistry, its parallel slices and the two  *)
(* index maps that swap-and-pop deletion keeps in step, and PoolSystem,    *)
(* which locks it, runs operations in batches and caches a view for        *)
(* lock-free readers.  Slices are sequences: index i is i + 1 here.        *)
(***************************************************************************)
EXTENDS Naturals, Sequences

CONSTANTS
    Keys,           \* PoolKeys
    ProtocolIDs,    \* engine.ProtocolIDs
    MaxProto,       \* 65535, at which registerProtocol refuses
    MaxID,          \* bound: pool IDs given out
    MaxBatch        \* bound: operations in one batch

ASSUME RegistryAssumption == MaxProto \in Nat /\ MaxID \in Nat /\ MaxBatch \in Nat

VARIABLES
    reg,            \* PoolSystem.registry
    cachedView,     \* PoolSystem.cachedView
    batch,          \* operations the holder of the lock has still to run
    changed,        \* one of this batch succeeded
    issued          \* history: the last ID given out when the view was cached

vars == <<reg, cachedView, batch, changed, issued>>

Elements(s) == {s[i] : i \in DOMAIN s}

Extend(f, x, y) == [z \in DOMAIN f \cup {x} |-> IF z = x THEN y ELSE f[z]]

Without(f, x) == [z \in DOMAIN f \ {x} |-> f[z]]

NewPoolRegistry ==
    [id |-> <<>>, key |-> <<>>, protocol |-> <<>>,
     idToIndex |-> <<>>, keyToIndex |-> <<>>,
     protocolToInternal |-> <<>>, internalToProtocol |-> <<>>,
     blockList |-> {}, nextID |-> 1, nextProto |-> 0]

\* view(): the pools in slice order, and the protocol dictionary.
View(r) ==
    [pools |-> [i \in DOMAIN r.id |->
                   [id |-> r.id[i], key |-> r.key[i], protocol |-> r.protocol[i]]],
     protocols |-> r.internalToProtocol]

-----------------------------------------------------------------------------
(* PoolRegistry: operations as functions of the registry; one that returns *)
(* an error is not enabled by its Can... condition and changes nothing.    *)

\* registerProtocol fails: a new protocol and no number left.
ProtocolOverflow(r, pID) ==
    pID \notin DOMAIN r.protocolToInternal /\ r.nextProto = MaxProto

registerProtocol(r, pID) ==
    IF pID \in DOMAIN r.protocolToInternal
      THEN r
      ELSE [r EXCEPT !.protocolToInternal = Extend(@, pID, r.nextProto),
                     !.internalToProtocol = Extend(@, r.nextProto, pID),
                     !.nextProto = @ + 1]

CanAdd(r, k, pID) ==
    /\ k \notin r.blockList
    /\ k \in DOMAIN r.keyToIndex \/ ~ProtocolOverflow(r, pID)

addPool(r, k, pID) ==
    IF k \in DOMAIN r.keyToIndex
      THEN r
      ELSE LET q == registerProtocol(r, pID)
               n == Len(r.id) + 1
           IN  [q EXCEPT !.id = Append(@, r.nextID),
                         !.key = Append(@, k),
                         !.protocol = Append(@, q.protocolToInternal[pID]),
                         !.idToIndex = Extend(@, r.nextID, n),
                         !.keyToIndex = Extend(@, k, n),
                         !.nextID = @ + 1]

CanDelete(r, poolID) == poolID \in DOMAIN r.idToIndex

\* The last element takes the place of the deleted one.
SwapPop(s, d) == [i \in 1..(Len(s) - 1) |-> IF i = d THEN s[Len(s)] ELSE s[i]]

\* Mutant: the moved pool keeps its old index.
deletePoolStaleIndex(r, poolID) ==
    LET d == r.idToIndex[poolID]
    IN  [r EXCEPT !.id = SwapPop(@, d), !.key = SwapPop(@, d), !.protocol = SwapPop(@, d),
                  !.idToIndex = Without(Extend(@, r.id[Len(r.id)], d), poolID),
                  !.keyToIndex = Without(@, r.key[d])]

\* Mutant: the ID counter follows the deletion back.
deletePoolReusesID(r, poolID) ==
    LET d == r.idToIndex[poolID]
        n == Len(r.id)
    IN  [r EXCEPT !.id = SwapPop(@, d), !.key = SwapPop(@, d), !.protocol = SwapPop(@, d),
                  !.idToIndex = Without(Extend(@, r.id[n], d), poolID),
                  !.keyToIndex = Without(Extend(@, r.key[n], d), r.key[d]),
                  !.nextID = IF poolID + 1 = @ THEN poolID ELSE @]

deletePool(r, poolID) ==
    LET d == r.idToIndex[poolID]
        n == Len(r.id)
    IN  [r EXCEPT !.id = SwapPop(@, d), !.key = SwapPop(@, d), !.protocol = SwapPop(@, d),
                  !.idToIndex = Without(Extend(@, r.id[n], d), poolID),
                  !.keyToIndex = Without(Extend(@, r.key[n], d), r.key[d])]

Largest(S) == CHOOSE n \in S : \A m \in S : m <= n

IDs(v) == {v.pools[i].id : i \in DOMAIN v.pools}

\* The checks of NewPoolRegistryFromView: no ID or key twice, protocols known.
ViewAccepted(v) ==
    /\ \A i, j \in DOMAIN v.pools :
          i # j => v.pools[i].id # v.pools[j].id /\ v.pools[i].key # v.pools[j].key
    /\ \A i \in DOMAIN v.pools : v.pools[i].protocol \in DOMAIN v.protocols

\* NewPoolRegistryFromView, for a view it accepts: neither the blocklist nor
\* the IDs of deleted pools are part of a view.
Restored(v, next) ==
    LET pos(x, f) == CHOOSE i \in DOMAIN v.pools : v.pools[i][f] = x
        numbers == DOMAIN v.protocols
    IN  [id |-> [i \in DOMAIN v.pools |-> v.pools[i].id],
         key |-> [i \in DOMAIN v.pools |-> v.pools[i].key],
         protocol |-> [i \in DOMAIN v.pools |-> v.pools[i].protocol],
         idToIndex |-> [x \in IDs(v) |-> pos(x, "id")],
         keyToIndex |-> [x \in {v.pools[i].key : i \in DOMAIN v.pools} |-> pos(x, "key")],
         protocolToInternal |-> [p \in {v.protocols[n] : n \in numbers} |->
                                   CHOOSE n \in numbers : v.protocols[n] = p],
         internalToProtocol |-> v.protocols,
         blockList |-> {},
         nextID |-> next,
         nextProto |-> IF numbers = {} THEN 0 ELSE Largest(numbers) + 1]

\* Mutant: the counter restarts at the largest ID in use.
FromViewOffByOne(v) == Restored(v, Largest(IDs(v) \cup {0}))

FromView(v) == Restored(v, Largest(IDs(v) \cup {0}) + 1)

-----------------------------------------------------------------------------
(* PoolSystem: a write method takes the lock, runs its operations one by   *)
(* one and refreshes the cached view if one of them succeeded.             *)

Init ==
    /\ reg = NewPoolRegistry
    /\ cachedView = View(NewPoolRegistry)
    /\ batch = <<>> /\ changed = FALSE /\ issued = 0

AddOps == [op : {"add"}, key : Keys, protocol : ProtocolIDs]
DeleteOps == [op : {"delete"}, id : 1..MaxID]
BlockOps == [op : {"block", "unblock"}, key : Keys]

\* AddPool(s), DeletePool(s), Add(Many)ToBlockList, Remove(Many)FromBlockList.
\* Bound: at most MaxID pools are ever added.
Lock(ops) ==
    /\ batch = <<>>
    /\ ops[1].op = "add" => reg.nextID + Len(ops) <= MaxID + 1
    /\ batch' = ops
    /\ changed' = FALSE
    /\ UNCHANGED <<reg, cachedView, issued>>

\* The next operation leaves the registry as r; after the last one the view
\* is refreshed if anything succeeded, and the lock released.
Run(r, ok) ==
    /\ reg' = r
    /\ changed' = (changed \/ ok)
    /\ batch' = Tail(batch)
    /\ IF Len(batch) = 1 /\ changed'
         THEN cachedView' = View(r) /\ issued' = r.nextID - 1
         ELSE UNCHANGED <<cachedView, issued>>

AddPool ==
    /\ batch # <<>> /\ Head(batch).op = "add"
    /\ CanAdd(reg, Head(batch).key, Head(batch).protocol)
    /\ Run(addPool(reg, Head(batch).key, Head(batch).protocol), TRUE)

AddFails ==
    /\ batch # <<>> /\ Head(batch).op = "add"
    /\ ~CanAdd(reg, Head(batch).key, Head(batch).protocol)
    /\ Run(reg, FALSE)

DeletePool ==
    /\ batch # <<>> /\ Head(batch).op = "delete"
    /\ CanDelete(reg, Head(batch).id)
    /\ Run(deletePool(reg, Head(batch).id), TRUE)

DeleteFails ==
    /\ batch # <<>> /\ Head(batch).op = "delete"
    /\ ~CanDelete(reg, Head(batch).id)
    /\ Run(reg, FALSE)

addToBlockList ==
    /\ batch # <<>> /\ Head(batch).op = "block"
    /\ Run([reg EXCEPT !.blockList = @ \cup {Head(batch).key}], TRUE)

removeFromBlockList ==
    /\ batch # <<>> /\ Head(batch).op = "unblock"
    /\ Run([reg EXCEPT !.blockList = @ \ {Head(batch).key}], TRUE)

\* Batches of one kind of operation.
Batches ==
    UNION {[1..n -> AddOps] : n \in 1..MaxBatch}
        \cup UNION {[1..n -> DeleteOps] : n \in 1..MaxBatch}
        \cup [1..1 -> BlockOps]

Next ==
    \/ \E ops \in Batches : Lock(ops)
    \/ AddPool \/ AddFails \/ DeletePool \/ DeleteFails
    \/ addToBlockList \/ removeFromBlockList

Spec == Init /\ [][Next]_vars

-----------------------------------------------------------------------------
(* Properties.                                                             *)

\* The two index maps are exactly the inverses of the slices they index.
IndexOK(r) ==
    /\ DOMAIN r.id = 1..Len(r.id) /\ DOMAIN r.key = 1..Len(r.id)
    /\ DOMAIN r.protocol = 1..Len(r.id)
    /\ DOMAIN r.idToIndex = Elements(r.id) /\ DOMAIN r.keyToIndex = Elements(r.key)
    /\ \A i \in 1..Len(r.id) : r.idToIndex[r.id[i]] = i /\ r.keyToIndex[r.key[i]] = i

\* The dictionary is one-to-one and knows every protocol number in use; IDs
\* and numbers in use are below the counters.
DictionaryOK(r) ==
    /\ \A p \in DOMAIN r.protocolToInternal :
          /\ r.protocolToInternal[p] \in DOMAIN r.internalToProtocol
          /\ r.internalToProtocol[r.protocolToInternal[p]] = p
    /\ \A n \in DOMAIN r.internalToProtocol :
          /\ n < r.nextProto
          /\ r.internalToProtocol[n] \in DOMAIN r.protocolToInternal
          /\ r.protocolToInternal[r.internalToProtocol[n]] = n
    /\ \A i \in 1..Len(r.id) :
          r.protocol[i] \in DOMAIN r.internalToProtocol /\ r.id[i] < r.nextID
    /\ r.nextProto <= MaxProto

\* Any sequence of additions and swap-and-pop deletions leaves every pool
\* found under its own ID and key, with a protocol the dictionary can name.
RegistryConsistent == IndexOK(reg) /\ DictionaryOK(reg)

\* A registry rebuilt from a view has the same pools, finds each of them, and
\* gives the next pool an ID none of them has.
RestoreFaithful ==
    LET r == FromView(View(reg))
    IN  ViewAccepted(View(reg)) /\ View(r) = View(reg) /\ IndexOK(r) /\ DictionaryOK(r)

Directory == INSTANCE PoolDirectory
    WITH pools <- {[id |-> cachedView.pools[i].id, key |-> cachedView.pools[i].key,
                    protocol |-> cachedView.protocols[cachedView.pools[i].protocol]] :
                        i \in DOMAIN cachedView.pools},
         blocked <- reg.blockList

\* What lock-free readers see is a directory: a batch appears in one step, no
\* ID or key is shared or given out again after a deletion, a pool never
\* changes its key or protocol, and a blocked key gets no pool.
ImplementsDirectory == Directory!Spec
=============================================================================
