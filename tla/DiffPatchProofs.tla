---------------------------- MODULE DiffPatchProofs ----------------------------
(***************************************************************************)
(* Patching a view with the diff to another view gives that other view,    *)
(* for every schema, and so for whole states.                              *)
(***************************************************************************)
EXTENDS DiffPatch, TLAPS

\* The fields the differs compare, with the immutable ones, determine an
\* entry: an entry reported as unchanged is equal to its predecessor.
LEMMA UnchangedEntry ==
    ASSUME NEW p \in Protocols, SchemaOf[p] \in TableSchemas,
           NEW i, NEW x \in Entry(p, i), NEW y \in Entry(p, i),
           ~Changed(SchemaOf[p], x, y)
    PROVE  x = y
<1>1. CASE SchemaOf[p] = "uniswapv2"
  BY <1>1 DEF Entry, Changed, reservesChanged
<1>2. CASE SchemaOf[p] = "uniswapv3"
  BY <1>2 DEF Entry, Changed, poolChanged
<1>3. CASE SchemaOf[p] = "erc20"
  BY <1>3 DEF Entry, Changed, tokenChanged
<1> QED
  BY <1>1, <1>2, <1>3 DEF TableSchemas

\* A partial function is determined by its domain and its values.
LEMMA PartialEqual ==
    ASSUME NEW T, NEW f \in Partial(T), NEW D, NEW g, g = [i \in D |-> g[i]],
           DOMAIN f = D, \A i \in D : f[i] = g[i]
    PROVE  f = g
<1>1. f = [i \in DOMAIN f |-> f[i]]
  BY DEF Partial
<1> QED
  BY <1>1

\* Delete, update, add applied to a table diff rebuilds the new table.
LEMMA TablePatchDiff ==
    ASSUME NEW p \in Protocols, SchemaOf[p] \in TableSchemas,
           NEW old \in TableView(p), NEW new \in TableView(p)
    PROVE  TablePatcher(old, TableDiffer(SchemaOf[p], old, new)) = new
<1> DEFINE diff == TableDiffer(SchemaOf[p], old, new)
           res == Put(Put(Delete(old.table, diff.deletions), diff.updates), diff.additions)
<1>1. /\ new = [table |-> new.table]
      /\ new.table \in Partial(UNION {Entry(p, i) : i \in IDs})
      /\ \A i \in DOMAIN new.table : new.table[i] \in Entry(p, i)
      /\ \A i \in DOMAIN old.table : old.table[i] \in Entry(p, i)
  BY DEF TableView
<1>2. DOMAIN res = DOMAIN new.table
  BY DEF Put, Delete, TableDiffer
<1>3. ASSUME NEW i \in DOMAIN new.table PROVE new.table[i] = res[i]
  <2>1. CASE i \notin DOMAIN old.table
    BY <2>1 DEF Put, Delete, TableDiffer
  <2>2. CASE i \in DOMAIN old.table /\ Changed(SchemaOf[p], old.table[i], new.table[i])
    BY <2>2 DEF Put, Delete, TableDiffer
  <2>3. CASE i \in DOMAIN old.table /\ ~Changed(SchemaOf[p], old.table[i], new.table[i])
    <3>1. old.table[i] = new.table[i]
      BY <1>1, <2>3, UnchangedEntry
    <3>2. res[i] = old.table[i]
      BY <2>3 DEF Put, Delete, TableDiffer
    <3> QED
      BY <3>1, <3>2
  <2> QED
    BY <2>1, <2>2, <2>3
<1>4. res = [i \in DOMAIN new.table |-> res[i]]
  BY <1>2 DEF Put
<1>5. new.table = res
  BY <1>1, <1>2, <1>3, <1>4, PartialEqual
<1> QED
  BY <1>1, <1>5 DEF TablePatcher

\* Deletions and additions rebuild the pools of the registry view, and the
\* additions that carry renamed entries rebuild its protocol dictionary.
LEMMA RegistryPatchDiff ==
    ASSUME NEW p \in Protocols,
           NEW old \in RegistryView(p), NEW new \in RegistryView(p)
    PROVE  PoolRegistryPatcher(old, PoolRegistryDiffer(old, new)) = new
<1> DEFINE diff == PoolRegistryDiffer(old, new)
           pools == Put(Delete(old.pools, diff.poolDeletions), diff.poolAdditions)
           dict == Put(Delete(old.protocols, diff.protocolDeletions), diff.protocolAdditions)
<1>1. /\ new = [pools |-> new.pools, protocols |-> new.protocols]
      /\ new.pools \in Partial({Immutable[p][i] : i \in IDs})
      /\ \A i \in DOMAIN new.pools : new.pools[i] = Immutable[p][i]
      /\ \A i \in DOMAIN old.pools : old.pools[i] = Immutable[p][i]
      /\ new.protocols \in Partial(Values)
  BY DEF RegistryView
<1>2. new.pools = pools
  <2>1. DOMAIN pools = DOMAIN new.pools
    BY DEF Put, Delete, PoolRegistryDiffer
  <2>2. \A i \in DOMAIN new.pools : new.pools[i] = pools[i]
    BY <1>1 DEF Put, Delete, PoolRegistryDiffer
  <2>3. pools = [i \in DOMAIN new.pools |-> pools[i]]
    BY <2>1 DEF Put
  <2> QED
    BY <1>1, <2>1, <2>2, <2>3, PartialEqual
<1>3. new.protocols = dict
  <2>1. DOMAIN dict = DOMAIN new.protocols
    BY DEF Put, Delete, PoolRegistryDiffer
  <2>2. \A i \in DOMAIN new.protocols : new.protocols[i] = dict[i]
    BY DEF Put, Delete, PoolRegistryDiffer
  <2>3. dict = [i \in DOMAIN new.protocols |-> dict[i]]
    BY <2>1 DEF Put
  <2> QED
    BY <1>1, <2>1, <2>2, <2>3, PartialEqual
<1> QED
  BY <1>1, <1>2, <1>3 DEF PoolRegistryPatcher

\* Every schema's patcher inverts its differ.
LEMMA ViewPatchDiff ==
    ASSUME NEW p \in Protocols, NEW old \in View(p), NEW new \in View(p)
    PROVE  Patcher(p, old, Differ(p, old, new)) = new
<1>1. CASE SchemaOf[p] \in TableSchemas
  <2>1. SchemaOf[p] # "poolregistry"
    BY <1>1 DEF TableSchemas
  <2> QED
    BY <1>1, <2>1, TablePatchDiff DEF View, Patcher, Differ
<1>2. CASE SchemaOf[p] \notin TableSchemas /\ SchemaOf[p] = "poolregistry"
  BY <1>2, RegistryPatchDiff DEF View, Patcher, Differ
<1>3. CASE SchemaOf[p] \notin TableSchemas /\ SchemaOf[p] # "poolregistry"
  BY <1>3 DEF View, Patcher, Differ, TokenPoolRegistryPatcher, TokenPoolsRegistryDiffer
<1> QED
  BY <1>1, <1>2, <1>3

\* StatePatcher.Patch undoes StateDiffer.Diff: applied to the state a diff was
\* computed from, it yields exactly the state the diff was computed to.
THEOREM PatchDiff ==
    ASSUME NEW s \in States, NEW t \in States, ~HasErrors(s), ~HasErrors(t)
    PROVE  Patch(s, Diff(s, t)) = t
<1>1. /\ t = [block |-> t.block, protocols |-> t.protocols]
      /\ t.protocols \in ProtocolMaps /\ s.protocols \in ProtocolMaps
  BY DEF States
<1>2. t.protocols = [p \in Protocols |-> t.protocols[p]]
  BY <1>1 DEF ProtocolMaps
<1>3. ASSUME NEW p \in Protocols
      PROVE  /\ t.protocols[p] = [error |-> FALSE, data |-> t.protocols[p].data]
             /\ t.protocols[p].data \in View(p)
             /\ s.protocols[p].data \in View(p)
  BY <1>1, <1>3 DEF ProtocolMaps, ProtocolStates, HasErrors
<1>4. ASSUME NEW p \in Protocols
      PROVE  [error |-> FALSE,
              data |-> Patcher(p, s.protocols[p].data, Diff(s, t).protocols[p])]
                = t.protocols[p]
  BY <1>3, <1>4, ViewPatchDiff DEF Diff
<1> QED
  BY <1>1, <1>2, <1>4 DEF Patch, Diff
=============================================================================
