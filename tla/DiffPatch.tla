------------------------------ MODULE DiffPatch ------------------------------
(***************************************************************************)
(* The differ and patcher of every protocol schema, and the State-level    *)
(* Diff and Patch built from them.                                         *)
(*                                                                         *)
(* A view is a table: a function from the IDs it contains to entries.  The *)
(* order of the Go slices carries no meaning, every differ and patcher     *)
(* goes through a map keyed by ID.  An entry keeps apart the fields the    *)
(* differ compares and those it takes to be immutable ("imm": key, tokens, *)
(* fee tier, name, decimals).                                              *)
(***************************************************************************)
EXTENDS Naturals

CONSTANTS
    Protocols,      \* the engine's protocol IDs, fixed at NewEngine
    SchemaOf,       \* SchemaOf[p]: the schema of protocol p's data
    IDs,            \* pool, token and dictionary IDs
    Immutable,      \* Immutable[p][i]: the immutable fields of ID i of p
    Values,         \* abstract values of a mutable field
    NoData          \* the Data of an errored protocol

TableSchemas == {"uniswapv2", "uniswapv3", "erc20"}

Schemas == TableSchemas \cup {"poolregistry", "tokenpools"}

ASSUME SchemaAssumption == SchemaOf \in [Protocols -> Schemas]

-----------------------------------------------------------------------------
(* Views.                                                                  *)

\* Functions from a subset of IDs to T.
Partial(T) == UNION {[D -> T] : D \in SUBSET IDs}

\* The PoolView or TokenView of ID i under a table schema.
Entry(p, i) ==
    CASE SchemaOf[p] = "uniswapv2" ->
            [imm : {Immutable[p][i]}, reserves : Values]
      [] SchemaOf[p] = "uniswapv3" ->
            [imm : {Immutable[p][i]}, core : Values, ticks : SUBSET Values]
      [] OTHER ->
            [imm : {Immutable[p][i]}, fee : Values, gas : Values]

TableView(p) ==
    [table : {t \in Partial(UNION {Entry(p, i) : i \in IDs}) :
                 \A i \in DOMAIN t : t[i] \in Entry(p, i)}]

\* PoolRegistryView: the pools and the protocol dictionary.
RegistryView(p) ==
    [pools : {t \in Partial({Immutable[p][i] : i \in IDs}) :
                 \A i \in DOMAIN t : t[i] = Immutable[p][i]},
     protocols : Partial(Values)]

View(p) ==
    CASE SchemaOf[p] \in TableSchemas -> TableView(p)
      [] SchemaOf[p] = "poolregistry" -> RegistryView(p)
      [] OTHER -> [graph : Values]

\* engine.State: ChainID, wall-clock stamps and Meta are left out.
ProtocolStates(p) ==
    [error : {FALSE}, data : View(p)] \cup [error : {TRUE}, data : {NoData}]

ProtocolMaps ==
    {m \in [Protocols -> UNION {ProtocolStates(p) : p \in Protocols}] :
        \A p \in Protocols : m[p] \in ProtocolStates(p)}

States == [block : Nat, protocols : ProtocolMaps]

HasErrors(s) == \E p \in Protocols : s.protocols[p].error

-----------------------------------------------------------------------------
(* The differs.                                                            *)

reservesChanged(old, new) == old.reserves # new.reserves

\* Ticks are compared after sorting both sides: as sets.
poolChanged(old, new) == old.core # new.core \/ old.ticks # new.ticks

tokenChanged(old, new) == old.fee # new.fee \/ old.gas # new.gas

Changed(schema, old, new) ==
    CASE schema = "uniswapv2" -> reservesChanged(old, new)
      [] schema = "uniswapv3" -> poolChanged(old, new)
      [] OTHER -> tokenChanged(old, new)

\* Mutant: pools that vanished are not reported.
TableDifferNoDeletions(schema, old, new) ==
    [additions |-> [i \in DOMAIN new.table \ DOMAIN old.table |-> new.table[i]],
     updates |-> [i \in {j \in DOMAIN new.table \cap DOMAIN old.table :
                            Changed(schema, old.table[j], new.table[j])} |-> new.table[i]],
     deletions |-> {}]

TableDiffer(schema, old, new) ==
    [additions |-> [i \in DOMAIN new.table \ DOMAIN old.table |-> new.table[i]],
     updates |-> [i \in {j \in DOMAIN new.table \cap DOMAIN old.table :
                            Changed(schema, old.table[j], new.table[j])} |-> new.table[i]],
     deletions |-> DOMAIN old.table \ DOMAIN new.table]

\* Pools are immutable once registered: there are no pool updates.
PoolRegistryDiffer(old, new) ==
    [poolAdditions |-> [i \in DOMAIN new.pools \ DOMAIN old.pools |-> new.pools[i]],
     poolDeletions |-> DOMAIN old.pools \ DOMAIN new.pools,
     protocolAdditions |->
        [i \in {j \in DOMAIN new.protocols :
                   \/ j \notin DOMAIN old.protocols
                   \/ old.protocols[j] # new.protocols[j]} |-> new.protocols[i]],
     protocolDeletions |-> DOMAIN old.protocols \ DOMAIN new.protocols]

TokenPoolsRegistryDiffer(old, new) == [data |-> new]

Differ(p, old, new) ==
    CASE SchemaOf[p] \in TableSchemas -> TableDiffer(SchemaOf[p], old, new)
      [] SchemaOf[p] = "poolregistry" -> PoolRegistryDiffer(old, new)
      [] OTHER -> TokenPoolsRegistryDiffer(old, new)

\* StateDiffer.Diff on two error-free states of the fixed protocol set.
Diff(old, new) ==
    [from |-> old.block,
     to |-> new.block,
     protocols |-> [p \in Protocols |->
        Differ(p, old.protocols[p].data, new.protocols[p].data)]]

-----------------------------------------------------------------------------
(* The patchers: delete, then update, then add.                            *)

\* m with the entries of f overwritten or inserted.
Put(m, f) ==
    [i \in DOMAIN m \cup DOMAIN f |-> IF i \in DOMAIN f THEN f[i] ELSE m[i]]

Delete(m, D) == [i \in DOMAIN m \ D |-> m[i]]

TablePatcher(prev, diff) ==
    [table |-> Put(Put(Delete(prev.table, diff.deletions), diff.updates),
                   diff.additions)]

PoolRegistryPatcher(prev, diff) ==
    [pools |-> Put(Delete(prev.pools, diff.poolDeletions), diff.poolAdditions),
     protocols |-> Put(Delete(prev.protocols, diff.protocolDeletions),
                       diff.protocolAdditions)]

TokenPoolRegistryPatcher(prev, diff) == diff.data

Patcher(p, prev, diff) ==
    CASE SchemaOf[p] \in TableSchemas -> TablePatcher(prev, diff)
      [] SchemaOf[p] = "poolregistry" -> PoolRegistryPatcher(prev, diff)
      [] OTHER -> TokenPoolRegistryPatcher(prev, diff)

\* StatePatcher.Patch; its integrity check is PatchAccepts.
PatchAccepts(old, diff) == old.block = diff.from

Patch(old, diff) ==
    [block |-> diff.to,
     protocols |-> [p \in Protocols |->
        [error |-> FALSE,
         data |-> Patcher(p, old.protocols[p].data, diff.protocols[p])]]]
=============================================================================
