-------------------------------- MODULE Overlay --------------------------------
(***************************************************************************)
(* Ordered overlays (overlay.rs): adapters that replace or update base     *)
(* tensors, in layers.  Building a plan resolves every operation to its    *)
(* base; the digest of one target is the identity under which the composed *)
(* tensor is cached.                                                       *)
(*                                                                         *)
(* An overlay request is [bases, aliases, layers, policy, mode]: bases are *)
(* [name, shape, content], aliases are pairs <<alias, target>>, a layer is *)
(* [digests, operations] and is its own identity.                          *)
(***************************************************************************)
EXTENDS Plan

\* AliasTable: its entries, and resolve, which follows them to the end.
AliasTable(pairs) ==
    [alias \in {p[1] : p \in Range(pairs)} |-> (CHOOSE p \in Range(pairs) : p[1] = alias)[2]]
Resolve(table, name) ==
    LET Following[n \in 0 .. Cardinality(DOMAIN table)] ==
            IF n = 0 THEN name
            ELSE IF Following[n - 1] \in DOMAIN table THEN table[Following[n - 1]]
                 ELSE Following[n - 1]
    IN  Following[Cardinality(DOMAIN table)]

\* AliasTable::new with validate_alias_cycles: a chain that has not left the
\* table after as many steps as it has entries is a cycle.
AliasesAccepted(pairs) ==
    /\ \A k \in DOMAIN pairs : pairs[k][1] # pairs[k][2]
    /\ IsInjective([k \in DOMAIN pairs |-> pairs[k][1]])
    /\ \A alias \in DOMAIN AliasTable(pairs) :
          Resolve(AliasTable(pairs), alias) \notin DOMAIN AliasTable(pairs)

\* OverlayOperation::sources, and the files they lie in.
OperationSources(op) ==
    CASE op.kind \in {"replace", "add"} -> {op.value}
      [] op.kind = "lowRank" -> {op.down, op.up}
      [] op.kind = "recipe" -> Range(op.inputs)
OperationFiles(op) == UNION {FileOrdinals(source.storage) : source \in OperationSources(op)}

\* validate_operation_sources: every file an operation reads has a digest.
SourcesDigested(layer, op) == OperationFiles(op) \subseteq DOMAIN layer.digests

\* validate_recipe_inputs.  The inputs of a recipe operation are a function
\* from names to sources.
RecipeInputsMatch(op) ==
    op.kind = "recipe" =>
        /\ CountFits(op.shape)
        /\ Len(op.recipe.inputs) = Cardinality(DOMAIN op.inputs)
        /\ \A name \in Range(op.recipe.inputs) :
              name \in DOMAIN op.inputs /\ op.inputs[name].name = name
        /\ op.target \in DOMAIN op.recipe.outputs

\* OverlayLayer::new.
LayerAccepted(layer) ==
    /\ layer.operations # <<>>
    /\ \A op \in Range(layer.operations) : SourcesDigested(layer, op) /\ RecipeInputsMatch(op)

\* BaseTensor::new.
BaseAccepted(base) == CountFits(base.shape)

\* validate_operation_shape.
OperationFits(op, base) ==
    CASE op.kind \in {"replace", "add"} -> op.value.shape = base.shape
      [] op.kind = "lowRank" -> /\ Len(base.shape) = 2
                                /\ op.rank > 0
                                /\ op.down.shape = <<op.rank, base.shape[2]>>
                                /\ op.up.shape = <<base.shape[1], op.rank>>
      [] op.kind = "recipe" -> op.shape = base.shape

\* The references <<layer, operation>> to the operations on one base, in
\* layer and operation order.
OperationRefs(o, name) ==
    LET Of(k) == [j \in DOMAIN o.layers[k].operations |-> <<k, j>>]
    IN  SelectSeq(FlattenSeq([k \in DOMAIN o.layers |-> Of(k)]),
                  LAMBDA ref : Resolve(AliasTable(o.aliases), o.layers[ref[1]].operations[ref[2]].target) = name)

BaseNames(o) == {o.bases[k].name : k \in DOMAIN o.bases}
BaseNamed(o, name) == CHOOSE base \in Range(o.bases) : base.name = name

\* OverlayPlan::build, from values that their own constructors accepted.
OverlayAccepted(o) ==
    LET table == AliasTable(o.aliases)
    IN  /\ AliasesAccepted(o.aliases)
        /\ \A k \in DOMAIN o.layers : LayerAccepted(o.layers[k])
        /\ \A k \in DOMAIN o.bases : BaseAccepted(o.bases[k])
        /\ Cardinality(BaseNames(o)) = Len(o.bases)
        /\ DOMAIN table \cap BaseNames(o) = {}
        /\ \A alias \in DOMAIN table : Resolve(table, alias) \in BaseNames(o)
        /\ IsInjective(o.layers)
        /\ \A k \in DOMAIN o.layers : \A j \in DOMAIN o.layers[k].operations :
              LET op == o.layers[k].operations[j]
              IN  /\ Resolve(table, op.target) \in BaseNames(o)
                  /\ OperationFits(op, BaseNamed(o, Resolve(table, op.target)))
        /\ o.policy = "reject" => \A name \in BaseNames(o) : Len(OperationRefs(o, name)) <= 1

\* Variant: the contents of the files an operation reads are left out.
OperationIdentityUndigested(layer, op) == [operation |-> op]

\* target_operation_digest with referenced_source_digests.
OperationIdentity(layer, op) ==
    [operation |-> op, digests |-> [file \in OperationFiles(op) |-> layer.digests[file]]]

\* The identities of the operations on a target, in order; target_digest.
TargetOperations(o, name) ==
    LET refs == OperationRefs(o, Resolve(AliasTable(o.aliases), name))
    IN  [k \in DOMAIN refs |->
            OperationIdentity(o.layers[refs[k][1]], o.layers[refs[k][1]].operations[refs[k][2]])]
TargetDigest(o, name) ==
    [mode |-> o.mode, policy |-> o.policy,
     base |-> BaseNamed(o, Resolve(AliasTable(o.aliases), name)),
     operations |-> TargetOperations(o, name)]
=============================================================================
