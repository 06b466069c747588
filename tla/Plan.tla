--------------------------------- MODULE Plan ---------------------------------
(***************************************************************************)
(* Binding plans (plan.rs): the tensors of an inventory are matched with   *)
(* the targets of a consumer's contract, every mismatch is diagnosed, and  *)
(* an accepted plan has one canonical form, which is rebuilt and compared  *)
(* when a serialized plan is read back.                                    *)
(*                                                                         *)
(* Tensor names are numbers, ordered as the code orders the strings; a     *)
(* digest is the content it stands for; a plan identity is the content it  *)
(* hashes.  Files are counted from 1 where the code counts from 0.         *)
(***************************************************************************)
EXTENDS Tensors, Functions

CONSTANT Absent          \* the None of an optional field

----------------------------------------------------------------------------
(* Sources.  A span is [file, at, len]; storage is plain, of one span, or  *)
(* quantized, of a payload and companion spans in the order of their roles.*)

\* The spans of a storage, and the files they lie in.
Spans(storage) ==
    IF storage.kind = "plain" THEN <<storage.span>>
    ELSE <<storage.span>> \o storage.companions
FileOrdinals(storage) == {span.file : span \in Range(Spans(storage))}

\* SourceTensor::new.
SourceAccepted(source) ==
    IF source.storage.kind = "plain"
    THEN /\ ByteLenFits(source.storage.dtype, source.shape)
         /\ ByteLen(source.storage.dtype, source.shape) = source.storage.span.len
    ELSE source.storage.shape = source.shape

\* first_missing_digest_ordinal found one.
MissingDigest(storage, digests) == ~(FileOrdinals(storage) \subseteq DOMAIN digests)

----------------------------------------------------------------------------
(* Targets.                                                                *)

\* ConversionRecipe::new.  A value is <<"external", name>> or <<"step", name>>.
RecipeAccepted(recipe) ==
    LET External == {<<"external", name>> : name \in Range(recipe.inputs)}
        Steps(k) == {<<"step", recipe.steps[j].output>> : j \in 1 .. k}
    IN  /\ recipe.version > 0
        /\ IsInjective(recipe.inputs)
        /\ DOMAIN recipe.outputs # {}
        /\ \A k \in DOMAIN recipe.steps :
              /\ <<"step", recipe.steps[k].output>> \notin Steps(k - 1)
              /\ recipe.steps[k].inputs \subseteq External \cup Steps(k - 1)
        /\ Range(recipe.outputs) \subseteq External \cup Steps(Len(recipe.steps))

\* TargetTensor::builder and its defaults.  The aliases of a target are in the
\* order of their names, as build leaves them.
Target(name, required, shape, repr, out) ==
    [name |-> name, aliases |-> <<>>, required |-> required, sourceShape |-> shape,
     shape |-> shape, storageShape |-> shape, logicalStrides |-> ContiguousStrides(shape),
     storageStrides |-> ContiguousStrides(shape), repr |-> repr, transforms |-> <<>>,
     graph |-> Absent, route |-> Absent, recipe |-> Absent, out |-> out, group |-> Absent]

\* validate_transform_chain.
ChainAccepted(t) ==
    /\ \A k \in 2 .. Len(t.transforms) : t.transforms[k - 1].target = t.transforms[k].source
    /\ t.transforms # <<>> => /\ Last(t.transforms).target = t.repr
                              /\ Last(t.transforms).out = t.out
    /\ CountFits(t.shape)
    /\ \A k \in DOMAIN t.transforms :
          LET step == t.transforms[k]
          IN  /\ Product(t.shape) > 0 => step.out > 0
              /\ step.target.layout = Contiguous =>
                    /\ ByteLenFits(step.target.dtype, t.shape)
                    /\ step.out = ByteLen(step.target.dtype, t.shape)

TargetFacts(t) ==
    [shape |-> t.shape, storage |-> t.storageShape, logicalStrides |-> t.logicalStrides,
     strides |-> t.storageStrides, dtype |-> t.repr.dtype, layout |-> t.repr.layout,
     bytes |-> t.out]

\* TargetTensorBuilder::build.
TargetAccepted(t) ==
    /\ ContiguousStrides(t.shape) \in {t.logicalStrides, t.storageStrides} => StridesFit(t.shape)
    /\ \A k \in 2 .. Len(t.aliases) : t.aliases[k - 1] < t.aliases[k]
    /\ t.name \notin Range(t.aliases)
    /\ t.recipe # Absent => t.transforms = <<>> /\ t.route = Absent
    /\ t.graph # Absent => /\ t.transforms = <<>>
                           /\ t.recipe = Absent
                           /\ t.route = Absent
                           /\ t.aliases = <<>>
    /\ ChainAccepted(t)
    /\ t.sourceShape # t.shape => \E stage \in {t.recipe, t.graph, t.route} : stage # Absent
    /\ Len(t.logicalStrides) = Len(t.shape)
    /\ Len(t.storageStrides) = Len(t.shape)
    /\ Product(t.shape) > 0 => t.out > 0
    /\ t.recipe # Absent => Len(t.recipe.inputs) = 1 /\ t.name \in DOMAIN t.recipe.outputs
    /\ t.graph # Absent => FactsAccepted(TargetFacts(t)) /\ t.graph.facts = TargetFacts(t)

----------------------------------------------------------------------------
(* What one source must be for one target.                                 *)

\* validate_contiguous_output.
ContiguousOutput(t) ==
    t.repr.layout = Contiguous =>
        /\ StridesFit(t.shape)
        /\ t.storageShape = t.shape
        /\ t.logicalStrides = ContiguousStrides(t.shape)
        /\ t.storageStrides = ContiguousStrides(t.shape)
        /\ ByteLenFits(t.repr.dtype, t.shape)
        /\ t.out = ByteLen(t.repr.dtype, t.shape)

\* validate_conversion_binding.
ConversionAccepted(source, t) ==
    t.recipe # Absent => /\ t.transforms = <<>>
                         /\ t.recipe.inputs = <<source.name>>
                         /\ t.name \in DOMAIN t.recipe.outputs

\* The plain and the quantized arm of validate_binding.
PlainAccepted(source, t) ==
    LET repr == [dtype |-> source.storage.dtype, layout |-> Contiguous]
    IN  /\ t.route = Absent
        /\ ContiguousOutput(t)
        /\ t.recipe = Absent =>
              IF t.transforms # <<>> THEN t.transforms[1].source = repr
              ELSE t.repr = repr /\ t.out = source.storage.span.len
QuantizedAccepted(inputs, source, t) ==
    /\ t.transforms = <<>>
    /\ t.route # Absent
    /\ t.route.encoding = source.storage.encoding
    /\ t.route.backend \in {Absent, inputs.backend}
    /\ t.route.layout = t.repr.layout
    /\ t.route.kind \in {"hostDequant", "deviceDequant"} =>
          t.route.dtype = t.repr.dtype /\ ContiguousOutput(t)
    /\ t.route.kind = "packedDirect" => t.out = source.storage.span.len

\* Variant: the first transform may expect any representation.
ValidateBindingUntyped(inputs, source, t) ==
    /\ source.shape = t.sourceShape
    /\ ~MissingDigest(source.storage, inputs.digests)
    /\ ConversionAccepted(source, t)
    /\ IF source.storage.kind = "plain" THEN t.route = Absent /\ ContiguousOutput(t)
       ELSE QuantizedAccepted(inputs, source, t)

\* validate_binding.
ValidateBinding(inputs, source, t) ==
    /\ source.shape = t.sourceShape
    /\ ~MissingDigest(source.storage, inputs.digests)
    /\ ConversionAccepted(source, t)
    /\ IF source.storage.kind = "plain" THEN PlainAccepted(source, t)
       ELSE QuantizedAccepted(inputs, source, t)

\* validate_operation_binding; the sources are already in the graph's order.
ValidateOperationBinding(inputs, selected, t) ==
    \A k \in DOMAIN selected :
        LET source == selected[k]
            input == t.graph.inputs[k]
        IN  /\ ~MissingDigest(source.storage, inputs.digests)
            /\ source.storage.kind = "plain"
            /\ ContiguousFactsFit(source.shape, source.storage.dtype)
            /\ input.facts = ContiguousFacts(source.shape, source.storage.dtype)
            /\ input.facts.bytes = source.storage.span.len

----------------------------------------------------------------------------
(* Resolution.  A request [inputs, sources, targets, policy] is what the   *)
(* builder holds; the indices below are those of its two sequences.        *)

Named(entries, name) == {i \in DOMAIN entries : entries[i].name = name}
Repeated(entries) == {entries[i].name : i \in {j \in DOMAIN entries : Cardinality(Named(entries, entries[j].name)) > 1}}

Diagnostic(severity, code, subject, related) ==
    [severity |-> severity, code |-> code, subject |-> subject, related |-> related]
When(condition, diagnostic) == IF condition THEN {diagnostic} ELSE {}

\* The sources a target without a graph may take, and those of a graph's input.
Candidates(r, t) == UNION {Named(r.sources, name) : name \in {t.name} \cup Range(t.aliases)}
GraphCandidates(r, t, k) == Named(r.sources, t.graph.inputs[k].name)

Ambiguous(r, t) ==
    IF t.graph = Absent THEN Cardinality(Candidates(r, t)) > 1
    ELSE \E k \in DOMAIN t.graph.inputs : Cardinality(GraphCandidates(r, t, k)) > 1
Missing(r, t) ==
    IF t.graph = Absent THEN Candidates(r, t) = {}
    ELSE \E k \in DOMAIN t.graph.inputs : GraphCandidates(r, t, k) = {}

\* The targets whose name is not repeated; those of them that resolve, each
\* with its sources in semantic order.
Unique(r) == {i \in DOMAIN r.targets : r.targets[i].name \notin Repeated(r.targets)}
Resolved(r) == {i \in Unique(r) : ~Ambiguous(r, r.targets[i]) /\ ~Missing(r, r.targets[i])}
SourceIndices(r, t) ==
    IF t.graph = Absent THEN <<CHOOSE i \in Candidates(r, t) : TRUE>>
    ELSE [k \in DOMAIN t.graph.inputs |-> CHOOSE i \in GraphCandidates(r, t, k) : TRUE]
Selected(r, t) == [k \in DOMAIN SourceIndices(r, t) |-> r.sources[SourceIndices(r, t)[k]]]

\* Variant: only the first source of a binding counts as used.
UsersFirst(r, i) == {k \in Resolved(r) : SourceIndices(r, r.targets[k])[1] = i}

\* The targets that read source i.
Users(r, i) == {k \in Resolved(r) : i \in Range(SourceIndices(r, r.targets[k]))}

NamesOf(entries, indices) == {entries[i].name : i \in indices}

NameDiagnostics(r) ==
    {Diagnostic("error", "duplicateSource", name, {}) : name \in Repeated(r.sources)}
    \cup {Diagnostic("error", "duplicateTarget", name, {}) : name \in Repeated(r.targets)}

MissingDiagnostic(r, t) ==
    Diagnostic(IF t.required THEN "error" ELSE "info",
               IF t.required THEN "missingRequired" ELSE "missingOptional", t.name,
               IF t.graph = Absent THEN Range(t.aliases)
               ELSE {t.graph.inputs[k].name : k \in {j \in DOMAIN t.graph.inputs : GraphCandidates(r, t, j) = {}}})
AmbiguousDiagnostic(r, t) ==
    Diagnostic("error", "ambiguousBinding", t.name,
               IF t.graph = Absent THEN NamesOf(r.sources, Candidates(r, t))
               ELSE Repeated(r.sources) \cap {t.graph.inputs[k].name : k \in DOMAIN t.graph.inputs})

\* What is wrong with a binding that resolved.
BindingDiagnostics(r, t) ==
    LET selected == Selected(r, t)
        names == {selected[k].name : k \in DOMAIN selected}
        source == selected[1]
    IN  IF t.graph # Absent
        THEN When(~ValidateOperationBinding(r.inputs, selected, t),
                  Diagnostic("error", "unsupportedTransform", t.name, names))
        ELSE When(source.shape # t.sourceShape,
                  Diagnostic("error", "shapeMismatch", t.name, names))
             \cup When(MissingDigest(source.storage, r.inputs.digests),
                       Diagnostic("error", "missingSourceDigest", source.name, {t.name}))
             \cup When(~ValidateBinding(r.inputs, source, t),
                       Diagnostic("error", IF source.storage.kind = "plain" THEN "unsupportedTransform"
                                           ELSE "unsupportedQuantizedRoute", t.name, names))

\* One source for several targets takes one explicit tied-weight group.
Tied(r, users) ==
    \E group \in {r.targets[k].group : k \in users} \ {Absent} :
        \A k \in users : r.targets[k].group = group
ReuseDiagnostics(r) ==
    UNION {{Diagnostic("error", "conflictingSourceReuse", r.targets[k].name, NamesOf(r.targets, Users(r, i))) :
               k \in Users(r, i)} :
           i \in {j \in DOMAIN r.sources : Cardinality(Users(r, j)) > 1 /\ ~Tied(r, Users(r, j))}}

Unused(r) == {i \in DOMAIN r.sources : Users(r, i) = {}}

TargetDiagnostics(r) ==
    {AmbiguousDiagnostic(r, r.targets[i]) : i \in {j \in Unique(r) : Ambiguous(r, r.targets[j])}}
    \cup {MissingDiagnostic(r, r.targets[i]) :
             i \in {j \in Unique(r) : ~Ambiguous(r, r.targets[j]) /\ Missing(r, r.targets[j])}}
    \cup UNION {BindingDiagnostics(r, r.targets[i]) : i \in Resolved(r)}

ExtraDiagnostics(r) ==
    {Diagnostic(IF r.policy = "reject" THEN "error" ELSE "warning", "extraSource", r.sources[i].name, {}) :
        i \in Unused(r)}

\* resolve_bindings, and with it PlanBuilder::analyze.
Diagnostics(r) == NameDiagnostics(r) \cup TargetDiagnostics(r) \cup ReuseDiagnostics(r) \cup ExtraDiagnostics(r)
PlanValid(r) == \A d \in Diagnostics(r) : d.severity # "error"

----------------------------------------------------------------------------
(* The plan.                                                               *)

\* sort_unstable_by name: as many entries come before one as have smaller
\* names; of entries with equal names the first comes first.
Before(entries, i) ==
    {j \in DOMAIN entries : \/ entries[j].name < entries[i].name
                            \/ entries[j].name = entries[i].name /\ j < i}
ByName(entries) ==
    [k \in DOMAIN entries |-> entries[CHOOSE i \in DOMAIN entries : Cardinality(Before(entries, i)) = k - 1]]

\* sort_unstable and dedup: the numbers of a set in ascending order.
Ascending(numbers) ==
    [k \in 1 .. Cardinality(numbers) |->
        CHOOSE n \in numbers : Cardinality({m \in numbers : m < n}) = k - 1]

\* The targets that are bound, in the order of their names.
Bound(r) ==
    LET targets == ByName(r.targets)
        bound == Ascending({k \in DOMAIN targets : Named(r.targets, targets[k].name) \subseteq Resolved(r)})
    IN  [k \in DOMAIN bound |-> targets[bound[k]]]

\* PlanBuilder::build, where PlanValid(r); its identity is all of its content.
BuiltPlan(r) ==
    LET targets == ByName(r.targets)
        bound == Bound(r)
    IN  [inputs |-> r.inputs, policy |-> r.policy, sources |-> ByName(r.sources), targets |-> targets,
         bindings |-> [k \in DOMAIN bound |-> [sources |-> Selected(r, bound[k]), target |-> bound[k]]],
         missing |-> Ascending({t.name : t \in Range(targets) \ Range(bound)}),
         unused |-> Ascending(NamesOf(r.sources, Unused(r)))]

\* The request that a plan answers.
RequestOf(p) == [inputs |-> p.inputs, sources |-> p.sources, targets |-> p.targets, policy |-> p.policy]

\* validate_sorted_unique.
SortedUnique(names) == \A k \in 2 .. Len(names) : names[k - 1] < names[k]
EntryNames(entries) == [k \in DOMAIN entries |-> entries[k].name]

\* Variant: the derived parts of a serialized plan are believed.
ParsesAsWritten(wire) ==
    /\ PlanValid(RequestOf(wire.plan))
    /\ wire.id = wire.plan

\* BindingPlan::from_canonical_json, on a wire of a plan and an identity; the
\* bytes are canonical and the targets and sources have been validated again.
Parses(wire) ==
    /\ SortedUnique(EntryNames(wire.plan.sources))
    /\ SortedUnique(EntryNames(wire.plan.targets))
    /\ SortedUnique([k \in DOMAIN wire.plan.bindings |-> wire.plan.bindings[k].target.name])
    /\ SortedUnique(wire.plan.missing)
    /\ SortedUnique(wire.plan.unused)
    /\ \A t \in Range(wire.plan.targets) : TargetAccepted(t)
    /\ \A source \in Range(wire.plan.sources) : SourceAccepted(source)
    /\ PlanValid(RequestOf(wire.plan))
    /\ LET rebuilt == BuiltPlan(RequestOf(wire.plan))
       IN  /\ rebuilt.bindings = wire.plan.bindings
           /\ rebuilt.missing = wire.plan.missing
           /\ rebuilt.unused = wire.plan.unused
           /\ rebuilt = wire.id
=============================================================================
