--------------------------- MODULE OperationGraph ---------------------------
(***************************************************************************)
(* Tensor-assembly graphs (operation.rs).  A builder infers the facts of   *)
(* every value, so that a malformed graph fails before storage exists; an  *)
(* estimate of the scratch memory is computed from the graph alone; then   *)
(* execute_host runs the nodes in order, each value living until its last  *)
(* use.                                                                    *)
(*                                                                         *)
(* Contents are functions from element offsets to the element's origin, so *)
(* that a kernel that reads or writes one wrong offset is seen.            *)
(***************************************************************************)
EXTENDS Preparation, Functions

CONSTANTS
    InputFacts,      \* the candidate facts of external inputs
    Operations,      \* the candidate operations
    MaxInputs,       \* bound on the external inputs of a graph
    MaxSize          \* bound on the inputs and nodes of a graph together

ASSUME GraphBoundsAssumption == MaxInputs \in Nat \ {0} /\ MaxSize \in Nat

\* The types of TensorFacts, and of the operations and what they carry.
ASSUME InputFactsAssumption ==
    InputFacts \subseteq [shape : Seq(Nat), storage : Seq(Nat), logicalStrides : Seq(Nat),
                         strides : Seq(Nat), dtype : DTypes, layout : STRING, bytes : Nat]
ASSUME OperationsAssumption ==
    \A op \in Operations :
        /\ op.kind \in {"concat", "permute", "pad", "slice", "split", "reshape", "prepare"}
        /\ op.kind \in {"concat", "split"} => op.axis \in Nat
        /\ op.kind \in {"permute", "pad"} => op.order \in Seq(Nat)
        /\ op.kind = "pad" => op.storage \in Seq(Nat)
        /\ op.kind \in {"slice", "split"} => op.ranges \in Seq(Nat \X Nat)
        /\ op.kind = "reshape" => op.shape \in Seq(Nat)
        /\ op.kind = "prepare" => op.target.dtype \in DTypes /\ op.scratchBytes \in Nat

VARIABLES
    phase,           \* "building", "built", "running" or "done"
    inputs,          \* the facts of the external inputs, in order
    nodes,           \* sequence of [implementation, op, inputs, outputs]
    output,          \* the selected final value
    estimate,        \* what estimate_host_scratch_bytes returned
    next,            \* the next node to execute
    sched,           \* LivenessSchedule of the execution
    runtime,         \* live value -> view
    result           \* what execute_host returned

vars == <<phase, inputs, nodes, output, estimate, next, sched, runtime, result>>

None == <<"none">>
InputRef(i) == <<"in", i>>
NodeRef(n, k) == <<"node", n, k>>

----------------------------------------------------------------------------
(* Construction.                                                           *)

\* The facts of a value, where it is available to the builder.
Available(v) ==
    IF v[1] = "in" THEN v[2] \in DOMAIN inputs
    ELSE v[2] \in DOMAIN nodes /\ v[3] \in DOMAIN nodes[v[2]].outputs
Facts(v) == IF v[1] = "in" THEN inputs[v[2]] ELSE nodes[v[2]].outputs[v[3]]

IsPermutation(order) == Range(order) = DOMAIN order
IsIdentityOrder(order) == \A k \in DOMAIN order : order[k] = k

\* The sum of the first k inputs' lengths along an axis, as infer_concat adds
\* them up and execute_concat_bytes does for its axis_starts.
AxisEnd(axis, fs, k) ==
    LET End[j \in 0 .. Len(fs)] == IF j = 0 THEN 0 ELSE End[j - 1] + fs[j].shape[axis]
    IN  End[k]

\* infer_concat.
ConcatAccepted(op, fs) ==
    /\ Len(fs) >= 2
    /\ op.axis \in Axes(fs[1].shape)
    /\ \A k \in DOMAIN fs :
          /\ Len(fs[k].shape) = Len(fs[1].shape)
          /\ fs[k].dtype = fs[1].dtype
          /\ \A a \in Axes(fs[1].shape) \ {op.axis} : fs[k].shape[a] = fs[1].shape[a]
    /\ AxisEnd(op.axis, fs, Len(fs)) \in 0 .. MaxWord
ConcatShape(op, fs) == [fs[1].shape EXCEPT ![op.axis] = AxisEnd(op.axis, fs, Len(fs))]
InferConcat(op, fs) == <<ContiguousFacts(ConcatShape(op, fs), fs[1].dtype)>>

\* infer_permute.  A storage permutation keeps the logical view and lays the
\* elements out along the reordered axes.
PermutedShape(order, f) == [k \in DOMAIN order |-> f.shape[order[k]]]
StorageStrides(order, storage) ==
    [a \in DOMAIN order |->
        ContiguousStrides(storage)[CHOOSE k \in DOMAIN order : order[k] = a]]
StorageFacts(f, order, storage, layout) ==
    [f EXCEPT !.storage = storage, !.strides = StorageStrides(order, storage),
              !.layout = layout, !.bytes = ByteLen(f.dtype, storage)]
PermuteAccepted(op, f) ==
    /\ IsPermutation(op.order)
    /\ Len(op.order) = Len(f.shape)
    /\ op.mode = "storage" => /\ op.layout = Contiguous => IsIdentityOrder(op.order)
                              /\ StridesFit(PermutedShape(op.order, f))
InferPermute(op, f) ==
    IF op.mode = "logical"
    THEN <<ContiguousFacts(PermutedShape(op.order, f), f.dtype)>>
    ELSE <<StorageFacts(f, op.order, PermutedShape(op.order, f), op.layout)>>

\* infer_pad.
PadAccepted(op, f) ==
    /\ IsPermutation(op.order)
    /\ Len(op.order) = Len(f.shape)
    /\ Len(op.storage) = Len(f.shape)
    /\ op.layout # Contiguous
    /\ \A k \in DOMAIN op.order : op.storage[k] >= f.shape[op.order[k]]
    /\ \E k \in DOMAIN op.order : op.storage[k] > f.shape[op.order[k]]
    /\ StridesFit(op.storage)
InferPad(op, f) == <<StorageFacts(f, op.order, op.storage, op.layout)>>

\* infer_slice and infer_split; a range is a pair <<start, end>>.
RangeFits(range, dimension) == range[1] <= range[2] /\ range[2] <= dimension
SliceAccepted(op, f) ==
    /\ Len(op.ranges) = Len(f.shape)
    /\ \A a \in DOMAIN op.ranges : RangeFits(op.ranges[a], f.shape[a])
InferSlice(op, f) ==
    <<ContiguousFacts([a \in DOMAIN op.ranges |-> op.ranges[a][2] - op.ranges[a][1]], f.dtype)>>
SplitAccepted(op, f) ==
    /\ op.axis \in Axes(f.shape)
    /\ op.ranges # <<>>
    /\ \A k \in DOMAIN op.ranges :
          /\ op.ranges[k][1] < op.ranges[k][2]
          /\ RangeFits(op.ranges[k], f.shape[op.axis])
          /\ k > 1 => op.ranges[k][1] >= op.ranges[k - 1][2]
SplitShape(op, f, k) == [f.shape EXCEPT ![op.axis] = op.ranges[k][2] - op.ranges[k][1]]
InferSplit(op, f) ==
    [k \in DOMAIN op.ranges |-> ContiguousFacts(SplitShape(op, f, k), f.dtype)]

\* infer_reshape.
ReshapeAccepted(op, f) ==
    /\ CanonicalContiguous(f)
    /\ CountFits(op.shape)
    /\ Product(op.shape) = Product(f.shape)
InferReshape(op, f) == <<ContiguousFacts(op.shape, f.dtype)>>

\* infer_prepare.
PrepareAccepted(op, f) ==
    /\ CanonicalContiguous(f)
    /\ op.source = [dtype |-> f.dtype, layout |-> f.layout]
    /\ op.target.layout = Contiguous
    /\ ByteLenFits(op.target.dtype, f.shape)
    /\ op.outputBytes = ByteLen(op.target.dtype, f.shape)
    /\ op.scratchBytes \in 0 .. MaxWord
InferPrepare(op, f) == <<ContiguousFacts(f.shape, op.target.dtype)>>

\* infer_outputs: what it checks before the facts of the outputs are made,
\* and those facts, which TensorFacts checks again.
OperationAccepted(op, fs) ==
    IF op.kind = "concat" THEN ConcatAccepted(op, fs)
    ELSE /\ Len(fs) = 1
         /\ CASE op.kind = "permute" -> PermuteAccepted(op, fs[1])
              [] op.kind = "pad" -> PadAccepted(op, fs[1])
              [] op.kind = "slice" -> SliceAccepted(op, fs[1])
              [] op.kind = "split" -> SplitAccepted(op, fs[1])
              [] op.kind = "reshape" -> ReshapeAccepted(op, fs[1])
              [] op.kind = "prepare" -> PrepareAccepted(op, fs[1])
InferOutputs(op, fs) ==
    CASE op.kind = "concat" -> InferConcat(op, fs)
      [] op.kind = "permute" -> InferPermute(op, fs[1])
      [] op.kind = "pad" -> InferPad(op, fs[1])
      [] op.kind = "slice" -> InferSlice(op, fs[1])
      [] op.kind = "split" -> InferSplit(op, fs[1])
      [] op.kind = "reshape" -> InferReshape(op, fs[1])
      [] op.kind = "prepare" -> InferPrepare(op, fs[1])

\* Operation::builtin_implementation.
BuiltinImplementation(op) ==
    IF op.kind = "prepare" THEN op.implementation ELSE "model-weights/" \o op.kind

\* add_input.  Names are positions here: the duplicate-name check cannot fail.
\* All inputs come before the first operation, the order in which the wire
\* form replays the builder; other orders of the calls give the same graphs.
AddInput ==
    /\ phase = "building"
    /\ nodes = <<>>
    /\ Len(inputs) < MaxInputs
    /\ \E f \in InputFacts :
          /\ FactsAccepted(f)
          /\ inputs' = Append(inputs, f)
    /\ UNCHANGED <<phase, nodes, output, estimate, next, sched, runtime, result>>

Values == {InputRef(i) : i \in DOMAIN inputs}
          \cup UNION {{NodeRef(n, k) : k \in DOMAIN nodes[n].outputs} : n \in DOMAIN nodes}

\* The edges a caller may pass to an operation: one value, or two.
Edges == {<<v>> : v \in Values} \cup {<<v, w>> : v \in Values, w \in Values}

\* add_operation: unavailable values, inputs the operation does not accept
\* and facts that do not hold leave the builder as it was.
AddOperation ==
    /\ phase = "building"
    /\ Len(inputs) + Len(nodes) < MaxSize
    /\ \E op \in Operations, edges \in Edges :
          /\ \A k \in DOMAIN edges : Available(edges[k])
          /\ LET fs == [k \in DOMAIN edges |-> Facts(edges[k])]
             IN  /\ OperationAccepted(op, fs)
                 /\ \A k \in DOMAIN InferOutputs(op, fs) : FactsAccepted(InferOutputs(op, fs)[k])
                 /\ nodes' = Append(nodes,
                        [implementation |-> IF op.foreign THEN "foreign" ELSE BuiltinImplementation(op),
                         op |-> op, inputs |-> edges, outputs |-> InferOutputs(op, fs)])
    /\ UNCHANGED <<phase, inputs, output, estimate, next, sched, runtime, result>>

----------------------------------------------------------------------------
(* LivenessSchedule.  `err` is the error that ended its use.               *)

\* The places, a node and an input of it, where a value is used.
UsePlaces(v) ==
    {u \in (DOMAIN nodes) \X (1 .. 2) :
        u[2] \in DOMAIN nodes[u[1]].inputs /\ nodes[u[1]].inputs[u[2]] = v}

\* Variant: the selected output is not counted as a use.
UsesByNodes(v, out) == Cardinality(UsePlaces(v))

\* LivenessSchedule::new: how often each value is used, the output once more.
Uses(v, out) == Cardinality(UsePlaces(v)) + (IF v = out THEN 1 ELSE 0)
NewSchedule(out) ==
    [uses |-> [v \in {w \in Values : Uses(w, out) > 0} |-> Uses(v, out)],
     values |-> [v \in {InputRef(i) : i \in DOMAIN inputs} |-> 0],
     allocs |-> <<>>, next |-> 1, live |-> 0, peak |-> 0, err |-> "none"]

Fail(s, err) == [s EXCEPT !.err = IF @ = "none" THEN err ELSE @]
Raise(n, m) == IF n >= m THEN n ELSE m

\* create_allocation; its id is s.next, ids are 1, 2, ...
CreateAllocation(s, bytes) ==
    IF s.live + bytes > MaxWord THEN Fail(s, "limit")
    ELSE [s EXCEPT !.next = @ + 1, !.live = @ + bytes, !.peak = Raise(@, s.live + bytes),
                   !.allocs = Append(@, [bytes |-> bytes, refs |-> 0])]

\* insert_value; allocation 0 is an external input's mapping.  A freed
\* allocation keeps its slot with refs = 0 and is never used again.
Extended(f, v, x) == [w \in DOMAIN f \cup {v} |-> IF w = v THEN x ELSE f[w]]
Without(f, v) == Restrict(f, DOMAIN f \ {v})
Referenced(allocs, a) == IF a = 0 THEN allocs ELSE [allocs EXCEPT ![a].refs = @ + 1]
InsertValue(s, v, allocation) ==
    IF v \in DOMAIN s.values THEN Fail(s, "integrity")
    ELSE [s EXCEPT !.values = Extended(s.values, v, allocation),
                   !.allocs = Referenced(s.allocs, allocation)]

ObserveTransient(s, scratch) ==
    IF s.live + scratch > MaxWord THEN Fail(s, "limit")
    ELSE [s EXCEPT !.peak = Raise(@, s.live + scratch)]

\* Variant: the bytes are returned with the first value, not with the last.
RemoveValueAndBytes(s, v) ==
    IF v \notin DOMAIN s.values THEN Fail(s, "integrity")
    ELSE LET a == s.values[v]
             left == [s EXCEPT !.values = Without(@, v)]
         IN  IF a = 0 THEN left
             ELSE [left EXCEPT !.allocs[a].refs = @ - 1, !.live = @ - s.allocs[a].bytes]

\* remove_value.
RemoveValue(s, v) ==
    IF v \notin DOMAIN s.values THEN Fail(s, "integrity")
    ELSE LET a == s.values[v]
             left == [s EXCEPT !.values = Without(@, v)]
         IN  IF a = 0 THEN left
             ELSE [left EXCEPT !.allocs[a].refs = @ - 1,
                               !.live = IF s.allocs[a].refs = 1 THEN @ - s.allocs[a].bytes ELSE @]

\* consume_value.
ConsumeValue(s, v) ==
    IF v \notin DOMAIN s.uses \/ s.uses[v] = 0 THEN Fail(s, "integrity")
    ELSE LET used == [s EXCEPT !.uses[v] = @ - 1]
         IN  IF used.uses[v] = 0 THEN RemoveValue(used, v) ELSE used

\* remove_unused.
RemoveUnused(s, v) ==
    IF v \in DOMAIN s.uses /\ s.uses[v] > 0 THEN s ELSE RemoveValue(s, v)

\* One output of a node: an alias of the input it names, or an allocation.
Produce(s, node, v, facts, origin) ==
    IF origin = "fresh"
    THEN LET t == CreateAllocation(s, facts.bytes)
         IN  IF t.err # "none" THEN t ELSE InsertValue(t, v, s.next)
    ELSE IF node.inputs[1] \notin DOMAIN s.values THEN Fail(s, "integrity")
    ELSE InsertValue(s, v, s.values[node.inputs[1]])

OrElse(s, t) == IF s.err = "none" THEN t ELSE s

\* The calls on the schedule for one node, in order, shared by the estimate
\* and the execution: its outputs, the transient scratch, its inputs used up,
\* the outputs nobody uses.
ScheduleCalls(node) == 2 * Len(node.outputs) + Len(node.inputs) + 1
ScheduleCall(s, n, origins, transient, c) ==
    LET node == nodes[n]
        outs == Len(node.outputs)
        ins == Len(node.inputs)
    IN  IF c <= outs THEN Produce(s, node, NodeRef(n, c), node.outputs[c], origins[c])
        ELSE IF c = outs + 1 THEN ObserveTransient(s, transient)
        ELSE IF c <= outs + 1 + ins THEN ConsumeValue(s, node.inputs[c - outs - 1])
        ELSE RemoveUnused(s, NodeRef(n, c - outs - 1 - ins))

\* The schedule after each of them; the first error ends it.
NodeSchedule(s, n, origins, transient) ==
    LET After[c \in 0 .. ScheduleCalls(nodes[n])] ==
            IF c = 0 THEN s
            ELSE LET t == After[c - 1] IN OrElse(t, ScheduleCall(t, n, origins, transient, c))
    IN  After
ScheduleNode(s, n, origins, transient) ==
    NodeSchedule(s, n, origins, transient)[ScheduleCalls(nodes[n])]

\* scratch_excluding_output.
ScratchExcludingOutput(s, out) ==
    s.peak - (IF out \in DOMAIN s.values /\ s.values[out] # 0
              THEN s.allocs[s.values[out]].bytes ELSE 0)

----------------------------------------------------------------------------
(* What is known of a graph before it runs.                                *)

\* Variant: an identity order counts as an alias whatever the facts say.
StaticAliasByOrder(node, k) ==
    /\ k = 1
    /\ Len(node.inputs) = 1
    /\ Len(node.outputs) = 1
    /\ node.op.kind = "reshape" \/ (node.op.kind = "permute" /\ IsIdentityOrder(node.op.order))

\* node_output_alias_input.
StaticAlias(node, k) ==
    /\ k = 1
    /\ Len(node.inputs) = 1
    /\ Len(node.outputs) = 1
    /\ \/ node.op.kind = "reshape"
       \/ /\ node.op.kind = "permute"
          /\ IsIdentityOrder(node.op.order)
          /\ Facts(node.inputs[1]) = node.outputs[1]

\* output_input_alias: follow aliases from the output down to an input.
OutputInputAlias(out) ==
    LET Back[d \in 0 .. Len(nodes)] ==
            LET v == IF d = 0 THEN out ELSE Back[d - 1]
            IN  IF v = None \/ v[1] = "in" THEN v
                ELSE IF StaticAlias(nodes[v[2]], v[3]) THEN nodes[v[2]].inputs[1] ELSE None
    IN  Back[Len(nodes)]

\* estimate_host_scratch_bytes.
StaticOrigins(node) ==
    [k \in DOMAIN node.outputs |-> IF StaticAlias(node, k) THEN "alias" ELSE "fresh"]

\* Variant: the provider's scratch is not estimated.
StaticTransientNone(node) == 0

StaticTransient(node) == IF node.op.kind = "prepare" THEN node.op.scratchBytes ELSE 0
EstimatedSchedule(out) ==
    LET After[n \in 0 .. Len(nodes)] ==
            IF n = 0 THEN NewSchedule(out)
            ELSE LET s == After[n - 1]
                 IN  OrElse(s, ScheduleNode(s, n, StaticOrigins(nodes[n]), StaticTransient(nodes[n])))
    IN  After
EstimateHostScratchBytes(out) ==
    LET s == EstimatedSchedule(out)[Len(nodes)]
    IN  IF s.err = "none" THEN [kind |-> "ok", bytes |-> ScratchExcludingOutput(s, out)]
        ELSE [kind |-> s.err, bytes |-> 0]

\* build, and the estimate a plan takes from the graph.
Build ==
    /\ phase = "building"
    /\ \E out \in Values :
          /\ Available(out)
          /\ output' = out
          /\ estimate' = EstimateHostScratchBytes(out)
    /\ phase' = "built"
    /\ UNCHANGED <<inputs, nodes, next, sched, runtime, result>>

=============================================================================
