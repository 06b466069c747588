--------------------------- MODULE GraphExecution ---------------------------
(***************************************************************************)
(* OperationGraph::execute_host (operation.rs): the copy kernels, node     *)
(* after node, and what a caller may rely on.                              *)
(***************************************************************************)
EXTENDS OperationGraph

(* Kernels.  Cells are numbered from 1, element offsets from 0.            *)

ReadCell(view, offset) == view.cells[offset + 1]

\* A zeroed allocation (allocate_tensor) into which each element of the
\* logical view is copied once, at the offset of the output's strides.
CopyElements(facts, source) ==
    LET Target(l) == ElementOffset(Coordinates(l, facts.shape), facts.strides)
    IN  [o \in 1 .. Product(facts.storage) |->
            LET writers == {l \in ElementIndices(facts.shape) : Target(l) = o - 1}
            IN  IF writers = {} THEN Zero
                ELSE source[CHOOSE l \in writers : \A m \in writers : m <= l]]

\* execute_storage_copy.
StorageCopy(fin, fout, view) ==
    CopyElements(fout, [l \in ElementIndices(fout.shape) |->
        ReadCell(view, ElementOffset(Coordinates(l, fout.shape), fin.strides))])

\* execute_permute_bytes, in logical mode.
LogicalPermute(order, fin, fout, view) ==
    CopyElements(fout, [l \in ElementIndices(fout.shape) |->
        ReadCell(view, ElementOffset(Coordinates(l, fout.shape),
                                     [k \in DOMAIN order |-> fin.strides[order[k]]]))])

\* Variant: the source is walked channel by channel, not position by position.
OihwToOhwiUnmoved(fin, view) ==
    [p \in 1 .. Product(fin.shape) |-> ReadCell(view, p - 1)]

\* build_oihw_to_ohwi_elements: pushed in the order output channel, position,
\* input channel.
OihwToOhwi(fin, view) ==
    LET in == fin.shape[2]
        spatial == fin.shape[3] * fin.shape[4]
        At(p) == LET o == p \div (in * spatial)
                     s == (p \div in) % spatial
                     i == p % in
                 IN  o * in * spatial + i * spatial + s
    IN  [p \in 1 .. Product(fin.shape) |-> ReadCell(view, At(p - 1))]

FastPermute(op, fin) ==
    op.mode = "storage" /\ op.order = <<1, 3, 4, 2>> /\ CanonicalContiguous(fin)

PermuteCells(op, fin, fout, view) ==
    IF FastPermute(op, fin) THEN OihwToOhwi(fin, view)
    ELSE IF op.mode = "storage" THEN StorageCopy(fin, fout, view)
    ELSE LogicalPermute(op.order, fin, fout, view)

\* execute_slice_bytes.
SliceCells(ranges, fin, fout, view) ==
    CopyElements(fout, [l \in ElementIndices(fout.shape) |->
        LET c == Coordinates(l, fout.shape)
        IN  ReadCell(view, ElementOffset([a \in DOMAIN c |-> ranges[a][1] + c[a]], fin.strides))])

SplitRanges(op, fin, k) ==
    [a \in Axes(fin.shape) |-> IF a = op.axis THEN op.ranges[k] ELSE <<0, fin.shape[a]>>]

\* build_contiguous_concat: whole chunks appended, outer index by outer index.
ContiguousConcat(axis, fs, views) ==
    LET outer == Product(SubSeq(fs[1].shape, 1, axis - 1))
        inner == Product(SubSeq(fs[1].shape, axis + 1, Len(fs[1].shape)))
        Chunk(i, k) == LET n == fs[k].shape[axis] * inner
                       IN  SubSeq(views[k].cells, i * n + 1, (i + 1) * n)
    IN  FlattenSeq([i \in 1 .. outer |-> FlattenSeq([k \in DOMAIN fs |-> Chunk(i - 1, k)])])

\* execute_concat_bytes: the first input whose range ends behind the
\* coordinate holds the element.
ConcatCells(axis, fs, fout, views) ==
    LET Start(k) == AxisEnd(axis, fs, k - 1)
    IN  CopyElements(fout, [l \in ElementIndices(fout.shape) |->
            LET c == Coordinates(l, fout.shape)
                hits == {k \in DOMAIN fs : c[axis] < Start(k) + fs[k].shape[axis]}
                k == CHOOSE h \in hits : \A j \in hits : h <= j
            IN  ReadCell(views[k], ElementOffset([c EXCEPT ![axis] = @ - Start(k)], fs[k].strides))])

----------------------------------------------------------------------------
(* execute_node: the set of its outcomes.  Views come with their origin.   *)

Fresh(n, k, cells) == [view |-> OwnedView(NodeRef(n, k), cells), origin |-> "fresh"]
Alias(view) == [view |-> view, origin |-> "alias"]
NodeDone(outs, transient) == [kind |-> "ok", outs |-> outs, transient |-> transient]

ConcatOutcome(n, node, fs, views) ==
    LET fout == node.outputs[1]
    IN  NodeDone(<<Fresh(n, 1,
            IF (\A k \in DOMAIN fs : CanonicalContiguous(fs[k])) /\ CanonicalContiguous(fout)
            THEN ContiguousConcat(node.op.axis, fs, views)
            ELSE ConcatCells(node.op.axis, fs, fout, views))>>, 0)

PermuteOutcome(n, node, fs, views) ==
    IF IsIdentityOrder(node.op.order) /\ fs[1] = node.outputs[1]
    THEN NodeDone(<<Alias(views[1])>>, 0)
    ELSE NodeDone(<<Fresh(n, 1, PermuteCells(node.op, fs[1], node.outputs[1], views[1]))>>, 0)

PadOutcome(n, node, fs, views) ==
    NodeDone(<<Fresh(n, 1, StorageCopy(fs[1], node.outputs[1], views[1]))>>, 0)

SliceOutcome(n, node, fs, views) ==
    NodeDone(<<Fresh(n, 1, SliceCells(node.op.ranges, fs[1], node.outputs[1], views[1]))>>, 0)

SplitOutcome(n, node, fs, views) ==
    NodeDone([k \in DOMAIN node.outputs |->
        Fresh(n, k, SliceCells(SplitRanges(node.op, fs[1], k), fs[1], node.outputs[k], views[1]))], 0)

ReshapeOutcome(views) == NodeDone(<<Alias(views[1])>>, 0)

PrepareRequest(op, f, view) ==
    [implementation |-> op.implementation, source |-> op.source, target |-> op.target,
     shape |-> f.shape, view |-> view, width |-> Width(f.dtype),
     outputBytes |-> op.outputBytes, scratchBytes |-> op.scratchBytes]

\* execute_prepare_node: a view of the source's own memory is an alias, and
\* then no scratch was used.
PreparedOutcome(n, op, view, outcome) ==
    IF outcome.kind # "ok" THEN [kind |-> outcome.kind]
    ELSE IF SameView(outcome.view, view) THEN NodeDone(<<Alias(outcome.view)>>, 0)
    ELSE NodeDone(<<[view |-> outcome.view, origin |-> "fresh"]>>, op.scratchBytes)

PrepareNodeOutcomes(n, node, fs, views) ==
    {PreparedOutcome(n, node.op, views[1], outcome) :
        outcome \in PrepareOutcomes(PrepareRequest(node.op, fs[1], views[1]), NodeRef(n, 1))}

NodeOutcomes(n) ==
    LET node == nodes[n]
        fs == [k \in DOMAIN node.inputs |-> Facts(node.inputs[k])]
        views == [k \in DOMAIN node.inputs |-> runtime[node.inputs[k]]]
    IN  IF Range(node.inputs) \ DOMAIN runtime # {} THEN {[kind |-> "integrity"]}
        ELSE CASE node.op.kind = "concat" -> {ConcatOutcome(n, node, fs, views)}
          [] node.op.kind = "permute" -> {PermuteOutcome(n, node, fs, views)}
          [] node.op.kind = "pad" -> {PadOutcome(n, node, fs, views)}
          [] node.op.kind = "slice" -> {SliceOutcome(n, node, fs, views)}
          [] node.op.kind = "split" -> {SplitOutcome(n, node, fs, views)}
          [] node.op.kind = "reshape" -> {ReshapeOutcome(views)}
          [] node.op.kind = "prepare" -> PrepareNodeOutcomes(n, node, fs, views)

\* validate_view_len on every output.
OutputLengthsHold(node, outs) ==
    /\ Len(outs) = Len(node.outputs)
    /\ \A k \in DOMAIN outs :
          Len(outs[k].view.cells) * Width(node.outputs[k].dtype) = node.outputs[k].bytes

----------------------------------------------------------------------------
(* execute_host_inner.                                                     *)

InputView(i, elements) ==
    [owner |-> InputRef(i), cells |-> [k \in 1 .. elements |-> Element(i, k - 1)]]

\* consume_runtime_inputs and remove_unused_runtime: what the schedule has
\* dropped is dropped here.
StillLive(views, s) == Restrict(views, DOMAIN views \cap DOMAIN s.values)

\* A return, of a result or an error, drops the locals of the execution.
NoSchedule == [err |-> "none"]
Return(r) ==
    /\ phase' = "done"
    /\ result' = r
    /\ sched' = NoSchedule
    /\ runtime' = <<>>
    /\ next' = 0

\* The entry: the lengths of the views are checked.
Start ==
    /\ phase = "built"
    /\ \E short \in {0} \cup DOMAIN inputs :
          LET Elements(i) == Product(inputs[i].storage) - (IF i = short THEN 1 ELSE 0)
          IN  IF short # 0
              THEN Return([kind |-> "length"])
              ELSE /\ phase' = "running"
                   /\ sched' = NewSchedule(output)
                   /\ runtime' = [v \in {InputRef(i) : i \in DOMAIN inputs} |->
                                    InputView(v[2], Elements(v[2]))]
                   /\ next' = 1
                   /\ UNCHANGED result
    /\ UNCHANGED <<inputs, nodes, output, estimate>>

\* A node that pins an implementation the host executor does not have.
RejectNode ==
    /\ phase = "running"
    /\ next \in DOMAIN nodes
    /\ nodes[next].implementation # BuiltinImplementation(nodes[next].op)
    /\ Return([kind |-> "unsupported"])
    /\ UNCHANGED <<inputs, nodes, output, estimate>>

\* A node that runs: the kernel or the provider, the checks on its outputs,
\* then the liveness bookkeeping, which also decides what runtime keeps.
ExecuteNode ==
    /\ phase = "running"
    /\ next \in DOMAIN nodes
    /\ nodes[next].implementation = BuiltinImplementation(nodes[next].op)
    /\ \E outcome \in NodeOutcomes(next) :
          IF outcome.kind # "ok"
          THEN Return([kind |-> outcome.kind])
          ELSE IF ~OutputLengthsHold(nodes[next], outcome.outs)
          THEN Return([kind |-> "integrity"])
          ELSE LET s == ScheduleNode(sched, next, [k \in DOMAIN outcome.outs |-> outcome.outs[k].origin],
                                     outcome.transient)
                   made == {NodeRef(next, k) : k \in DOMAIN outcome.outs}
               IN  IF s.err # "none"
                   THEN Return([kind |-> s.err])
                   ELSE /\ sched' = s
                        /\ runtime' = StillLive([v \in DOMAIN runtime \cup made |->
                                          IF v \in made THEN outcome.outs[v[3]].view ELSE runtime[v]], s)
                        /\ next' = next + 1
                        /\ UNCHANGED <<phase, result>>
    /\ UNCHANGED <<inputs, nodes, output, estimate>>

\* The end of the loop.
Finish ==
    /\ phase = "running"
    /\ next = Len(nodes) + 1
    /\ Return(IF output \notin DOMAIN runtime THEN [kind |-> "integrity"]
              ELSE [kind |-> "ok", view |-> runtime[output],
                    scratch |-> ScratchExcludingOutput(sched, output)])
    /\ UNCHANGED <<inputs, nodes, output, estimate>>

\* cancellation.check() at the entry, before a node, between two tiles of a
\* kernel or at the end finds the token cancelled by another thread.  Nothing
\* of a node is visible before it is complete.
SeeCancellation ==
    /\ phase \in {"built", "running"}
    /\ Return([kind |-> "cancelled"])
    /\ UNCHANGED <<inputs, nodes, output, estimate>>

Init ==
    /\ phase = "building" /\ inputs = <<>> /\ nodes = <<>> /\ output = None
    /\ estimate = [kind |-> "none", bytes |-> 0]
    /\ next = 0
    /\ sched = NoSchedule /\ runtime = <<>>
    /\ result = [kind |-> "none"]

Next ==
    \/ AddInput \/ AddOperation \/ Build
    \/ Start \/ RejectNode \/ ExecuteNode \/ Finish \/ SeeCancellation

Spec == Init /\ [][Next]_vars

----------------------------------------------------------------------------
(* A reference meaning of a graph, element by element.                     *)

RowMajor(coordinates, shape) == ElementOffset(coordinates, ContiguousStrides(shape))

\* What node n makes of its inputs' meanings; a meaning maps the row-major
\* index of a logical element to its origin.
NodeMeaning(node, fs, ms, k) ==
    LET fout == node.outputs[k]
        op == node.op
        From(j, l, Coordinate(_, _)) ==
            ms[j][RowMajor([a \in Axes(fs[j].shape) |-> Coordinate(Coordinates(l, fout.shape), a)], fs[j].shape)]
        Before(j) == FoldLeft(LAMBDA m, f : m + f.shape[op.axis], 0, SubSeq(fs, 1, j - 1))
    IN  [l \in ElementIndices(fout.shape) |->
          CASE op.kind = "concat" ->
                 LET at == Coordinates(l, fout.shape)[op.axis]
                     j == CHOOSE i \in DOMAIN fs : at \in Before(i) .. Before(i) + fs[i].shape[op.axis] - 1
                 IN  From(j, l, LAMBDA c, a : IF a = op.axis THEN c[a] - Before(j) ELSE c[a])
            [] op.kind = "permute" /\ op.mode = "logical" ->
                 From(1, l, LAMBDA c, a : c[CHOOSE i \in DOMAIN op.order : op.order[i] = a])
            [] op.kind = "slice" -> From(1, l, LAMBDA c, a : op.ranges[a][1] + c[a])
            [] op.kind = "split" ->
                 From(1, l, LAMBDA c, a : IF a = op.axis THEN op.ranges[k][1] + c[a] ELSE c[a])
            [] op.kind = "prepare" ->
                 IF op.source.dtype = op.target.dtype THEN ms[1][l] ELSE CastElement(op.target.dtype, ms[1][l])
            [] OTHER -> ms[1][l]]

InputMeaning(i) ==
    [l \in ElementIndices(inputs[i].shape) |->
        Element(i, ElementOffset(Coordinates(l, inputs[i].shape), inputs[i].strides))]

\* The meanings of the outputs of node n, from those of the nodes before it.
Meanings ==
    LET M[n \in 0 .. Len(nodes)] ==
            IF n = 0 THEN <<>>
            ELSE LET node == nodes[n]
                     earlier == M[n - 1]
                     Of(v) == IF v[1] = "in" THEN InputMeaning(v[2]) ELSE earlier[v[2]][v[3]]
                     fs == [k \in DOMAIN node.inputs |-> Facts(node.inputs[k])]
                     ms == [k \in DOMAIN node.inputs |-> Of(node.inputs[k])]
                 IN  Append(earlier, [k \in DOMAIN node.outputs |-> NodeMeaning(node, fs, ms, k)])
    IN  M[Len(nodes)]

OutputMeaning == IF output[1] = "in" THEN InputMeaning(output[2]) ELSE Meanings[output[2]][output[3]]

\* Every conversion of the graph is the built-in provider's.
OnlyBuiltinCasts == \A n \in DOMAIN nodes : nodes[n].op.kind = "prepare" => nodes[n].op.implementation = Builtin

----------------------------------------------------------------------------
(* Properties.                                                             *)

\* Finished with a result.
Succeeded == phase = "done" /\ result.kind = "ok"

\* The strides that TensorFacts::new accepts, and those inference computes,
\* address every logical element in its own cell of the allocation.
FactsAddressStorage ==
    phase = "built" => \A v \in {w \in Values : Available(w)} :
        LET f == Facts(v)
            reached == {ElementOffset(Coordinates(l, f.shape), f.strides) : l \in ElementIndices(f.shape)}
        IN  /\ reached \subseteq 0 .. Product(f.storage) - 1
            /\ Cardinality(reached) = Product(f.shape)
            /\ f.bytes = Product(f.storage) * Width(f.dtype)

\* A successful execution returns, at the offset of each logical element of
\* the output, the element the graph denotes, whichever kernel made it, and
\* zero in the cells that padding added.
OutputIsMeaning ==
    Succeeded /\ OnlyBuiltinCasts =>
        LET f == Facts(output)
            At(l) == ElementOffset(Coordinates(l, f.shape), f.strides)
            reached == {At(l) : l \in ElementIndices(f.shape)}
        IN  /\ \A l \in ElementIndices(f.shape) : ReadCell(result.view, At(l)) = OutputMeaning[l]
            /\ output[1] = "node" /\ nodes[output[2]].op.kind = "pad" =>
                  \A o \in 0 .. Product(f.storage) - 1 : o \notin reached => ReadCell(result.view, o) = Zero

\* The live values that share an allocation, and the bytes of the
\* allocations that some value keeps alive.
Sharing(s, a) == {v \in DOMAIN s.values : s.values[v] = a}
LiveBytes(s) ==
    UNION {{a} \X (1 .. s.allocs[a].bytes) : a \in {b \in DOMAIN s.allocs : Sharing(s, b) # {}}}

\* The live bytes are exactly those of the allocations that live values
\* share, each counted once, and the peak never fell behind them.
AccountingExact ==
    phase = "running" =>
        /\ \A a \in DOMAIN sched.allocs : sched.allocs[a].refs = Cardinality(Sharing(sched, a))
        /\ sched.live = Cardinality(LiveBytes(sched))
        /\ sched.peak >= sched.live
        /\ DOMAIN runtime = DOMAIN sched.values

\* Neither the executor nor the built-in provider meets an inconsistency of
\* its own in a graph that was built, on inputs of the recorded lengths, when
\* no conversion plans scratch (which the built-in provider turns down): no
\* value is missing when it is used, no count underflows, no length differs.
\* That the kernels stay within their buffers is FactsAddressStorage.
NoInternalError ==
    phase = "done" /\ OnlyBuiltinCasts /\ (\A n \in DOMAIN nodes : StaticTransient(nodes[n]) = 0)
        => result.kind # "integrity"

\* Where output_input_alias names an input, the returned view is that
\* input's memory: the materializer charges no output bytes for it.
StaticAliasHonoured ==
    Succeeded /\ OutputInputAlias(output) # None
        => result.view.owner = OutputInputAlias(output)

\* The returned view is an external input's memory.
ReturnsInput == result.view.owner[1] = "in"

\* The scratch an execution reports is at most the estimate; where an identity
\* conversion let the output keep an external input's memory, at most the
\* estimate and the output that was not allocated.
EstimateBoundsOwnedOutput ==
    Succeeded /\ estimate.kind = "ok" =>
        \/ result.scratch <= estimate.bytes
        \/ ReturnsInput /\ result.scratch <= estimate.bytes + Facts(output).bytes

\* The doc of estimate_host_scratch_bytes: an upper bound for graph-owned
\* scratch, for every graph.
EstimateBoundsScratch ==
    Succeeded /\ estimate.kind = "ok" => result.scratch <= estimate.bytes

=============================================================================
