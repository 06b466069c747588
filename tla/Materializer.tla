----------------------------- MODULE Materializer -----------------------------
(***************************************************************************)
(* The materializer (materialize.rs): executions of binding plans against  *)
(* opened checkpoints, which share one prepared cache.  A session obtains  *)
(* a plan, opens it against a checkpoint, and then prepares each binding:  *)
(* from the cache, on the host, or as a handoff to the consumer's provider.*)
(*                                                                         *)
(* Bytes are terms that say what they were computed from, so that serving  *)
(* bytes of another file, contract, overlay or backend is seen.  The cache *)
(* is a map from addresses to entries (Cache is about one entry on disk),  *)
(* and an acquisition succeeds or fails at once (Pipeline is about waiting).*)
(***************************************************************************)
EXTENDS Overlay

CONSTANTS
    Sessions,          \* the executions that share the cache
    Requests,          \* what a caller may ask of a session
    Limits,            \* ExecutionLimits: [source, scratch, prepared] bytes
    MaxWorkItems,      \* ExecutionLimits::max_work_items
    MaxTampering       \* bound on out-of-band changes of cache entries

ASSUME MaterializerAssumption ==
    /\ Limits \in [source : Nat, scratch : Nat, prepared : Nat]
    /\ MaxWorkItems \in Nat \ {0}
    /\ MaxTampering \in Nat

VARIABLES
    session,       \* session -> [phase, request, plan, tasks, error]
    cache,         \* address -> [value, len, intact]
    tampering      \* out-of-band changes so far

vars == <<session, cache, tampering>>

Weights(source, scratch, prepared) == [source |-> source, scratch |-> scratch, prepared |-> prepared]
Nothing == Weights(0, 0, 0)
Covered(w, by) == \A d \in DOMAIN w : w[d] <= by[d]
Missed(required, reserved) ==
    [d \in DOMAIN required |-> IF required[d] > reserved[d] THEN required[d] - reserved[d] ELSE 0]
MaxWeights(a, b) == [d \in DOMAIN a |-> IF a[d] > b[d] THEN a[d] ELSE b[d]]

Larger(m, n) == IF m > n THEN m ELSE n
Smaller(m, n) == IF m < n THEN m ELSE n

----------------------------------------------------------------------------
(* The bindings of a session.                                              *)

Request(s) == session[s].request
Bindings(s) == session[s].plan.bindings
Tasks(s) == DOMAIN session[s].tasks

\* overlay_for_binding: an overlay without operations on the target is none.
Overlaid(q, b) ==
    /\ q.overlay # Absent
    /\ Resolve(AliasTable(q.overlay.aliases), b.target.name) \in BaseNames(q.overlay)
    /\ TargetOperations(q.overlay, b.target.name) # <<>>

\* binding_source_content: the descriptors and only the files they refer to.
SourceContent(plan, b) ==
    [k \in DOMAIN b.sources |->
        [source |-> b.sources[k],
         digests |-> [file \in FileOrdinals(b.sources[k].storage) |-> plan.inputs.digests[file]]]]

\* cache_address_for_binding: has_final_host_output, then the address.
FinalHostOutput(b, overlaid) ==
    IF b.target.graph # Absent THEN overlaid \/ b.target.graph.alias = Absent
    ELSE IF b.sources[1].storage.kind = "plain"
         THEN b.target.recipe # Absent \/ b.target.transforms # <<>> \/ overlaid
         ELSE b.target.route.kind = "hostDequant"

CacheAddress(q, plan, b, overlaid) ==
    IF ~FinalHostOutput(b, overlaid) THEN Absent
    ELSE [contract |-> b.target,
          overlay |-> IF overlaid THEN TargetDigest(q.overlay, b.target.name) ELSE Absent,
          backend |-> plan.inputs.backend, sources |-> SourceContent(plan, b)]

\* The spans a binding reads, each once.
UniqueSpans(b) == UNION {Range(Spans(b.sources[k].storage)) : k \in DOMAIN b.sources}
TotalLen(spans) == Cardinality(UNION {{span} \X (1 .. span.len) : span \in spans})

\* source_span_uses_mapping, source_span_is_guaranteed_mapped.
UsesMapping(q, span) == q.checkpoint.kinds[span.file] = "retained" /\ q.checkpoint.access \in {"auto", "mmap"}
GuaranteedMapped(q, span) == UsesMapping(q, span) /\ q.checkpoint.access = "mmap"

\* CheckpointFile::read_span: what is read to the heap, where the mappings of
\* `failed` could not be made.  Only automatic access falls back to reading.
MayFallBack(q, span) == UsesMapping(q, span) /\ q.checkpoint.access = "auto"
HeapSpans(q, spans, failed) == {span \in spans : ~UsesMapping(q, span)} \cup failed

\* The largest of live[1] .. live[n].
Peak(live) ==
    LET Through[k \in 0 .. Len(live)] == IF k = 0 THEN 0 ELSE Larger(Through[k - 1], live[k])
    IN  Through[Len(live)]

\* Variant: the input of a transform is not counted while it runs.
PeakScratchOutputsOnly(transforms) ==
    Peak([k \in 1 .. Len(transforms) |->
        (IF k < Len(transforms) THEN transforms[k].out ELSE 0) + transforms[k].scratch])

\* peak_transform_scratch_bytes: the intermediates on both sides of a step,
\* and the provider's workspace.
PeakTransformScratch(transforms) ==
    Peak([k \in 1 .. Len(transforms) |->
        (IF k > 1 THEN transforms[k - 1].out ELSE 0)
        + (IF k < Len(transforms) THEN transforms[k].out ELSE 0)
        + transforms[k].scratch])

\* resource_weights.
ResourceWeights(q, b) ==
    LET resident == TotalLen(UniqueSpans(b))
        read == TotalLen({span \in UniqueSpans(b) : ~GuaranteedMapped(q, span)})
        handed == \/ b.target.recipe # Absent
                  \/ b.sources[1].storage.kind = "quantized"
                  \/ b.target.graph # Absent /\ q.mode = "delegate"
    IN  Weights(read,
                IF b.target.graph = Absent THEN PeakTransformScratch(b.target.transforms)
                ELSE IF q.mode = "delegate" THEN 0 ELSE b.target.graph.estimate,
                IF handed THEN resident ELSE b.target.out)

\* Variant: a cache candidate reserves what a hit delivers.
ScheduledForHit(q, plan, b) ==
    IF q.cached /\ CacheAddress(q, plan, b, Overlaid(q, b)) # Absent
    THEN Weights(0, 0, Smaller(b.target.out, Limits.prepared))
    ELSE ResourceWeights(q, b)

\* What execute schedules: a cache candidate reserves only delivered bytes,
\* of whichever route delivers most.
Scheduled(q, plan, b) ==
    IF q.cached /\ CacheAddress(q, plan, b, Overlaid(q, b)) # Absent
    THEN Weights(0, 0, Smaller(Larger(ResourceWeights(q, b).prepared, b.target.out), Limits.prepared))
    ELSE ResourceWeights(q, b)

----------------------------------------------------------------------------
(* What bytes mean.                                                        *)

Bytes(contents, span) == <<"bytes", contents[span.file], span.at, span.len>>
ReadBytes(contents, storage) == [k \in DOMAIN Spans(storage) |-> Bytes(contents, Spans(storage)[k])]

\* The handoff of a binding: the bytes of its sources in order.
SourceBytes(q, b) == [k \in DOMAIN b.sources |-> ReadBytes(q.checkpoint.contents, b.sources[k].storage)]

\* One preparation.  Whether it reuses its input is the choice of the
\* implementation that the contract pins, and so the same in every session.
Transformed(step, shape, value) ==
    IF step.answer.kind = "reuse" THEN value
    ELSE <<"transform", step.implementation, step.source, step.target, shape, value>>

\* prepare_chain: the bytes after each step of a target's transforms.
Chained(t, bytes) ==
    LET After[k \in 0 .. Len(t.transforms)] ==
            IF k = 0 THEN bytes ELSE Transformed(t.transforms[k], t.shape, After[k - 1])
    IN  After

\* What executing a graph returns: where output_input_alias names an input,
\* the bytes of that input.  GraphExecution is about the execution itself.
GraphValue(graph, bytes) == IF graph.alias # Absent THEN bytes[graph.alias][1] ELSE <<"graph", graph, bytes>>

\* What a provider makes of the packed bytes or of the recipe handed to it.
ProviderValue(plan, b, bytes) ==
    IF b.sources[1].storage.kind = "quantized"
    THEN <<"dequant", b.target.route, plan.inputs.backend, bytes>>
    ELSE <<"recipe", b.target.recipe, b.target.name, plan.inputs.backend, bytes>>

\* materialize_base_binding: the tensor that the bytes of its sources are for.
BaseValue(plan, b, bytes) ==
    LET t == b.target
    IN  IF t.graph # Absent THEN GraphValue(t.graph, bytes)
        ELSE IF b.sources[1].storage.kind = "quantized" \/ t.recipe # Absent THEN ProviderValue(plan, b, bytes)
        ELSE Chained(t, bytes[1][1])[Len(t.transforms)]

\* The overlay operations on a target, with the bytes they read, on a base.
Applied(o, name, base) ==
    LET refs == OperationRefs(o, Resolve(AliasTable(o.aliases), name))
        Layer(k) == o.layers[refs[k][1]]
        Op(k) == Layer(k).operations[refs[k][2]]
    IN  <<"overlay", base,
          [k \in DOMAIN refs |->
              <<Op(k), {ReadBytes(Layer(k).digests, source.storage) : source \in OperationSources(Op(k))}>>]>>

\* What the files of a request, the contract and the overlay make of a binding.
FreshBase(q, plan, b) == BaseValue(plan, b, SourceBytes(q, b))
Fresh(q, plan, b, overlaid) ==
    IF overlaid THEN Applied(q.overlay, b.target.name, FreshBase(q, plan, b)) ELSE FreshBase(q, plan, b)

----------------------------------------------------------------------------
(* Plans and sessions.                                                     *)

Idle == [phase |-> "idle", request |-> Absent, plan |-> Absent, tasks |-> <<>>, error |-> Absent]

Init ==
    /\ session = [s \in Sessions |-> Idle]
    /\ cache = <<>>
    /\ tampering = 0

\* The plan a caller ends up with, or Absent: built, parsed from canonical
\* bytes, or looked up in the plan cache (lookup_binding_plan).
PlanObtained(from) ==
    LET TargetsValid(r) == \A t \in Range(r.targets) :
            TargetAccepted(t) /\ (t.recipe # Absent => RecipeAccepted(t.recipe))
    IN  CASE from.kind = "build" ->
                IF /\ TargetsValid(from.request)
                   /\ \A source \in Range(from.request.sources) : SourceAccepted(source)
                   /\ PlanValid(from.request)
                THEN BuiltPlan(from.request) ELSE Absent
          [] from.kind = "parse" -> IF Parses(from.wire) THEN from.wire.plan ELSE Absent
          [] from.kind = "lookup" -> IF Parses(from.wire) /\ from.wire.id = from.id THEN from.wire.plan ELSE Absent

\* A caller obtains a plan.  Who trusts metadata promises a protected root.
ObtainPlan(s) ==
    /\ session[s].phase = "idle"
    /\ \E q \in Requests :
          /\ q.validation = "trusted" => tampering = 0
          /\ session' = [session EXCEPT ![s] =
                 [@ EXCEPT !.request = q, !.plan = PlanObtained(q.from),
                           !.phase = IF PlanObtained(q.from) = Absent THEN "rejected" ELSE "planned"]]
    /\ UNCHANGED <<cache, tampering>>

\* Variant: the descriptors are compared and the digests are not.
OpensUndigested(q, plan) == plan.sources = ByName(q.checkpoint.inventory)

\* new_with_observer: digests, then the complete inventory.
Opens(q, plan) ==
    /\ plan.inputs.digests = q.checkpoint.contents
    /\ plan.sources = ByName(q.checkpoint.inventory)

\* with_overlay_plan: each selected base must be the one the overlay is for.
OverlayAttaches(q, plan) ==
    q.overlay # Absent =>
        /\ OverlayAccepted(q.overlay)
        /\ \A b \in Range(plan.bindings) :
              LET name == Resolve(AliasTable(q.overlay.aliases), b.target.name)
              IN  name \in BaseNames(q.overlay) =>
                      /\ BaseNamed(q.overlay, name).shape = b.target.shape
                      /\ BaseNamed(q.overlay, name).content = SourceContent(plan, b)

\* What the builder of a plan held, also of one that was serialized.
AskedOf(from) == IF from.kind = "build" THEN from.request ELSE RequestOf(from.wire.plan)

\* A request has lists of sources and targets with names, and a serialized
\* plan the fields of a plan.  The plan of a request that can be opened has a
\* source in each binding (Binding::new) and is made of sizes in bytes, of
\* finitely many spans and of a sequence of transforms, and no digest or
\* address is None.  The peak of a graph is one that an execution can have:
\* within the estimate, or within the estimate and the output where the output
\* is an input's memory (EstimateBoundsOwnedOutput of GraphExecution).
ASSUME RequestAssumption ==
    \A q \in Requests :
        /\ q # Absent /\ q.validation \in {"full", "trusted"}
        /\ q.from.kind \in {"build", "parse", "lookup"}
        /\ \A entries \in {AskedOf(q.from).sources, AskedOf(q.from).targets} :
              /\ entries \in Seq(Range(entries))
              /\ \A k \in DOMAIN entries : entries[k].name \in Nat
        /\ q.from.kind # "build" =>
              LET p == q.from.wire.plan
              IN  p = [inputs |-> p.inputs, policy |-> p.policy, sources |-> p.sources, targets |-> p.targets,
                       bindings |-> p.bindings, missing |-> p.missing, unused |-> p.unused]
        /\ LET plan == PlanObtained(q.from)
           IN  plan # Absent /\ Opens(q, plan) /\ OverlayAttaches(q, plan) =>
                  \A b \in Range(plan.bindings) :
                      /\ 1 \in DOMAIN b.sources /\ b.sources[1].storage.kind \in {"plain", "quantized"}
                      /\ b.target.out \in Nat
                      /\ b.target.transforms \in Seq(Range(b.target.transforms))
                      /\ \A step \in Range(b.target.transforms) : step.out \in Nat /\ step.scratch \in Nat
                      /\ b.target.graph # Absent =>
                            LET graph == b.target.graph
                            IN  /\ graph.estimate \in Nat /\ graph.peak \in Nat /\ graph.owns \in BOOLEAN
                                /\ graph.peak <= graph.estimate + (IF graph.owns THEN 0 ELSE graph.facts.bytes)
                      /\ IsFiniteSet(UniqueSpans(b)) /\ \A span \in UniqueSpans(b) : span.len \in Nat
                      /\ Overlaid(q, b) => TargetDigest(q.overlay, b.target.name) # Absent
                      /\ \A overlaid \in {FALSE, Overlaid(q, b)} :
                            FinalHostOutput(b, overlaid) => CacheAddress(q, plan, b, overlaid) # Absent

OpenSession(s) ==
    /\ session[s].phase = "planned"
    /\ session' = [session EXCEPT ![s].phase =
          IF Opens(Request(s), session[s].plan) /\ OverlayAttaches(Request(s), session[s].plan)
          THEN "open" ELSE "rejected"]
    /\ UNCHANGED <<cache, tampering>>

NewTask(q, plan, b) ==
    [pc |-> "lookup", stage |-> IF Overlaid(q, b) THEN "overlay" ELSE "base", handle |-> Absent,
     reserved |-> Scheduled(q, plan, b), held |-> Nothing, step |-> 1, value |-> Absent,
     len |-> 0, delivery |-> Absent, error |-> Absent, grew |-> FALSE, published |-> FALSE]

\* execute, with the pipeline's own check of the work it is given.
Execute(s) ==
    LET q == Request(s)
        plan == session[s].plan
    IN  /\ session[s].phase = "open"
        /\ session' = [session EXCEPT ![s] =
              IF /\ Len(plan.bindings) <= MaxWorkItems
                 /\ \A b \in Range(plan.bindings) : Covered(Scheduled(q, plan, b), Limits)
              THEN [@ EXCEPT !.phase = "running",
                             !.tasks = [i \in DOMAIN plan.bindings |-> NewTask(q, plan, plan.bindings[i])]]
              ELSE [@ EXCEPT !.phase = "rejected", !.error = "limit"]]
        /\ UNCHANGED <<cache, tampering>>

----------------------------------------------------------------------------
(* One binding.                                                            *)

Task(s, i) == session[s].tasks[i]
SetTask(s, i, t) == session' = [session EXCEPT ![s].tasks[i] = t]
Address(s, i) == CacheAddress(Request(s), session[s].plan, Bindings(s)[i], Task(s, i).stage = "overlay")

Failed(t, error) == [t EXCEPT !.pc = "failed", !.error = error, !.held = Nothing, !.reserved = Nothing]

\* with_resources, up to its callback: a growth of the prepared bytes gives
\* the old ones back first, and what exceeds a limit fails.
WithResources(t, required, pc) ==
    LET grows == required.prepared > t.reserved.prepared
        missing == Missed(required, IF grows THEN [t.reserved EXCEPT !.prepared = 0] ELSE t.reserved)
    IN  IF ~Covered(missing, Limits) THEN Failed(t, "limit")
        ELSE [t EXCEPT !.pc = pc, !.reserved = MaxWeights(@, required), !.grew = @ \/ grows]

\* No cached bytes: the base follows the overlay, the sources follow the base.
AfterMiss(s, i, t) ==
    IF t.stage = "overlay" THEN [t EXCEPT !.stage = "base", !.pc = "lookup", !.handle = Absent]
    ELSE WithResources([t EXCEPT !.handle = Absent], ResourceWeights(Request(s), Bindings(s)[i]), "source")

\* try_cached_prepared, to the open handle.  The handle keeps its generation.
Lookup(s, i) ==
    LET t == Task(s, i)
        out == Bindings(s)[i].target.out
    IN  /\ t.pc = "lookup"
        /\ IF ~Request(s).cached \/ Address(s, i) = Absent THEN SetTask(s, i, AfterMiss(s, i, t))
           ELSE IF Address(s, i) \notin DOMAIN cache THEN SetTask(s, i, AfterMiss(s, i, t))
           ELSE IF cache[Address(s, i)].len # out THEN SetTask(s, i, [t EXCEPT !.pc = "evict"])
           ELSE SetTask(s, i, WithResources([t EXCEPT !.handle = cache[Address(s, i)]],
                                            Weights(0, 0, out), "read"))
        /\ UNCHANGED <<cache, tampering>>

\* A delivery: source and scratch are given back, an overlay wraps its base.
Deliver(s, i, t, kind, value, resident) ==
    [t EXCEPT !.pc = "done", !.held = Weights(0, 0, resident),
              !.reserved = Weights(0, 0, @.prepared), !.value = Absent,
              !.delivery = [kind |-> kind, value |-> value, resident |-> resident,
                            wrapped |-> t.stage = "base" /\ Overlaid(Request(s), Bindings(s)[i])]]

\* read_cache_entry, under the session's validation.
ReadEntry(s, i) ==
    LET t == Task(s, i)
        out == Bindings(s)[i].target.out
    IN  /\ t.pc = "read"
        /\ SetTask(s, i, IF Request(s).validation = "full" /\ ~t.handle.intact
                         THEN [t EXCEPT !.pc = "evict", !.handle = Absent]
                         ELSE Deliver(s, i, [t EXCEPT !.handle = Absent], "prepared", t.handle.value, out))
        /\ UNCHANGED <<cache, tampering>>

\* The eviction of a corrupt entry: whatever is now at its address.
EvictCorrupt(s, i) ==
    /\ Task(s, i).pc = "evict"
    /\ cache' = Restrict(cache, DOMAIN cache \ {Address(s, i)})
    /\ SetTask(s, i, AfterMiss(s, i, Task(s, i)))
    /\ UNCHANGED tampering

\* What each route does with the bytes it has read: a graph runs here or is
\* handed to the provider, and so are recipes and quantized storage.
GraphRoute(s, i, t, bytes, resident) ==
    IF Request(s).mode = "delegate" THEN Deliver(s, i, t, "operation", bytes, resident)
    ELSE [t EXCEPT !.pc = "graph", !.value = bytes]
QuantizedRoute(s, i, t, bytes, resident) == Deliver(s, i, t, "quantized", bytes, resident)
ConversionRoute(s, i, t, bytes, resident) == Deliver(s, i, t, "conversion", bytes, resident)
PlainRoute(s, i, t, bytes, resident) ==
    [t EXCEPT !.pc = IF Bindings(s)[i].target.transforms = <<>> THEN "publish" ELSE "transform",
              !.value = bytes[1][1], !.len = resident]

\* materialize_base_binding: the route of a binding.
Route(s, i, t, bytes, resident) ==
    LET b == Bindings(s)[i]
    IN  IF b.target.graph # Absent THEN GraphRoute(s, i, t, bytes, resident)
        ELSE IF b.sources[1].storage.kind = "quantized" THEN QuantizedRoute(s, i, t, bytes, resident)
        ELSE IF b.target.recipe # Absent THEN ConversionRoute(s, i, t, bytes, resident)
        ELSE PlainRoute(s, i, t, bytes, resident)

\* read_source and read_operation_inputs: each span once.  With automatic
\* access a mapping may fail, and the span is read to the heap.
ReadSources(s, i) ==
    LET q == Request(s)
        spans == UniqueSpans(Bindings(s)[i])
    IN  /\ Task(s, i).pc = "source"
        /\ \E failed \in SUBSET {span \in spans : MayFallBack(q, span)} :
              SetTask(s, i, Route(s, i, [Task(s, i) EXCEPT !.held = Weights(TotalLen(HeapSpans(q, spans, failed)), 0, 0)],
                                  SourceBytes(q, Bindings(s)[i]), TotalLen(spans)))
        /\ UNCHANGED <<cache, tampering>>

\* prepare_with_cancellation: validate_reused_output, or
\* validate_allocated_storage and the length of what the provider returned.
Conforms(step, len) ==
    \/ step.answer.kind = "reuse" /\ step.scratch = 0 /\ len = step.out
    \/ /\ step.answer.kind = "allocate"
       /\ step.answer.output = step.out /\ step.answer.scratch = step.scratch
       /\ step.answer.returned = step.out

\* One step of prepare_chain.  An input the previous step made is an
\* intermediate, and so is an output the next step takes.
TransformStep(s, i) ==
    LET t == Task(s, i)
        target == Bindings(s)[i].target
        step == target.transforms[t.step]
        last == t.step = Len(target.transforms)
        reuses == step.answer.kind = "reuse"
        input == IF t.value \in {Bytes(Request(s).checkpoint.contents, span) : span \in UniqueSpans(Bindings(s)[i])}
                 THEN 0 ELSE t.len
    IN  /\ t.pc = "transform"
        /\ SetTask(s, i,
              IF ~Conforms(step, t.len) THEN Failed(t, "provider")
              ELSE [t EXCEPT !.pc = IF last THEN "publish" ELSE "transform",
                             !.step = @ + 1,
                             !.value = Transformed(step, target.shape, @),
                             !.len = step.out,
                             !.held = Weights(@.source,
                                              input + step.scratch + (IF last \/ reuses THEN 0 ELSE step.out),
                                              IF last /\ ~reuses THEN step.out ELSE 0)])
        /\ UNCHANGED <<cache, tampering>>

\* execute_host: the graph runs to its end, and holds its peak on the way.
RunGraph(s, i) ==
    LET t == Task(s, i)
        graph == Bindings(s)[i].target.graph
    IN  /\ t.pc = "graph"
        /\ SetTask(s, i, [t EXCEPT !.pc = "compare", !.len = graph.facts.bytes,
                                  !.value = GraphValue(graph, t.value),
                                  !.held = Weights(@.source, graph.peak, IF graph.owns THEN graph.facts.bytes ELSE 0)])
        /\ UNCHANGED <<cache, tampering>>

\* Only then is the peak compared with the estimate that was reserved.
CompareScratch(s, i) ==
    LET t == Task(s, i)
        graph == Bindings(s)[i].target.graph
    IN  /\ t.pc = "compare"
        /\ SetTask(s, i, IF graph.peak > graph.estimate THEN Failed(t, "estimate")
                         ELSE [t EXCEPT !.pc = "publish", !.held = [@ EXCEPT !.scratch = 0]])
        /\ UNCHANGED <<cache, tampering>>

\* publish_reader: an intact entry stays, anything else is replaced.
Published(address, value, len) ==
    IF address \in DOMAIN cache /\ cache[address].intact /\ cache[address].len = len THEN cache
    ELSE [a \in DOMAIN cache \cup {address} |->
             IF a = address THEN [value |-> value, len |-> len, intact |-> TRUE] ELSE cache[a]]

\* The end of a host preparation: length check, publication, delivery.
PublishOwn(s, i) ==
    LET t == Task(s, i)
    IN  /\ t.pc = "publish"
        /\ IF t.len # Bindings(s)[i].target.out
           THEN SetTask(s, i, Failed(t, "integrity")) /\ UNCHANGED cache
           ELSE /\ cache' = IF Request(s).cached /\ Address(s, i) # Absent
                            THEN Published(Address(s, i), t.value, t.len) ELSE cache
                /\ SetTask(s, i, Deliver(s, i, t, "prepared", t.value, t.len))
        /\ UNCHANGED tampering

\* publish_prepared_bytes: a provider finished what was handed to it.  The
\* length is checked, and a binding without an address is refused.
ProviderPublish(s, i) ==
    LET t == Task(s, i)
        b == Bindings(s)[i]
        q == Request(s)
        address == CacheAddress(q, session[s].plan, b, Overlaid(q, b))
        base == IF t.delivery.kind = "prepared" THEN t.delivery.value
                ELSE BaseValue(session[s].plan, b, t.delivery.value)
    IN  /\ t.pc = "done"
        /\ t.delivery.kind # "prepared" \/ t.delivery.wrapped
        /\ ~t.published
        /\ q.cached
        /\ address # Absent
        /\ cache' = Published(address,
                              IF t.delivery.wrapped THEN Applied(q.overlay, b.target.name, base) ELSE base,
                              b.target.out)
        /\ SetTask(s, i, [t EXCEPT !.published = TRUE])
        /\ UNCHANGED tampering

----------------------------------------------------------------------------
(* The world around: eviction for space, and changes of the cache root,    *)
(* which metadata-only validation is told not to meet.                     *)

EvictForSpace ==
    /\ \E a \in DOMAIN cache : cache' = Restrict(cache, DOMAIN cache \ {a})
    /\ UNCHANGED <<session, tampering>>

Protected == \E s \in Sessions : session[s].request # Absent /\ Request(s).validation = "trusted"
Tamper ==
    /\ tampering < MaxTampering
    /\ ~Protected
    /\ \E a \in DOMAIN cache : \E len \in {cache[a].len, cache[a].len + 1} :
          cache' = [cache EXCEPT ![a] = [value |-> <<"garbage">>, len |-> len, intact |-> FALSE]]
    /\ tampering' = tampering + 1
    /\ UNCHANGED session

Next ==
    \/ \E s \in Sessions : ObtainPlan(s) \/ OpenSession(s) \/ Execute(s)
    \/ \E s \in Sessions : \E i \in Tasks(s) :
          \/ Lookup(s, i) \/ ReadEntry(s, i) \/ EvictCorrupt(s, i) \/ ReadSources(s, i)
          \/ TransformStep(s, i) \/ RunGraph(s, i) \/ CompareScratch(s, i)
          \/ PublishOwn(s, i) \/ ProviderPublish(s, i)
    \/ EvictForSpace
    \/ Tamper

Spec == Init /\ [][Next]_vars

----------------------------------------------------------------------------
(* Properties.                                                             *)

Opened == {s \in Sessions : session[s].phase \in {"open", "running"}}

\* What the materializer delivers as prepared bytes, from the cache or from
\* the host, is what the opened files, the contract, the overlay and the
\* backend of this session make it, whatever other sessions published under
\* the shared root, and whatever was changed there, if it validates in full.
DeliveredIsFresh ==
    \A s \in Opened : \A i \in Tasks(s) :
        Task(s, i).pc = "done" /\ Task(s, i).delivery.kind = "prepared" =>
            LET b == Bindings(s)[i]
            IN  Task(s, i).delivery.value =
                    Fresh(Request(s), session[s].plan, b,
                          Overlaid(Request(s), b) /\ ~Task(s, i).delivery.wrapped)

\* An address determines the bytes: an intact entry is what every session with
\* a binding at its address would compute, also the sessions that have not
\* looked yet.  It is what makes prepared_cache_address safe to share between
\* hosts, providers and overlays.
AddressesDetermineBytes ==
    \A s \in Opened : \A b \in Range(Bindings(s)) : \A overlaid \in {FALSE, Overlaid(Request(s), b)} :
        LET a == CacheAddress(Request(s), session[s].plan, b, overlaid)
        IN  a # Absent /\ a \in DOMAIN cache /\ cache[a].intact =>
                /\ cache[a].value = Fresh(Request(s), session[s].plan, b, overlaid)
                /\ cache[a].len = b.target.out

\* The heap a binding holds, at each step of its route and in its delivery, is
\* covered by what it has reserved then: resource_weights, the reservation of
\* cache candidates and with_resources agree with what the routes allocate.
\* Only a graph that has run and returns an input's memory may hold scratch
\* beyond its estimate, before it is compared, and never more than scratch and
\* prepared bytes together.
ReservationCovers ==
    \A s \in Opened : \A i \in Tasks(s) :
        LET held == Task(s, i).held
            reserved == Task(s, i).reserved
        IN  \/ Covered(held, reserved)
            \/ /\ Task(s, i).pc = "compare" /\ ~Bindings(s)[i].target.graph.owns
               /\ held.source <= reserved.source
               /\ held.scratch + held.prepared <= reserved.scratch + reserved.prepared

\* A deferred acquisition never grows the prepared bytes of an item: execute
\* reserves for the route that delivers most.  The pipeline ends only under
\* this condition (Terminates of Pipeline).
PreparedNeverGrows == \A s \in Opened : \A i \in Tasks(s) : ~Task(s, i).grew

\* What planning accepted does not fail later: a task ends in an error only
\* for a byte limit, for a provider that does not do what the plan records,
\* or for a graph that exceeds its scratch estimate.
PlannedDoesNotFail ==
    \A s \in Opened : \A i \in Tasks(s) :
        /\ Task(s, i).error \in {Absent, "limit", "provider", "estimate"}
        /\ Task(s, i).pc = "transform" =>
              LET t == Bindings(s)[i].target
                  before == IF Task(s, i).step > 1 THEN t.transforms[Task(s, i).step - 1].target
                            ELSE [dtype |-> Bindings(s)[i].sources[1].storage.dtype, layout |-> Contiguous]
              IN  t.transforms[Task(s, i).step].source = before

Reordered(entries) == {[k \in DOMAIN entries |-> entries[p[k]]] : p \in Bijection(DOMAIN entries, DOMAIN entries)}

\* A plan, built, parsed or looked up, is the one that planning makes of its
\* own sources and targets, in whichever order they are given: it has one
\* canonical form, and so one identity.
PlanIsCanonical ==
    \A s \in Sessions : session[s].plan # Absent =>
        LET p == session[s].plan
        IN  \A sources \in Reordered(p.sources), targets \in Reordered(p.targets) :
                LET r == [RequestOf(p) EXCEPT !.sources = sources, !.targets = targets]
                IN  /\ Diagnostics(r) = Diagnostics(RequestOf(p))
                    /\ PlanValid(r) /\ BuiltPlan(r) = p

\* In an accepted plan two targets read one source, as any of their inputs,
\* only within one tied-weight group.
SharedOnlyWhenTied ==
    \A s \in Sessions : session[s].plan # Absent =>
        \A b, c \in Range(session[s].plan.bindings) :
            b # c /\ Range(b.sources) \cap Range(c.sources) # {} =>
                b.target.group = c.target.group /\ b.target.group # Absent
=============================================================================
