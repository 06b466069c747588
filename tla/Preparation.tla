----------------------------- MODULE Preparation -----------------------------
(***************************************************************************)
(* The preparation engine (prepare.rs): it resolves the provider a         *)
(* transform pins, lets it validate the request, and returns either the    *)
(* source view itself or one new buffer of the planned length.             *)
(*                                                                         *)
(* A view is [owner, cells]: whose memory it is and what its elements are. *)
(* The operators return the set of outcomes a call may have, because a     *)
(* consumer's provider may answer anything its trait allows.  A token that *)
(* is cancelled while a call runs ends it with "cancelled"; the callers    *)
(* model that, as no other effect of the call is left behind.              *)
(***************************************************************************)
EXTENDS Tensors

CONSTANTS
    Registered     \* implementation ids the engine's registry resolves

Builtin == "model-weights/contiguous-cast"

Prepared(view) == [kind |-> "ok", view |-> view]
PrepareError(kind) == [kind |-> kind]

\* The element values: where an element came from, and the conversions it
\* went through.  Zero is what a fresh buffer holds.
Element(input, offset) == [input |-> input, offset |-> offset, casts |-> <<>>]
Zero == [input |-> 0, offset |-> 0, casts |-> <<>>]
Opaque == [input |-> 0, offset |-> 1, casts |-> <<>>]

\* f16::from_f32 and its relatives: the value is rounded to the target, and
\* widened to f32 first when neither side is f32.
CastElement(target, e) == [e EXCEPT !.casts = Append(@, target)]

\* A view of a new buffer.  An empty Box<[u8]> points at no memory: all of
\* them have the same address.
OwnedView(owner, cells) ==
    [owner |-> IF cells = <<>> THEN <<"dangling">> ELSE owner, cells |-> cells]

\* same_view of operation.rs: equal length and address.
SameView(left, right) == left.owner = right.owner /\ left.cells = right.cells

IsBuiltinFloat(dtype) == dtype \in {"f32", "f16", "bf16"}

\* A request carries what PrepareRequest does; `width` is the element width
\* of the source view, so that Len(cells) * width is its length in bytes.
SourceBytes(r) == Len(r.view.cells) * r.width

\* ContiguousProvider::validate.
ContiguousValidate(r) ==
    IF r.source.layout # Contiguous \/ r.target.layout # Contiguous THEN {[kind |-> "unsupported"]}
    ELSE IF ~ByteLenFits(r.source.dtype, r.shape) THEN {[kind |-> "limit"]}
    ELSE IF SourceBytes(r) # ByteLen(r.source.dtype, r.shape) THEN {[kind |-> "integrity"]}
    ELSE IF ~ByteLenFits(r.target.dtype, r.shape) THEN {[kind |-> "limit"]}
    ELSE IF r.outputBytes # ByteLen(r.target.dtype, r.shape) THEN {[kind |-> "integrity"]}
    ELSE IF r.source.dtype = r.target.dtype THEN {[kind |-> "reuse"]}
    ELSE IF \/ IsBuiltinFloat(r.source.dtype) /\ IsBuiltinFloat(r.target.dtype)
            \/ r.source.dtype = "u8" /\ r.target.dtype = "f32"
         THEN {[kind |-> "allocate", output |-> ByteLen(r.target.dtype, r.shape), scratch |-> 0]}
    ELSE {[kind |-> "unsupported"]}

\* cast_float_bytes_owned and collect_cast_blocks: each element converted.
CastCells(target, cells) == [k \in DOMAIN cells |-> CastElement(target, cells[k])]

\* ContiguousProvider::prepare_allocated: exactly the planned output, no
\* scratch.
ContiguousPrepare(r, owner) ==
    IF r.scratchBytes # 0 \/ Len(r.view.cells) * Width(r.target.dtype) # r.outputBytes
    THEN PrepareError("integrity")
    ELSE Prepared(OwnedView(owner, CastCells(r.target.dtype, r.view.cells)))

\* A consumer's provider: it may fail, reuse, or ask for other sizes than the
\* plan's, and may return a buffer of another length.
PluginValidate(r) ==
    {[kind |-> "unsupported"], [kind |-> "reuse"]} \cup
    [kind : {"allocate"}, output : {r.outputBytes, r.outputBytes + 1},
     scratch : {0, r.scratchBytes}]

PluginPrepare(r, owner) ==
    LET elements == r.outputBytes \div Width(r.target.dtype)
    IN  {PrepareError("integrity")} \cup
        {Prepared(OwnedView(owner, [k \in 1 .. n |-> Opaque])) : n \in {elements, elements + 1}}

Validate(r) == IF r.implementation = Builtin THEN ContiguousValidate(r) ELSE PluginValidate(r)

PrepareAllocated(r, owner) ==
    IF r.implementation = Builtin THEN {ContiguousPrepare(r, owner)} ELSE PluginPrepare(r, owner)

\* validate_reused_output: the plan needs no scratch and the source has the
\* planned length.
ReuseAccepted(r) == r.scratchBytes = 0 /\ SourceBytes(r) = r.outputBytes

\* validate_allocated_storage: the provider's sizes are the plan's.
StorageAccepted(r, strategy) ==
    strategy.output = r.outputBytes /\ strategy.scratch = r.scratchBytes

\* The length check on what prepare_allocated returned.
LengthAccepted(r, outcome) ==
    outcome.kind = "ok" => Len(outcome.view.cells) * Width(r.target.dtype) = r.outputBytes

AllocatedOutcome(r, outcome) ==
    IF LengthAccepted(r, outcome) THEN outcome ELSE PrepareError("integrity")

\* What one strategy leads to.
StrategyOutcomes(r, strategy, owner) ==
    CASE strategy.kind = "reuse" ->
            {IF ReuseAccepted(r) THEN Prepared(r.view) ELSE PrepareError("integrity")}
      [] strategy.kind = "allocate" ->
            IF StorageAccepted(r, strategy)
            THEN {AllocatedOutcome(r, outcome) : outcome \in PrepareAllocated(r, owner)}
            ELSE {PrepareError("integrity")}
      [] OTHER -> {PrepareError(strategy.kind)}

\* PreparationEngine::prepare_with_cancellation.
PrepareOutcomes(r, owner) ==
    IF r.implementation \notin Registered THEN {PrepareError("unsupported")}
    ELSE UNION {StrategyOutcomes(r, strategy, owner) : strategy \in Validate(r)}

=============================================================================
