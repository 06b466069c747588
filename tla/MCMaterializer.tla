---------------------------- MODULE MCMaterializer ----------------------------
(* Two sessions over small checkpoints, contracts and adapters, chosen so    *)
(* that they meet in the cache: other files behind equal descriptors, other  *)
(* adapters over equal bases, hosts and providers of one target.             *)
EXTENDS Materializer

MCLimits == Weights(30, 30, 8)

Symmetry == Permutations(Sessions)

Repr(dtype) == [dtype |-> dtype, layout |-> Contiguous]
Plain(dtype, file, at, len) == [kind |-> "plain", dtype |-> dtype, span |-> [file |-> file, at |-> at, len |-> len]]
Source(name, shape, storage) == [name |-> name, shape |-> shape, storage |-> storage]

Bytes1 == Source(1, <<2>>, Plain("u8", 1, 0, 2))
Halves2 == Source(2, <<2>>, Plain("f16", 1, 2, 4))
Scale == [file |-> 2, at |-> 0, len |-> 1]
Packed3 == Source(3, <<4>>, [kind |-> "quantized", encoding |-> "q", shape |-> <<4>>,
                             span |-> [file |-> 1, at |-> 0, len |-> 9], companions |-> <<Scale, Scale>>])

Checkpoint(inventory, contents, kind, access) ==
    [inventory |-> inventory, contents |-> contents, kinds |-> [k \in DOMAIN contents |-> kind], access |-> access]

----------------------------------------------------------------------------
(* Targets. *)

Copy == Target(1, TRUE, <<2>>, Repr("u8"), 2)
Reuse == [kind |-> "reuse"]
Allocate(output, scratch, returned) ==
    [kind |-> "allocate", output |-> output, scratch |-> scratch, returned |-> returned]
Step(source, target, out, scratch, answer) ==
    [implementation |-> "cast", source |-> source, target |-> target, out |-> out, scratch |-> scratch, answer |-> answer]
Transform(source, target, out, scratch) == Step(source, target, out, scratch, Allocate(out, scratch, out))
Chain == [Target(2, TRUE, <<2>>, Repr("bf16"), 4) EXCEPT
             !.transforms = <<Step(Repr("f16"), Repr("f16"), 4, 0, Reuse),
                              Transform(Repr("f16"), Repr("f32"), 8, 1),
                              Transform(Repr("f32"), Repr("bf16"), 4, 2)>>]
Answering(k, answer) == [Chain EXCEPT !.transforms[k].answer = answer]
Mistyped == [Chain EXCEPT !.transforms = SubSeq(@, 3, 3)]
Recipe(input, output) ==
    [version |-> 1, inputs |-> <<input>>, steps |-> <<[output |-> "half", inputs |-> {<<"external", input>>}]>>,
     outputs |-> (output :> <<"step", "half">>)]
Converted == [Target(2, TRUE, <<1>>, Repr("f16"), 2) EXCEPT !.sourceShape = <<2>>, !.recipe = Recipe(2, 2)]

GraphOf(inputs, out, alias, owns, estimate, peak) ==
    [inputs |-> inputs, facts |-> out, alias |-> alias, owns |-> owns, estimate |-> estimate, peak |-> peak]
In2 == [name |-> 2, facts |-> ContiguousFacts(<<2>>, "f16")]
In1 == [name |-> 1, facts |-> ContiguousFacts(<<2>>, "u8")]
Joined == [Target(4, TRUE, <<2, 2>>, Repr("f16"), 8) EXCEPT
              !.graph = GraphOf(<<In2, In2>>, ContiguousFacts(<<2, 2>>, "f16"), Absent, TRUE, 3, 3)]
Aliased == [Target(4, TRUE, <<1, 2>>, Repr("f16"), 4) EXCEPT
              !.graph = GraphOf(<<In1, In2>>, ContiguousFacts(<<1, 2>>, "f16"), 2, FALSE, 0, 0)]
Overrun == [Aliased EXCEPT !.graph = GraphOf(<<In2>>, ContiguousFacts(<<1, 2>>, "f16"), Absent, FALSE, 0, 4)]
Mixed == [Target(5, TRUE, <<2>>, Repr("u8"), 2) EXCEPT
              !.graph = GraphOf(<<In2, In1>>, ContiguousFacts(<<2>>, "u8"), Absent, TRUE, 0, 0)]

Dequant(kind, backend) ==
    [Target(3, TRUE, <<4>>, Repr("u8"), 4) EXCEPT
        !.route = [kind |-> kind, encoding |-> "q", backend |-> backend, layout |-> Contiguous, dtype |-> "u8"]]

Optional == [Target(7, FALSE, <<2>>, Repr("u8"), 2) EXCEPT !.aliases = <<8>>]
Shared(group) == [Target(6, TRUE, <<2>>, Repr("u8"), 2) EXCEPT !.aliases = <<1>>, !.group = group]

----------------------------------------------------------------------------
(* Requests. *)

PlanRequest(sources, targets, digests, backend) ==
    [inputs |-> [backend |-> backend, digests |-> digests], sources |-> sources, targets |-> targets, policy |-> "reject"]
Build(r) == [kind |-> "build", request |-> r]

Ask(checkpoint, targets) ==
    [checkpoint |-> checkpoint, from |-> Build(PlanRequest(checkpoint.inventory, targets, checkpoint.contents, "cpu")),
     overlay |-> Absent, mode |-> "host", validation |-> "full", cached |-> TRUE]

Local(inventory, content) == Checkpoint(inventory, <<content, "scales">>, "local", "read")
Mapped(inventory, access) == Checkpoint(inventory, <<"one", "scales">>, "retained", access)

\* The plan for one file, opened against another with the same descriptors.
Elsewhere(q, content) == [q EXCEPT !.checkpoint.contents[1] = content]

Replace(name, file) ==
    [kind |-> "replace", target |-> name, value |-> Source(1, <<2>>, Plain("u8", file, 0, 2))]
Adapter(q, base, shape, aliases, operations, content) ==
    LET plan == BuiltPlan(q.from.request)
        b == CHOOSE c \in Range(plan.bindings) : c.target.name = base
    IN  [q EXCEPT !.overlay =
            [bases |-> <<[name |-> base, shape |-> shape, content |-> SourceContent(plan, b)]>>,
             aliases |-> aliases, policy |-> "ordered", mode |-> "lazy",
             layers |-> IF operations = <<>> THEN <<>> ELSE <<[digests |-> <<content>>, operations |-> operations]>>]]

Wire(plan) == [plan |-> plan, id |-> plan]
Parse(wire) == [kind |-> "parse", wire |-> wire]

CopyOne == Ask(Local(<<Bytes1>>, "one"), <<Copy>>)
ChainOne == Ask(Local(<<Halves2>>, "one"), <<Chain>>)
ConvertOne == Ask(Local(<<Halves2>>, "one"), <<Converted>>)
JoinOne == Ask(Local(<<Halves2>>, "one"), <<Joined>>)
PackedOne == Ask(Local(<<Packed3>>, "one"), <<Dequant("hostDequant", "cpu")>>)
TwoTargets == Ask(Local(<<Halves2, Bytes1>>, "one"), <<Chain, Optional, Copy>>)
TwoPlan == BuiltPlan(TwoTargets.from.request)

\* Requests that planning, parsing or opening turn down, or that never meet
\* another session.
LoneRequests ==
    {[CopyOne EXCEPT !.from.request.targets = <<Copy, Shared(Absent)>>],
     [CopyOne EXCEPT !.from.request.targets = <<Shared("g"), [Copy EXCEPT !.group = "g"]>>],
     [CopyOne EXCEPT !.from.request.targets = <<Copy, Copy>>],
     [CopyOne EXCEPT !.from.request.targets = <<[Copy EXCEPT !.name = 9]>>],
     [CopyOne EXCEPT !.from.request.inputs.digests = <<>>],
     Ask(Local(<<Bytes1, Halves2>>, "one"), <<[Copy EXCEPT !.aliases = <<2>>]>>),
     Ask(Local(<<Bytes1, Halves2>>, "one"), <<Mixed, Copy>>),
     Ask(Local(<<Bytes1, Halves2>>, "one"), <<Chain>>),
     Ask(Local(<<Halves2>>, "one"), <<Mistyped>>),
     Ask(Local(<<Halves2>>, "one"), <<Answering(1, Allocate(4, 0, 4))>>),
     Ask(Local(<<Halves2>>, "one"), <<Answering(2, Reuse)>>),
     Ask(Local(<<Halves2>>, "one"), <<Answering(3, Allocate(4, 2, 5))>>),
     Ask(Local(<<Packed3>>, "one"), <<Dequant("hostDequant", "gpu")>>),
     Ask(Local(<<Packed3>>, "one"), <<Dequant("deviceDequant", Absent)>>),
     [TwoTargets EXCEPT !.from.request.targets = <<Chain, Shared("g"), [Copy EXCEPT !.group = "g"]>>],
     [TwoTargets EXCEPT !.from = Parse(Wire([TwoPlan EXCEPT !.missing = <<9>>]))],
     [TwoTargets EXCEPT !.from = Parse(Wire([TwoPlan EXCEPT !.bindings[2].sources = <<Bytes1>>]))],
     [TwoTargets EXCEPT !.from = Parse([Wire(TwoPlan) EXCEPT !.id.policy = "allow"])],
     [TwoTargets EXCEPT !.from = [kind |-> "lookup", wire |-> Wire([TwoPlan EXCEPT !.policy = "allow"]), id |-> TwoPlan]],
     [TwoTargets EXCEPT !.from = [kind |-> "lookup", wire |-> Wire(TwoPlan), id |-> TwoPlan]],
     Adapter(CopyOne, 1, <<3>>, <<>>, <<Replace(1, 1)>>, "x"),
     Adapter(CopyOne, 1, <<2>>, <<<<8, 9>>, <<9, 8>>>>, <<>>, "x")}

\* Requests whose sessions share addresses.
SharedRequests ==
    {CopyOne, Adapter(CopyOne, 1, <<2>>, <<<<9, 1>>>>, <<Replace(9, 1)>>, "x"),
     Adapter(CopyOne, 1, <<2>>, <<<<9, 1>>>>, <<Replace(9, 1)>>, "y"),
     Adapter(CopyOne, 1, <<2>>, <<>>, <<>>, "x"),
     ChainOne, Elsewhere(ChainOne, "two"), Ask(Local(<<Halves2>>, "two"), <<Chain>>),
     [ChainOne EXCEPT !.validation = "trusted"],
     [ChainOne EXCEPT !.cached = FALSE, !.checkpoint = Mapped(<<Halves2>>, "mmap")],
     Adapter(ChainOne, 2, <<2>>, <<>>, <<[Replace(2, 1) EXCEPT !.value.storage = Plain("u8", 1, 0, 2)]>>, "x"),
     [ConvertOne EXCEPT !.checkpoint = Mapped(<<Halves2>>, "auto")],
     [ConvertOne EXCEPT !.from.request.inputs.backend = "gpu"],
     JoinOne, [JoinOne EXCEPT !.mode = "delegate"],
     Ask(Local(<<Bytes1, Halves2>>, "one"), <<Aliased>>),
     PackedOne, Adapter(PackedOne, 3, <<4>>, <<>>,
         <<[kind |-> "replace", target |-> 3, value |-> Source(1, <<4>>, Plain("u8", 1, 0, 4))]>>, "x")}

\* A graph whose identity conversion reuses its input (GraphScratch).
OverrunRequests == {Ask(Local(<<Halves2>>, "one"), <<Overrun>>)}

MCRequests == LoneRequests \cup OverrunRequests \cup SharedRequests
=============================================================================
