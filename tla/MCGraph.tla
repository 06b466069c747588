------------------------------- MODULE MCGraph -------------------------------
(* Small graphs over 2 x 2 tensors of two-byte elements, one rank-4 kernel  *)
(* tensor, and the operations that meet on them.                           *)
EXTENDS GraphExecution

CONSTANTS Packed, Rows        \* two custom layouts

MCRegistered == {Builtin, "plugin"}

Repr(dtype) == [dtype |-> dtype, layout |-> Contiguous]

\* A 2 x 2 view of a 2 x 3 allocation, by any of these strides.
Strided(strides) ==
    [shape |-> <<2, 2>>, storage |-> <<2, 3>>, logicalStrides |-> <<2, 1>>, strides |-> strides,
     dtype |-> "f16", layout |-> Rows, bytes |-> 12]

MCInputFacts ==
    {ContiguousFacts(<<2, 2>>, "f16"), ContiguousFacts(<<1, 2, 2, 1>>, "u8")}
    \cup {Strided(strides) : strides \in {<<1, 1>>, <<1, 3>>, <<5, 1>>}}

Permute(order, mode, layout) ==
    [kind |-> "permute", foreign |-> FALSE, order |-> order, mode |-> mode, layout |-> layout]
Slice(ranges) == [kind |-> "slice", foreign |-> FALSE, ranges |-> ranges]
Prepare(implementation, source, target, bytes, scratch) ==
    [kind |-> "prepare", foreign |-> FALSE, implementation |-> implementation,
     source |-> Repr(source), target |-> Repr(target), outputBytes |-> bytes, scratchBytes |-> scratch]

MCOperations ==
    {[kind |-> "concat", foreign |-> FALSE, axis |-> 2],
     Permute(<<2, 1>>, "logical", Contiguous), Permute(<<1, 2>>, "logical", Contiguous),
     Permute(<<2, 1>>, "storage", Packed), Permute(<<1, 2>>, "storage", Contiguous),
     Permute(<<1, 3, 4, 2>>, "storage", Packed),
     [kind |-> "pad", foreign |-> FALSE, order |-> <<2, 1>>, storage |-> <<3, 2>>, layout |-> Packed],
     Slice(<<<<0, 2>>, <<1, 2>>>>), Slice(<<<<1, 1>>, <<0, 2>>>>),
     [kind |-> "split", foreign |-> FALSE, axis |-> 2, ranges |-> <<<<0, 1>>, <<1, 2>>>>],
     [kind |-> "reshape", foreign |-> FALSE, shape |-> <<1, 4>>],
     [kind |-> "reshape", foreign |-> TRUE, shape |-> <<2>>],
     Prepare(Builtin, "f16", "f32", 16, 0), Prepare(Builtin, "f16", "f16", 8, 0),
     Prepare("plugin", "f16", "bf16", 8, 3),
     Prepare("absent", "f32", "bf16", 8, 0)}
=============================================================================
