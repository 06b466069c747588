----------------------------- MODULE MCPipeline -----------------------------
(***************************************************************************)
(* Small executions of Pipeline for TLC.                                   *)
(***************************************************************************)
EXTENDS Pipeline

\* Weights and limits by name.
W(source, scratch, prepared) ==
    [d \in Dims |-> CASE d = "source" -> source
                      [] d = "scratch" -> scratch
                      [] d = "prepared" -> prepared]

\* An item that is scheduled with all it needs.
Plain(weights, bytes) ==
    [weights |-> weights, required |-> weights, bytes |-> bytes,
     prepare |-> "ok", deliver |-> "ok"]

\* A cache candidate that missed: it is scheduled with its prepared bytes
\* only and acquires the rest while it is being prepared.
Deferred(weights, required, bytes) ==
    [Plain(weights, bytes) EXCEPT !.required = required]

FailsPrepare(item) == [item EXCEPT !.prepare = "prepare"]
FailsDeliver(item) == [item EXCEPT !.deliver = "delivery"]

SmallLimit == W(3, 2, 4)

\* Items that need every dimension, grow while they are prepared, produce
\* more than they reserved, or fail in either callback.
Big == Plain(W(2, 1, 2), 2)
Lean == Plain(W(1, 0, 2), 1)
Liar == Plain(W(1, 1, 1), 2)
Miss == Deferred(W(0, 0, 2), W(2, 1, 2), 2)
Grow == Deferred(W(1, 0, 1), W(1, 2, 3), 3)
Huge == Deferred(W(0, 0, 4), W(1, 1, 5), 3)

MixedPlans ==
    {<<a, b, c>> : a \in {Big, FailsPrepare(Miss)},
                   b \in {Grow, FailsDeliver(Lean)},
                   c \in {Liar, Huge, Miss}}

\* Misses and uncached items together, none of which grows its prepared
\* bytes: the executions the materializer schedules.
MaterializerPlans ==
    {<<a, b, c>> : a \in {Big, Miss}, b \in {Big, Miss},
                   c \in {Miss, FailsPrepare(Big)}}

PlainPlans ==
    {<<a, b, c>> : a \in {Big, Lean}, b \in {Lean, FailsDeliver(Big)},
                   c \in {Big, Liar}}

SafetyPlans == MixedPlans \cup MaterializerPlans

\* Executions that may wait for ever, on a worker or on prepared bytes, next
\* to ones that end by themselves.
CancelPlans == MaterializerPlans \cup PlainPlans \cup {<<Grow, Big, Lean>>}

\* A miss in front of an uncached item.
MissBeforePlain == {<<Miss, Big>>}
=============================================================================
