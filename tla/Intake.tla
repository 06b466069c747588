------------------------------- MODULE Intake -------------------------------
(***************************************************************************)
(* The front of Pipeline::execute: collect_bounded_work takes the caller's *)
(* iterator one item at a time, the items are sorted by ordinal and        *)
(* validate_work accepts or rejects them, all before a thread is started.  *)
(* The token may be cancelled at any moment by somebody else.  What is     *)
(* admitted here is what module Pipeline assumes of its work.              *)
(***************************************************************************)
EXTENDS Naturals, Sequences, FiniteSets

CONSTANTS
    MaxItems,    \* ExecutionLimits.max_work_items
    ByteLimit,   \* one byte limit, standing for the three that are compared
    Submissions  \* sequences of items the caller may submit

ASSUME IntakeAssumption ==
    /\ MaxItems \in Nat \ {0} /\ ByteLimit \in Nat \ {0}
    /\ \A s \in Submissions :
          s \in Seq([ordinal : Nat, weight : Nat])

VARIABLES
    submitted,   \* the caller's iterator, in its own order
    taken,       \* how many items the iterator has yielded
    work,        \* the collected items
    step,        \* "begin", "collect", "sort", "validate", "start", "end"
    cancelled,   \* the token
    verdict      \* "none", "run", "ok" (nothing to do) or an error

vars == <<submitted, taken, work, step, cancelled, verdict>>

Init ==
    /\ submitted \in Submissions
    /\ taken = 0 /\ work = << >> /\ step = "begin"
    /\ cancelled = FALSE /\ verdict = "none"

Return(v) == step' = "end" /\ verdict' = v

\* collect_bounded_work tests the token before the first item.
Begin ==
    /\ step = "begin" /\ ~cancelled
    /\ step' = "collect"
    /\ UNCHANGED <<submitted, taken, work, cancelled, verdict>>

\* Mutant of CollectItem: the bound is tested after the item was stored.
CollectOneMore ==
    /\ step = "collect" /\ ~cancelled /\ taken < Len(submitted)
    /\ taken' = taken + 1
    /\ IF Len(work) <= MaxItems
       THEN /\ work' = Append(work, submitted[taken + 1])
            /\ UNCHANGED <<step, verdict>>
       ELSE Return("limit") /\ UNCHANGED work
    /\ UNCHANGED <<submitted, cancelled>>

\* One item of the iterator: stored, or one too many.
CollectItem ==
    /\ step = "collect" /\ ~cancelled /\ taken < Len(submitted)
    /\ taken' = taken + 1
    /\ IF Len(work) < MaxItems
       THEN /\ work' = Append(work, submitted[taken + 1])
            /\ UNCHANGED <<step, verdict>>
       ELSE Return("limit") /\ UNCHANGED work
    /\ UNCHANGED <<submitted, cancelled>>

CollectEnd ==
    /\ step = "collect" /\ ~cancelled /\ taken = Len(submitted)
    /\ step' = "sort"
    /\ UNCHANGED <<submitted, taken, work, cancelled, verdict>>

\* Every test of the token while items are collected, and the one before the
\* threads are started; an iterator with nothing left is not an exception.
Cancelled ==
    /\ cancelled
    /\ step \in {"begin", "collect"} \/ (step = "start" /\ work # << >>)
    /\ Return("cancelled")
    /\ UNCHANGED <<submitted, taken, work, cancelled>>

Ascending(s) ==
    \A j, k \in 1 .. Len(s) : j < k => s[j].ordinal <= s[k].ordinal

\* The rearrangements of a sequence.
Rearranged(s) ==
    LET positions == 1 .. Len(s)
        orders == {f \in [positions -> positions] :
                      \A j, k \in positions : f[j] = f[k] => j = k}
    IN  {[k \in positions |-> s[f[k]]] : f \in orders}

\* Mutant of Sort: the caller's order is kept.
SortNothing ==
    /\ step = "sort"
    /\ step' = "validate"
    /\ UNCHANGED <<submitted, taken, work, cancelled, verdict>>

\* sort_unstable_by_key: items with the same ordinal come in any order.
Sort ==
    /\ step = "sort"
    /\ work' \in {s \in Rearranged(work) : Ascending(s)}
    /\ step' = "validate"
    /\ UNCHANGED <<submitted, taken, cancelled, verdict>>

\* Mutant of Duplicate: the comparison is not strict.
DuplicateNeighbour(k) == k > 1 /\ work[k - 1].ordinal <= work[k].ordinal

\* An earlier item has the same ordinal; and a weight above a limit.
Duplicate(k) == \E j \in 1 .. k - 1 : work[j].ordinal = work[k].ordinal
TooHeavy(k) == work[k].weight > ByteLimit

\* validate_work stops at the first offending item and tests its ordinal
\* before its weights.
Validate ==
    /\ step = "validate"
    /\ \/ /\ \A k \in 1 .. Len(work) : ~Duplicate(k) /\ ~TooHeavy(k)
          /\ step' = "start" /\ UNCHANGED verdict
       \/ \E k \in 1 .. Len(work) :
             /\ Duplicate(k) \/ TooHeavy(k)
             /\ \A j \in 1 .. k - 1 : ~Duplicate(j) /\ ~TooHeavy(j)
             /\ Return(IF Duplicate(k) THEN "delivery" ELSE "limit")
    /\ UNCHANGED <<submitted, taken, work, cancelled>>

\* No work is a success even under a cancelled token; otherwise the threads
\* start.
Start ==
    /\ step = "start" /\ (work = << >> \/ ~cancelled)
    /\ Return(IF work = << >> THEN "ok" ELSE "run")
    /\ UNCHANGED <<submitted, taken, work, cancelled>>

\* CancellationToken::cancel from outside.
Cancel ==
    /\ step # "end" /\ ~cancelled
    /\ cancelled' = TRUE
    /\ UNCHANGED <<submitted, taken, work, step, verdict>>

Done == step = "end" /\ UNCHANGED vars

Next ==
    \/ Begin \/ CollectItem \/ CollectEnd \/ Cancelled \/ Sort \/ Validate
    \/ Start \/ Cancel \/ Done

Spec == Init /\ [][Next]_vars

-----------------------------------------------------------------------------
\* What the threads are started with: every submitted item once, in strictly
\* ascending ordinal order and within the limits, which is what Pipeline's
\* ValidatedWork assumes.  It fails if any of the collecting, the sorting and
\* the validation is skipped.
AdmittedIsValid ==
    verdict = "run" =>
        /\ work # << >> /\ Len(work) <= MaxItems
        /\ work \in Rearranged(submitted)
        /\ \A j, k \in 1 .. Len(work) :
              j < k => work[j].ordinal < work[k].ordinal
        /\ \A k \in 1 .. Len(work) : work[k].weight <= ByteLimit

\* ExecutionLimits.max_work_items bounds what is stored of an iterator of any
\* length, and how far it is advanced: one item past the bound at most.
CollectionBounded == Len(work) <= MaxItems /\ taken <= MaxItems + 1

\* A rejection names a defect the submission really has, whatever order the
\* unstable sort gave to equal ordinals and whenever the token was cancelled.
RejectionJustified ==
    /\ verdict = "delivery" =>
          \E j, k \in 1 .. Len(submitted) :
              j # k /\ submitted[j].ordinal = submitted[k].ordinal
    /\ verdict = "limit" =>
          \/ Len(submitted) > MaxItems
          \/ \E k \in 1 .. Len(submitted) : submitted[k].weight > ByteLimit
    /\ verdict = "ok" => submitted = << >>
=============================================================================
