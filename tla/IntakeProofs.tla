---------------------------- MODULE IntakeProofs ----------------------------
(***************************************************************************)
(* Proofs about Intake for every iterator, however long, and every bound:  *)
(* what is admitted is what Pipeline assumes of its work, no more than the *)
(* bound is ever stored, and a rejection names a defect of the submission. *)
(***************************************************************************)
EXTENDS Intake, SequenceTheorems, TLAPS

-----------------------------------------------------------------------------
(* The inductive invariant *)

Item == [ordinal : Nat, weight : Nat]

\* The variables have their types and a verdict comes with the end.
Typed ==
    /\ submitted \in Seq(Item) /\ work \in Seq(Item) /\ taken \in Nat
    /\ step \in {"begin", "collect", "sort", "validate", "start", "end"}
    /\ (step # "end" => verdict = "none")

\* What is stored is what the iterator has yielded so far.
Collected ==
    /\ step \in {"begin", "collect", "sort"} =>
          /\ taken <= Len(submitted) /\ Len(work) = taken
          /\ \A k \in 1 .. taken : work[k] = submitted[k]
    /\ step = "begin" => taken = 0
    /\ step = "sort" => taken = Len(submitted)

\* The sorted work is the whole submission.
Sorted ==
    /\ step \in {"validate", "start"} =>
          work \in Rearranged(submitted) /\ Ascending(work)
    /\ step = "start" =>
          \A k \in 1 .. Len(work) : ~Duplicate(k) /\ ~TooHeavy(k)

IntakeInv ==
    /\ Typed
    /\ Collected
    /\ Sorted
    /\ CollectionBounded /\ (step \in {"begin", "collect"} => taken <= MaxItems)
    /\ AdmittedIsValid
    /\ RejectionJustified

\* A rearrangement has the items of the original at other positions.
LEMMA RearrangedItems ==
    ASSUME NEW s \in Seq(Item), NEW t \in Rearranged(s)
    PROVE  /\ t \in Seq(Item) /\ Len(t) = Len(s)
           /\ \E f \in [1 .. Len(s) -> 1 .. Len(s)] :
                 /\ \A j, k \in 1 .. Len(s) : f[j] = f[k] => j = k
                 /\ \A k \in 1 .. Len(s) : t[k] = s[f[k]]
<1> DEFINE n == Len(s)
<1>1. PICK f \in [1 .. n -> 1 .. n] :
         /\ \A j, k \in 1 .. n : f[j] = f[k] => j = k
         /\ t = [k \in 1 .. n |-> s[f[k]]]
  BY DEF Rearranged
<1>2. n \in Nat /\ \A k \in 1 .. n : s[f[k]] \in Item
  OBVIOUS
<1> HIDE DEF n
<1>3. t \in Seq(Item) /\ Len(t) = n
  BY <1>1, <1>2
<1>4. \A k \in 1 .. n : t[k] = s[f[k]]
  BY <1>1
<1> QED
  BY <1>1, <1>3, <1>4 DEF n

\* Everything is empty at the start.
LEMMA InitIntakeInv == Init => IntakeInv
<1> SUFFICES ASSUME Init PROVE IntakeInv
  OBVIOUS
<1>1. submitted \in Seq(Item) /\ MaxItems \in Nat
  BY IntakeAssumption DEF Init, Item
<1>2. Typed
  BY <1>1 DEF Init, Typed
<1>3. Collected /\ Sorted
  BY <1>1 DEF Init, Collected, Sorted
<1>4. CollectionBounded /\ taken <= MaxItems
  BY <1>1 DEF Init, CollectionBounded
<1>5. AdmittedIsValid /\ RejectionJustified
  BY DEF Init, AdmittedIsValid, RejectionJustified
<1> QED
  BY <1>2, <1>3, <1>4, <1>5 DEF IntakeInv

\* Every step of the intake keeps it.
LEMMA NextIntakeInv == IntakeInv /\ [Next]_vars => IntakeInv'
<1> SUFFICES ASSUME IntakeInv, [Next]_vars PROVE IntakeInv'
  OBVIOUS
<1>1. MaxItems \in Nat \ {0} /\ ByteLimit \in Nat \ {0}
  BY IntakeAssumption
<1>2. CASE UNCHANGED vars
  BY <1>2 DEF vars, IntakeInv, Typed, Collected, Sorted, CollectionBounded,
     AdmittedIsValid, RejectionJustified, Duplicate, TooHeavy
<1>3. CASE Begin \/ Cancel \/ Cancelled
  <2>1. UNCHANGED <<submitted, taken, work>>
    BY <1>3 DEF Begin, Cancel, Cancelled
  <2>2. \/ step = "begin" /\ step' = "collect" /\ verdict' = verdict
        \/ step' = step /\ verdict' = verdict
        \/ step' = "end" /\ verdict' = "cancelled"
    BY <1>3 DEF Begin, Cancel, Cancelled, Return
  <2>3. Typed' /\ Collected' /\ CollectionBounded'
        /\ (step' \in {"begin", "collect"} => taken' <= MaxItems)
    BY <2>1, <2>2 DEF IntakeInv, Typed, Collected, CollectionBounded
  <2>4. Sorted'
    BY <2>1, <2>2 DEF IntakeInv, Sorted, Duplicate, TooHeavy
  <2>5. AdmittedIsValid' /\ RejectionJustified'
    BY <2>1, <2>2 DEF IntakeInv, AdmittedIsValid, RejectionJustified
  <2> QED
    BY <2>3, <2>4, <2>5 DEF IntakeInv
<1>4. CASE CollectItem
  <2>1. /\ step = "collect" /\ taken < Len(submitted) /\ taken' = taken + 1
        /\ submitted' = submitted /\ verdict = "none"
        /\ submitted \in Seq(Item) /\ work \in Seq(Item) /\ taken \in Nat
        /\ Len(work) = taken /\ taken <= MaxItems
        /\ \A k \in 1 .. taken : work[k] = submitted[k]
    BY <1>4 DEF CollectItem, IntakeInv, Typed, Collected
  <2>2. CASE Len(work) < MaxItems
    <3>1. /\ work' = Append(work, submitted[taken + 1])
          /\ step' = step /\ verdict' = verdict
      BY <1>4, <2>2 DEF CollectItem
    <3>2. submitted[taken + 1] \in Item
      BY <2>1
    <3>3. /\ work' \in Seq(Item) /\ Len(work') = taken'
          /\ \A k \in 1 .. taken' : work'[k] = submitted[k]
      BY <2>1, <3>1, <3>2
    <3>4. taken' <= Len(submitted) /\ taken' <= MaxItems /\ taken' \in Nat
      BY <1>1, <2>1, <2>2
    <3>5. Typed' /\ Collected' /\ Sorted' /\ CollectionBounded'
      BY <1>1, <2>1, <3>1, <3>3, <3>4
      DEF Typed, Collected, Sorted, CollectionBounded
    <3>6. AdmittedIsValid' /\ RejectionJustified'
      BY <2>1, <3>1 DEF AdmittedIsValid, RejectionJustified
    <3> QED
      BY <3>4, <3>5, <3>6 DEF IntakeInv
  <2>3. CASE ~(Len(work) < MaxItems)
    <3>1. step' = "end" /\ verdict' = "limit" /\ work' = work
      BY <1>4, <2>3 DEF CollectItem, Return
    <3>2. Len(submitted) > MaxItems /\ taken' \in Nat /\ taken' <= MaxItems + 1
      BY <1>1, <2>1, <2>3
    <3>3. Typed' /\ Collected' /\ Sorted' /\ CollectionBounded'
      BY <2>1, <3>1, <3>2 DEF IntakeInv, Typed, Collected, Sorted, CollectionBounded
    <3>4. AdmittedIsValid' /\ RejectionJustified'
      BY <2>1, <3>1, <3>2 DEF AdmittedIsValid, RejectionJustified
    <3> QED
      BY <3>1, <3>3, <3>4 DEF IntakeInv
  <2> QED
    BY <2>2, <2>3
<1>5. CASE CollectEnd
  <2>1. /\ UNCHANGED <<submitted, taken, work, verdict>> /\ step = "collect"
        /\ step' = "sort" /\ taken = Len(submitted)
    BY <1>5 DEF CollectEnd
  <2>2. Typed' /\ Collected' /\ Sorted' /\ CollectionBounded'
    BY <2>1 DEF IntakeInv, Typed, Collected, Sorted, CollectionBounded
  <2>3. AdmittedIsValid' /\ RejectionJustified'
    BY <2>1 DEF IntakeInv, AdmittedIsValid, RejectionJustified
  <2> QED
    BY <2>1, <2>2, <2>3 DEF IntakeInv
<1>6. CASE Sort
  <2>1. /\ UNCHANGED <<submitted, taken, verdict>> /\ step = "sort"
        /\ step' = "validate" /\ work' \in Rearranged(work) /\ Ascending(work')
    BY <1>6 DEF Sort
  <2>2. /\ submitted \in Seq(Item) /\ work \in Seq(Item) /\ verdict = "none"
        /\ Len(work) = Len(submitted) /\ Len(work) <= MaxItems
        /\ \A k \in 1 .. Len(work) : work[k] = submitted[k]
    BY <2>1 DEF IntakeInv, Typed, Collected, CollectionBounded
  <2>3. work = submitted
    BY <2>2, SeqEqual
  <2>4. /\ work' \in Seq(Item) /\ Len(work') = Len(submitted)
    BY <2>1, <2>2, <2>3, RearrangedItems
  <2>5. Typed' /\ Collected' /\ CollectionBounded'
    BY <2>1, <2>2, <2>4 DEF IntakeInv, Typed, Collected, CollectionBounded
  <2>6. Sorted'
    BY <2>1, <2>3 DEF Sorted
  <2>7. AdmittedIsValid' /\ RejectionJustified'
    BY <2>1, <2>2 DEF AdmittedIsValid, RejectionJustified
  <2> QED
    BY <2>1, <2>5, <2>6, <2>7 DEF IntakeInv
<1>7. CASE Validate
  <2>1. /\ UNCHANGED <<submitted, taken, work>> /\ step = "validate"
        /\ verdict = "none" /\ submitted \in Seq(Item) /\ work \in Seq(Item)
        /\ work \in Rearranged(submitted) /\ Ascending(work)
    BY <1>7 DEF Validate, IntakeInv, Typed, Sorted
  <2>2. PICK f \in [1 .. Len(submitted) -> 1 .. Len(submitted)] :
           /\ \A j, k \in 1 .. Len(submitted) : f[j] = f[k] => j = k
           /\ \A k \in 1 .. Len(submitted) : work[k] = submitted[f[k]]
    BY <2>1, RearrangedItems
  <2>3. Len(work) = Len(submitted) /\ Len(work) \in Nat
    BY <2>1, RearrangedItems
  <2>4. CASE /\ \A k \in 1 .. Len(work) : ~Duplicate(k) /\ ~TooHeavy(k)
             /\ step' = "start" /\ verdict' = verdict
    <3>1. Typed' /\ Collected' /\ CollectionBounded'
      BY <2>1, <2>4 DEF IntakeInv, Typed, Collected, CollectionBounded
    <3>2. Sorted'
      BY <2>1, <2>4 DEF Sorted, Duplicate, TooHeavy
    <3>3. AdmittedIsValid' /\ RejectionJustified'
      BY <2>1, <2>4 DEF AdmittedIsValid, RejectionJustified
    <3> QED
      BY <2>4, <3>1, <3>2, <3>3 DEF IntakeInv
  <2>5. ASSUME NEW k \in 1 .. Len(work), Duplicate(k) \/ TooHeavy(k),
               step' = "end",
               verdict' = IF Duplicate(k) THEN "delivery" ELSE "limit"
        PROVE  IntakeInv'
    <3>1. Typed' /\ Collected' /\ CollectionBounded' /\ Sorted'
      BY <2>1, <2>5 DEF IntakeInv, Typed, Collected, CollectionBounded, Sorted
    <3>2. CASE Duplicate(k)
      <4>1. PICK j \in 1 .. k - 1 : work[j].ordinal = work[k].ordinal
        BY <3>2 DEF Duplicate
      <4>2. /\ f[j] \in 1 .. Len(submitted) /\ f[k] \in 1 .. Len(submitted)
            /\ f[j] # f[k] /\ submitted[f[j]].ordinal = submitted[f[k]].ordinal
        BY <2>2, <2>3, <4>1
      <4>3. AdmittedIsValid' /\ RejectionJustified'
        BY <2>1, <2>5, <3>2, <4>2 DEF AdmittedIsValid, RejectionJustified
      <4> QED
        BY <2>5, <3>1, <4>3 DEF IntakeInv
    <3>3. CASE ~Duplicate(k)
      <4>1. /\ f[k] \in 1 .. Len(submitted) /\ submitted[f[k]].weight > ByteLimit
        BY <2>2, <2>3, <2>5, <3>3 DEF TooHeavy
      <4>2. AdmittedIsValid' /\ RejectionJustified'
        BY <2>1, <2>5, <3>3, <4>1 DEF AdmittedIsValid, RejectionJustified
      <4> QED
        BY <2>5, <3>1, <4>2 DEF IntakeInv
    <3> QED
      BY <3>2, <3>3
  <2> QED
    BY <1>7, <2>4, <2>5 DEF Validate, Return
<1>8. CASE Start
  <2>1. /\ UNCHANGED <<submitted, taken, work>> /\ step = "start" /\ step' = "end"
        /\ verdict' = IF work = << >> THEN "ok" ELSE "run"
        /\ submitted \in Seq(Item) /\ work \in Seq(Item)
        /\ work \in Rearranged(submitted) /\ Ascending(work)
        /\ Len(work) <= MaxItems
        /\ \A k \in 1 .. Len(work) : ~Duplicate(k) /\ ~TooHeavy(k)
    BY <1>8 DEF Start, Return, IntakeInv, Typed, Sorted, CollectionBounded
  <2>2. Len(work) = Len(submitted)
    BY <2>1, RearrangedItems
  <2>3. Typed' /\ Collected' /\ CollectionBounded' /\ Sorted'
    BY <2>1 DEF IntakeInv, Typed, Collected, CollectionBounded, Sorted
  <2>4. \A k \in 1 .. Len(work) : work[k].ordinal \in Nat /\ work[k].weight \in Nat
    <3>1. \A k \in 1 .. Len(work) : work[k] \in Item
      BY <2>1
    <3> QED
      BY <3>1 DEF Item
  <2>5. \A j, k \in 1 .. Len(work) : j < k => work[j].ordinal < work[k].ordinal
    <3>1. SUFFICES ASSUME NEW j \in 1 .. Len(work), NEW k \in 1 .. Len(work), j < k
                   PROVE  work[j].ordinal < work[k].ordinal
      OBVIOUS
    <3>2. work[j].ordinal <= work[k].ordinal /\ work[j].ordinal # work[k].ordinal
      BY <2>1, <3>1 DEF Ascending, Duplicate
    <3> QED
      BY <2>4, <3>2
  <2>6. \A k \in 1 .. Len(work) : work[k].weight <= ByteLimit
    BY <1>1, <2>1, <2>4 DEF TooHeavy
  <2>7. AdmittedIsValid'
    <3>1. verdict' = "run" => work' # << >> /\ Len(work') <= MaxItems
      BY <2>1
    <3>2. work' \in Rearranged(submitted')
      BY <2>1
    <3> QED
      BY <2>1, <2>5, <2>6, <3>1, <3>2 DEF AdmittedIsValid
  <2>8. work = << >> => submitted = << >>
    BY <2>1, <2>2
  <2>9. RejectionJustified'
    BY <2>1, <2>8 DEF RejectionJustified
  <2> QED
    BY <2>1, <2>3, <2>7, <2>9 DEF IntakeInv
<1> QED
  BY <1>2, <1>3, <1>4, <1>5, <1>6, <1>7, <1>8 DEF Next, Done

\* The invariant holds throughout.
LEMMA IntakeHolds == Spec => []IntakeInv
BY InitIntakeInv, NextIntakeInv, PTL DEF Spec

-----------------------------------------------------------------------------
(* The theorems *)

\* The threads are started with every submitted item once, in strictly
\* ascending ordinal order and within the limits: what Pipeline assumes of
\* its work.
THEOREM AdmissionSound == Spec => []AdmittedIsValid
BY IntakeHolds, PTL DEF IntakeInv

\* An iterator of any length is advanced at most one item past max_work_items
\* and never more than that many items are stored.
THEOREM CollectionSafe == Spec => []CollectionBounded
BY IntakeHolds, PTL DEF IntakeInv

\* Whatever the unstable sort does with equal ordinals, a rejection names a
\* defect that the submission has, and an empty success an empty submission.
THEOREM RejectionSound == Spec => []RejectionJustified
BY IntakeHolds, PTL DEF IntakeInv
=============================================================================
