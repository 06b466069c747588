--------------------------- MODULE PipelineProofs ---------------------------
(***************************************************************************)
(* Theorems about Pipeline, for any number of items, workers and bytes:    *)
(* types, the limits of the budget, the window, and where every item is.   *)
(* An admitted item is in exactly one place: with the dispatcher, in the   *)
(* work channel, with one worker, in the result channel, in the reorder    *)
(* buffer or in the sink; and what is in none of them owns nothing.  From  *)
(* this follows the bound on the reorder buffer; PipelineCharges adds what *)
(* every place has reserved.                                               *)
(***************************************************************************)
EXTENDS Pipeline, FiniteSetTheorems, TLAPS

-----------------------------------------------------------------------------
(* Weights *)

\* The operations on weights return weights.
LEMMA WeightsClosed ==
    ASSUME NEW a \in Weights, NEW b \in Weights, NEW n \in Nat
    PROVE  /\ NoWeights \in Weights
           /\ AddWeights(a, b) \in Weights
           /\ SubtractWeights(a, b) \in Weights
           /\ MaxWeights(a, b) \in Weights
           /\ PreparedPart(a) \in Weights
           /\ WithoutPrepared(a) \in Weights
           /\ RetainPrepared(a, n) \in Weights
BY DEF Weights, Dims, NoWeights, AddWeights, SubtractWeights, MaxWeights,
       PreparedPart, WithoutPrepared, RetainPrepared

\* A permit that retains prepared bytes retains no more than it is asked to.
LEMMA RetainedAtMost ==
    ASSUME NEW a \in Weights, NEW n \in Nat
    PROVE  n - RetainPrepared(a, n)["prepared"] \in Nat
BY DEF Weights, Dims, NoWeights, RetainPrepared

\* Releasing never increases the bytes in use.
LEMMA SubtractDecreases ==
    ASSUME NEW a \in Weights, NEW b \in Weights, NEW d \in Dims
    PROVE  SubtractWeights(a, b)[d] <= a[d]
BY DEF Weights, Dims, SubtractWeights

\* What a validated plan says about one item.
LEMMA PlanTyped ==
    ASSUME plan \in Plans, NEW i \in Items
    PROVE  /\ plan[i].weights \in Weights
           /\ plan[i].required \in Weights
           /\ plan[i].bytes \in Nat
           /\ plan[i].prepare \in {"ok", "prepare"}
           /\ plan[i].deliver \in {"ok", "delivery"}
<1>1. plan[i] \in ItemPlan
  BY ValidatedWork
<1> QED
  BY <1>1 DEF ItemPlan

\* Giving permits back leaves the budget and the permits well-typed.
LEMMA ShrinkTyped ==
    ASSUME TypeOK, NEW i \in Items, NEW p \in Weights, NEW e \in Weights,
           ShrinkPermits(i, p, e)
    PROVE  /\ used' \in Weights /\ peaks' \in Weights
           /\ permit' \in [Items -> Weights] /\ extra' \in [Items -> Weights]
<1>1. /\ permit[i] \in Weights /\ extra[i] \in Weights
      /\ used \in Weights /\ peaks \in Weights
  BY DEF TypeOK
<1>2. used' \in Weights
  BY <1>1, WeightsClosed DEF ShrinkPermits
<1> QED
  BY <1>1, <1>2 DEF ShrinkPermits, TypeOK

\* Dropping an item also leaves the window well-typed.
LEMMA DropTyped ==
    ASSUME TypeOK, NEW i \in Items, DropItem(i)
    PROVE  /\ used' \in Weights /\ peaks' \in Weights
           /\ permit' \in [Items -> Weights] /\ extra' \in [Items -> Weights]
           /\ windowUsed' \in Nat /\ window' \subseteq Items
<1>1. NoWeights \in Weights
  BY DEF NoWeights, Weights
<1>2. ShrinkPermits(i, NoWeights, NoWeights)
  BY DEF DropItem
<1>3. windowUsed' \in Nat /\ window' \subseteq Items
  BY DEF DropItem, ReleaseWindow, TypeOK
<1> QED
  BY <1>1, <1>2, <1>3, ShrinkTyped

-----------------------------------------------------------------------------
(* Type correctness *)

\* The pipeline starts well-typed.
LEMMA InitTypeOK == Init => TypeOK
<1> SUFFICES ASSUME Init PROVE TypeOK
  OBVIOUS
<1>1. NoWeights \in Weights
  BY DEF NoWeights, Weights
<1>2. 1 \in Items /\ N \in Nat
  BY LimitsAssumption DEF Items
<1>3. cancelled \in BOOLEAN /\ requested \in BOOLEAN
  BY Zenon DEF Init
<1>4. /\ permit \in [Items -> Weights] /\ extra \in [Items -> Weights]
      /\ reserved \in [Items -> Weights] /\ result \in [Items -> Results]
      /\ wpc \in [WorkerIds -> {"receive"}] /\ witem \in [WorkerIds -> Items]
  BY <1>1, <1>2 DEF Init, Results
<1>5. /\ workQueue \in Seq(Items) /\ resultQueue \in Seq(Items)
      /\ delivered \in Seq(Items)
  BY DEF Init
<1>6. dnext \in 1 .. N + 1 /\ next \in 1 .. N + 1 /\ dnext # N + 1
  BY <1>2, LimitsAssumption DEF Init
<1> QED
  BY <1>1, <1>3, <1>4, <1>5, <1>6 DEF Init, TypeOK, Results, WorkerSteps

\* Every step of dispatch_work keeps the types.
LEMMA DispatcherTypeOK ==
    ASSUME TypeOK, Dispatcher PROVE TypeOK'
<1> USE LimitsAssumption DEF Items
<1>1. dpc \in {"window", "check", "resources", "send"} => dnext \in Items
  BY DEF TypeOK
<1>2. CASE DispatchNext
  BY <1>2 DEF TypeOK, DispatchNext, tokenVars, budgetVars, windowVars,
     itemVars, dispatcherVars, workerVars, coordinatorVars
<1>3. CASE DispatchStop
  BY <1>3 DEF TypeOK, DispatchStop, tokenVars, budgetVars, windowVars,
     itemVars, dispatcherVars, workerVars, coordinatorVars
<1>4. CASE DispatchAcquireWindow
  BY <1>1, <1>4 DEF TypeOK, DispatchAcquireWindow, tokenVars, budgetVars,
     windowVars, itemVars, dispatcherVars, workerVars, coordinatorVars
<1>5. CASE DispatchCheck
  BY <1>5 DEF TypeOK, DispatchCheck, tokenVars, budgetVars, windowVars,
     itemVars, dispatcherVars, workerVars, coordinatorVars
<1>6. CASE DispatchAcquireResources
  <2>1. plan[dnext].weights \in Weights /\ dnext \in Items
    BY <1>1, <1>6, PlanTyped DEF DispatchAcquireResources, TypeOK
  <2>2. used' \in Weights /\ peaks' \in Weights
    BY <1>6, <2>1, WeightsClosed
    DEF DispatchAcquireResources, TakeBytes, TypeOK
  <2>3. permit' \in [Items -> Weights]
    BY <1>6, <2>1 DEF DispatchAcquireResources, TypeOK
  <2> QED
    BY <1>6, <2>2, <2>3 DEF TypeOK, DispatchAcquireResources, tokenVars,
       windowVars, itemVars, dispatcherVars, workerVars, coordinatorVars
<1>7. CASE DispatchSend
  BY <1>1, <1>7 DEF TypeOK, DispatchSend, tokenVars, budgetVars, windowVars,
     itemVars, dispatcherVars, workerVars, coordinatorVars
<1>8. CASE DispatchBreak
  <2>1. dnext \in Items /\ DropItem(dnext)
    BY <1>1, <1>8 DEF DispatchBreak
  <2> QED
    BY <1>8, <2>1, DropTyped DEF TypeOK, DispatchBreak, tokenVars, budgetVars,
       windowVars, itemVars, dispatcherVars, workerVars, coordinatorVars
<1> QED
  BY <1>2, <1>3, <1>4, <1>5, <1>6, <1>7, <1>8 DEF Dispatcher

\* Every step of worker_loop and with_resources keeps the types.
LEMMA WorkerTypeOK ==
    ASSUME TypeOK, NEW w \in WorkerIds, Worker(w) PROVE TypeOK'
<1> USE DEF tokenVars, budgetVars, windowVars, itemVars, dispatcherVars,
            workerVars, coordinatorVars, WorkerSteps
<1> DEFINE i == witem[w]
<1>1. /\ i \in Items /\ permit[i] \in Weights /\ extra[i] \in Weights
      /\ reserved[i] \in Weights /\ used \in Weights /\ peaks \in Weights
      /\ NoWeights \in Weights
  BY WeightsClosed DEF TypeOK
<1>2. /\ plan[i].weights \in Weights /\ plan[i].required \in Weights
      /\ plan[i].bytes \in Nat /\ plan[i].prepare \in {"ok", "prepare"}
  BY <1>1, PlanTyped DEF TypeOK
<1>3. CASE WorkerReceive(w)
  <2>1. Head(workQueue) \in Items /\ Tail(workQueue) \in Seq(Items)
    BY <1>3 DEF WorkerReceive, TypeOK
  <2>2. reserved' \in [Items -> Weights]
    BY <1>3, <2>1 DEF WorkerReceive, TypeOK
  <2> QED
    BY <1>3, <2>1, <2>2 DEF WorkerReceive, TypeOK
<1>4. CASE WorkerExit(w)
  BY <1>4 DEF WorkerExit, TypeOK
<1>5. CASE WorkerCheck(w)
  BY <1>5 DEF WorkerCheck, TypeOK
<1>6. CASE WorkerDefer(w)
  <2>1. WithoutPrepared(permit[i]) \in Weights
        /\ WithoutPrepared(reserved[i]) \in Weights
    BY <1>1, WeightsClosed
  <2>2. /\ used' \in Weights /\ peaks' \in Weights
        /\ permit' \in [Items -> Weights] /\ extra' \in [Items -> Weights]
    <3>1. CASE Missing(i)["prepared"] > 0
      BY <1>1, <1>6, <2>1, <3>1, ShrinkTyped DEF WorkerDefer
    <3>2. CASE ~(Missing(i)["prepared"] > 0)
      BY <1>6, <3>2 DEF WorkerDefer, TypeOK
    <3> QED
      BY <3>1, <3>2
  <2>3. reserved' \in [Items -> Weights]
    BY <1>1, <1>6, <2>1 DEF WorkerDefer, TypeOK
  <2> QED
    BY <1>6, <2>2, <2>3 DEF WorkerDefer, TypeOK
<1>7. CASE WorkerAdmit(w)
  BY <1>7 DEF WorkerAdmit, TypeOK
<1>8. CASE WorkerAcquire(w)
  <2>1. Missing(i) \in Weights /\ MaxWeights(reserved[i], plan[i].required) \in Weights
    BY <1>1, <1>2, WeightsClosed DEF Missing
  <2>2. used' \in Weights /\ peaks' \in Weights
    BY <1>1, <1>8, <2>1, WeightsClosed DEF WorkerAcquire, TakeBytes
  <2>3. extra' \in [Items -> Weights] /\ reserved' \in [Items -> Weights]
    BY <1>1, <1>8, <2>1 DEF WorkerAcquire, TypeOK
  <2> QED
    BY <1>8, <2>2, <2>3 DEF WorkerAcquire, TypeOK
<1>9. CASE WorkerOperate(w)
  <2>1. PICK e \in Weights : ShrinkPermits(i, permit[i], e)
    BY <1>1, <1>9, WeightsClosed DEF WorkerOperate
  <2>2. /\ used' \in Weights /\ peaks' \in Weights
        /\ permit' \in [Items -> Weights] /\ extra' \in [Items -> Weights]
    BY <1>1, <2>1, ShrinkTyped
  <2>3. [permit[i] EXCEPT !["prepared"] = reserved[i]["prepared"]] \in Weights
    BY <1>1 DEF Weights, Dims
  <2>4. reserved' \in [Items -> Weights]
    BY <1>1, <1>9, <2>3 DEF WorkerOperate, TypeOK
  <2>5. result' \in [Items -> Results]
    BY <1>1, <1>2, <1>9 DEF WorkerOperate, TypeOK, Results
  <2> QED
    BY <1>9, <2>2, <2>4, <2>5 DEF WorkerOperate, TypeOK
<1>10. CASE WorkerRefuse(w)
  <2>1. result' \in [Items -> Results]
    BY <1>1, <1>10 DEF WorkerRefuse, TypeOK, Results
  <2> QED
    BY <1>10, <2>1 DEF WorkerRefuse, TypeOK
<1>11. CASE WorkerFinish(w)
  <2>1. PICK p \in Weights, e \in Weights : ShrinkPermits(i, p, e)
    <3> DEFINE kept == RetainPrepared(permit[i], plan[i].bytes)
    <3>1. kept \in Weights /\ plan[i].bytes - kept["prepared"] \in Nat
      BY <1>1, <1>2, WeightsClosed, RetainedAtMost
    <3>2. RetainPrepared(extra[i], plan[i].bytes - kept["prepared"]) \in Weights
      BY <1>1, <3>1, WeightsClosed
    <3> QED
      BY <1>1, <1>11, <3>1, <3>2 DEF WorkerFinish
  <2>2. /\ used' \in Weights /\ peaks' \in Weights
        /\ permit' \in [Items -> Weights] /\ extra' \in [Items -> Weights]
    BY <1>1, <2>1, ShrinkTyped
  <2>3. result' \in [Items -> Results]
    BY <1>1, <1>11 DEF WorkerFinish, TypeOK, Results
  <2> QED
    BY <1>11, <2>2, <2>3 DEF WorkerFinish, TypeOK
<1>12. CASE WorkerSend(w)
  BY <1>1, <1>12 DEF WorkerSend, TypeOK
<1>13. CASE WorkerAbandon(w)
  <2>1. DropItem(i)
    BY <1>13 DEF WorkerAbandon
  <2> QED
    BY <1>1, <1>13, <2>1, DropTyped DEF WorkerAbandon, TypeOK
<1> QED
  BY <1>3, <1>4, <1>5, <1>6, <1>7, <1>8, <1>9, <1>10, <1>11, <1>12, <1>13
  DEF Worker

\* Every step of coordinate_results and of the return keeps the types.
LEMMA CoordinatorTypeOK ==
    ASSUME TypeOK, Coordinator PROVE TypeOK'
<1> USE LimitsAssumption
        DEF tokenVars, budgetVars, windowVars, itemVars, dispatcherVars,
            workerVars, coordinatorVars
<1>1. cpc \in {"sink", "error"} => next \in Items
  BY DEF TypeOK, Items
<1>2. CASE CoordinatorReceive
  BY <1>2 DEF CoordinatorReceive, TypeOK
<1>3. CASE CoordinatorLeave
  BY <1>3 DEF CoordinatorLeave, TypeOK
<1>4. CASE CoordinatorDrain
  <2>1. CASE next \in pending
    <3>1. next # N + 1 /\ cpc' \in {"sink", "error"}
          /\ pending' = pending \ {next}
      BY <1>4, <2>1 DEF CoordinatorDrain, TypeOK, Items
    <3> QED
      BY <1>4, <3>1 DEF CoordinatorDrain, TypeOK
  <2>2. CASE next \notin pending
    BY <1>4, <2>2 DEF CoordinatorDrain, TypeOK
  <2> QED
    BY <2>1, <2>2
<1>5. CASE CoordinatorDeliver
  <2>1. next \in Items /\ DropItem(next)
    BY <1>1, <1>5 DEF CoordinatorDeliver
  <2>2. delivered' \in Seq(Items) /\ next' \in 1 .. N + 1
    BY <1>5, <2>1 DEF CoordinatorDeliver, TypeOK, Items
  <2> QED
    BY <1>5, <2>1, <2>2, DropTyped DEF CoordinatorDeliver, TypeOK
<1>6. CASE CoordinatorFail
  <2>1. next \in Items /\ DropItem(next)
    BY <1>1, <1>6 DEF CoordinatorFail
  <2>2. terminal' \in Results \cup {"delivery"}
    BY <1>6, <2>1, PlanTyped DEF CoordinatorFail, TypeOK, Results
  <2> QED
    BY <1>6, <2>1, <2>2, DropTyped DEF CoordinatorFail, TypeOK
<1>7. CASE CoordinatorCancel
  BY <1>7 DEF CoordinatorCancel, TypeOK
<1>8. CASE CoordinatorDropPending
  <2>1. PICK i \in pending : pending' = pending \ {i} /\ DropItem(i)
    BY <1>8 DEF CoordinatorDropPending
  <2>2. i \in Items
    BY <2>1 DEF TypeOK
  <2> QED
    BY <1>8, <2>1, <2>2, DropTyped DEF CoordinatorDropPending, TypeOK
<1>9. CASE CoordinatorClose
  BY <1>9 DEF CoordinatorClose, TypeOK, Results
<1>10. CASE CoordinatorDiscardResult
  <2>1. Head(resultQueue) \in Items /\ Tail(resultQueue) \in Seq(Items)
        /\ DropItem(Head(resultQueue))
    BY <1>10 DEF CoordinatorDiscardResult, TypeOK
  <2> QED
    BY <1>10, <2>1, DropTyped DEF CoordinatorDiscardResult, TypeOK
<1>11. CASE CoordinatorReturn
  BY <1>11 DEF CoordinatorReturn, TypeOK, Results
<1> QED
  BY <1>2, <1>3, <1>4, <1>5, <1>6, <1>7, <1>8, <1>9, <1>10, <1>11
  DEF Coordinator

\* Type correctness is inductive.
LEMMA NextTypeOK == TypeOK /\ [Next]_vars => TypeOK'
<1> SUFFICES ASSUME TypeOK, [Next]_vars PROVE TypeOK'
  OBVIOUS
<1> USE DEF tokenVars, budgetVars, windowVars, itemVars, dispatcherVars,
            workerVars, coordinatorVars
<1>1. CASE DiscardWork
  <2>1. Head(workQueue) \in Items /\ Tail(workQueue) \in Seq(Items)
        /\ DropItem(Head(workQueue))
    BY <1>1 DEF DiscardWork, TypeOK
  <2> QED
    BY <1>1, <2>1, DropTyped DEF DiscardWork, TypeOK
<1>2. CASE Cancel
  BY <1>2 DEF Cancel, TypeOK
<1>3. CASE UNCHANGED vars
  BY <1>3 DEF vars, TypeOK
<1> QED
  BY <1>1, <1>2, <1>3, DispatcherTypeOK, WorkerTypeOK, CoordinatorTypeOK
  DEF Next, Terminated

\* In every execution the state has its type: counters stay natural numbers,
\* queues hold dispatched items, and every error comes from the fixed set.
THEOREM TypeCorrect == Spec => []TypeOK
BY InitTypeOK, NextTypeOK, PTL DEF Spec

-----------------------------------------------------------------------------
(* The byte budget *)

\* A release keeps the budget within its limits.
LEMMA ShrinkWithinLimits ==
    ASSUME TypeOK, WithinLimits, NEW i \in Items,
           NEW p \in Weights, NEW e \in Weights, ShrinkPermits(i, p, e)
    PROVE  WithinLimits'
<1>1. /\ used \in Weights /\ permit[i] \in Weights /\ extra[i] \in Weights
  BY DEF TypeOK
<1> DEFINE a == SubtractWeights(used, SubtractWeights(permit[i], p))
           b == SubtractWeights(extra[i], e)
<1>2. a \in Weights /\ b \in Weights /\ used' = SubtractWeights(a, b)
  BY <1>1, WeightsClosed DEF ShrinkPermits
<1>3. ASSUME NEW d \in Dims PROVE used'[d] <= used[d]
  <2>1. a[d] <= used[d]
    BY <1>1, WeightsClosed, SubtractDecreases
  <2>2. used'[d] <= a[d]
    BY <1>2, SubtractDecreases
  <2>3. used'[d] \in Nat /\ a[d] \in Nat /\ used[d] \in Nat
    BY <1>1, <1>2, WeightsClosed DEF Weights
  <2> QED
    BY <2>1, <2>2, <2>3
<1>4. used' \in Weights /\ peaks \in Weights /\ peaks' = peaks
  BY <1>2, WeightsClosed DEF ShrinkPermits, TypeOK
<1> QED
  BY <1>1, <1>3, <1>4 DEF WithinLimits, Weights

\* An acquisition that fits keeps the budget within its limits.
LEMMA TakeWithinLimits ==
    ASSUME TypeOK, WithinLimits, NEW a \in Weights,
           Fits(used, a, Limit), TakeBytes(a)
    PROVE  WithinLimits'
<1>1. used \in Weights /\ peaks \in Weights /\ Limit \in [Dims -> Nat]
  BY LimitsAssumption DEF TypeOK
<1>2. SUFFICES ASSUME NEW d \in Dims
               PROVE  used'[d] <= peaks'[d] /\ peaks'[d] <= Limit[d]
  BY DEF WithinLimits
<1>3. /\ used'[d] = used[d] + a[d]
      /\ peaks'[d] = IF peaks[d] > used'[d] THEN peaks[d] ELSE used'[d]
  BY DEF TakeBytes, AddWeights, MaxWeights
<1>4. a[d] <= Limit[d] - used[d] /\ peaks[d] <= Limit[d]
  BY DEF Fits, WithinLimits
<1>5. used[d] \in Nat /\ a[d] \in Nat /\ peaks[d] \in Nat /\ Limit[d] \in Nat
  BY <1>1 DEF Weights
<1> QED
  BY <1>3, <1>4, <1>5

\* Dropping an item does too.
LEMMA DropWithinLimits ==
    ASSUME TypeOK, WithinLimits, NEW i \in Items, DropItem(i)
    PROVE  WithinLimits'
<1>1. NoWeights \in Weights
  BY DEF NoWeights, Weights
<1> QED
  BY <1>1, ShrinkWithinLimits DEF DropItem

\* An execution starts with an empty budget.
LEMMA InitWithinLimits == Init => WithinLimits
BY LimitsAssumption DEF Init, WithinLimits, NoWeights

\* A worker acquires only what fits and otherwise releases.
LEMMA WorkerWithinLimits ==
    ASSUME TypeOK, WithinLimits, NEW w \in WorkerIds, Worker(w)
    PROVE  WithinLimits'
<1> DEFINE i == witem[w]
<1>1. /\ i \in Items /\ permit[i] \in Weights /\ extra[i] \in Weights
      /\ reserved[i] \in Weights /\ NoWeights \in Weights
  BY WeightsClosed DEF TypeOK
<1>2. plan[i].required \in Weights /\ plan[i].bytes \in Nat
  BY <1>1, PlanTyped DEF TypeOK
<1>3. CASE UNCHANGED budgetVars
  BY <1>3 DEF budgetVars, WithinLimits
<1>4. CASE WorkerDefer(w)
  <2>1. WithoutPrepared(permit[i]) \in Weights
    BY <1>1, WeightsClosed
  <2>2. CASE Missing(i)["prepared"] > 0
    BY <1>1, <1>4, <2>1, <2>2, ShrinkWithinLimits DEF WorkerDefer
  <2>3. CASE ~(Missing(i)["prepared"] > 0)
    BY <1>3, <1>4, <2>3 DEF WorkerDefer, budgetVars
  <2> QED
    BY <2>2, <2>3
<1>5. CASE WorkerAcquire(w)
  <2>1. Missing(i) \in Weights
    BY <1>1, <1>2, WeightsClosed DEF Missing
  <2> QED
    BY <1>5, <2>1, TakeWithinLimits DEF WorkerAcquire
<1>6. CASE WorkerOperate(w)
  <2>1. PICK e \in Weights : ShrinkPermits(i, permit[i], e)
    BY <1>1, <1>6, WeightsClosed DEF WorkerOperate
  <2> QED
    BY <1>1, <2>1, ShrinkWithinLimits
<1>7. CASE WorkerFinish(w)
  <2> DEFINE kept == RetainPrepared(permit[i], plan[i].bytes)
  <2>1. kept \in Weights /\ plan[i].bytes - kept["prepared"] \in Nat
    BY <1>1, <1>2, WeightsClosed, RetainedAtMost
  <2>2. RetainPrepared(extra[i], plan[i].bytes - kept["prepared"]) \in Weights
    BY <1>1, <2>1, WeightsClosed
  <2>3. PICK p \in Weights, e \in Weights : ShrinkPermits(i, p, e)
    BY <1>1, <1>7, <2>1, <2>2 DEF WorkerFinish
  <2> QED
    BY <1>1, <2>3, ShrinkWithinLimits
<1>8. CASE WorkerAbandon(w)
  BY <1>1, <1>8, DropWithinLimits DEF WorkerAbandon
<1> QED
  BY <1>3, <1>4, <1>5, <1>6, <1>7, <1>8
  DEF Worker, WorkerReceive, WorkerExit, WorkerCheck, WorkerAdmit,
      WorkerRefuse, WorkerSend

\* Given the types, the budget's bounds are inductive.
LEMMA NextWithinLimits ==
    TypeOK /\ WithinLimits /\ [Next]_vars => WithinLimits'
<1> SUFFICES ASSUME TypeOK, WithinLimits, [Next]_vars PROVE WithinLimits'
  OBVIOUS
<1>1. CASE UNCHANGED budgetVars
  BY <1>1 DEF budgetVars, WithinLimits
<1>2. CASE Dispatcher
  <2>1. CASE DispatchAcquireResources
    <3>1. dnext \in Items
      BY <2>1, LimitsAssumption DEF DispatchAcquireResources, TypeOK, Items
    <3>2. plan[dnext].weights \in Weights
      BY <3>1, PlanTyped DEF TypeOK
    <3> QED
      BY <2>1, <3>2, TakeWithinLimits DEF DispatchAcquireResources
  <2>2. CASE DispatchBreak
    <3>1. dnext \in Items
      BY <2>2, LimitsAssumption DEF DispatchBreak, TypeOK, Items
    <3> QED
      BY <2>2, <3>1, DropWithinLimits DEF DispatchBreak
  <2> QED
    BY <1>1, <1>2, <2>1, <2>2
    DEF Dispatcher, DispatchNext, DispatchStop, DispatchAcquireWindow,
        DispatchCheck, DispatchSend
<1>3. CASE DiscardWork
  <2>1. Head(workQueue) \in Items
    BY <1>3 DEF DiscardWork, TypeOK
  <2> QED
    BY <1>3, <2>1, DropWithinLimits DEF DiscardWork
<1>4. CASE Coordinator
  <2>1. CASE CoordinatorDeliver \/ CoordinatorFail
    <3>1. next \in Items /\ DropItem(next)
      BY <2>1, LimitsAssumption
      DEF CoordinatorDeliver, CoordinatorFail, TypeOK, Items
    <3> QED
      BY <3>1, DropWithinLimits
  <2>2. CASE CoordinatorDropPending
    BY <2>2, DropWithinLimits DEF CoordinatorDropPending, TypeOK
  <2>3. CASE CoordinatorDiscardResult
    <3>1. Head(resultQueue) \in Items
      BY <2>3 DEF CoordinatorDiscardResult, TypeOK
    <3> QED
      BY <2>3, <3>1, DropWithinLimits DEF CoordinatorDiscardResult
  <2> QED
    BY <1>1, <1>4, <2>1, <2>2, <2>3
    DEF Coordinator, CoordinatorReceive, CoordinatorLeave, CoordinatorDrain,
        CoordinatorCancel, CoordinatorClose, CoordinatorReturn
<1>5. CASE Cancel \/ Terminated \/ UNCHANGED vars
  BY <1>1, <1>5 DEF Cancel, Terminated, vars, budgetVars
<1> QED
  BY <1>2, <1>3, <1>4, <1>5, WorkerWithinLimits DEF Next

\* Whatever the number of items and workers and however they interleave, the
\* bytes in use never pass a limit, so `limit - used' in fits is always a
\* natural number, and the reported peaks lie between the two.
THEOREM BudgetSafe == Spec => []WithinLimits
BY TypeCorrect, InitWithinLimits, NextWithinLimits, PTL DEF Spec

-----------------------------------------------------------------------------
(* The dispatch window *)

\* Every element of a queue is below n.
QueueBelow(queue, n) == \A k \in 1 .. Len(queue) : queue[k] < n

\* The dispatcher owns a permit for an item it has not sent yet.
Holding == IF dpc \in {"check", "resources", "send"} THEN 1 ELSE 0

\* Nothing that left the dispatcher is at or above its current item.
DispatchedBelow ==
    /\ QueueBelow(workQueue, dnext) /\ QueueBelow(resultQueue, dnext)
    /\ \A w \in WorkerIds :
          wpc[w] \notin {"receive", "done"} => witem[w] < dnext
    /\ \A i \in pending : i < dnext
    /\ next <= dnext /\ (cpc \in {"sink", "error"} => next < dnext)

\* A worker leaves before the coordinator only when there is no work left.
WorkersLeaveLast ==
    Flowing => \A w \in WorkerIds :
                   wpc[w] = "done" => dpc = "done" /\ workQueue = << >>

\* While the coordinator is in its loop the window is the interval from the
\* item it waits for to the last one admitted, and the counter is its length.
WindowIsInterval ==
    Flowing => /\ window = next .. dnext - 1 + Holding
               /\ windowUsed = dnext - next + Holding

\* The inductive invariant behind SpeculationBounded.
WindowInv ==
    /\ windowUsed <= Lookahead
    /\ DispatchedBelow
    /\ WorkersLeaveLast
    /\ WindowIsInterval

\* Items of a queue lie below a bound when those of its ends do.
LEMMA QueueBelowRules ==
    ASSUME NEW queue \in Seq(Items), NEW n \in Int, QueueBelow(queue, n)
    PROVE  /\ \A x \in Items : x < n => QueueBelow(Append(queue, x), n)
           /\ queue # << >> => QueueBelow(Tail(queue), n) /\ Head(queue) < n
           /\ QueueBelow(queue, n + 1)
<1>1. \A k \in 1 .. Len(queue) : queue[k] \in Int
  BY LimitsAssumption DEF Items
<1>2. \A x \in Items : x < n => QueueBelow(Append(queue, x), n)
  BY DEF QueueBelow
<1>3. queue # << >> => QueueBelow(Tail(queue), n) /\ Head(queue) < n
  BY DEF QueueBelow
<1>4. QueueBelow(queue, n + 1)
  BY <1>1 DEF QueueBelow
<1> QED
  BY <1>2, <1>3, <1>4

\* The window starts empty.
LEMMA InitWindowInv == Init => WindowInv
<1> SUFFICES ASSUME Init PROVE WindowInv
  OBVIOUS
<1>1. DispatchedBelow
  BY DEF Init, DispatchedBelow, QueueBelow
<1>2. WorkersLeaveLast
  BY DEF Init, WorkersLeaveLast
<1>3. WindowIsInterval
  BY DEF Init, WindowIsInterval, Holding
<1> QED
  BY <1>1, <1>2, <1>3, LimitsAssumption DEF Init, WindowInv

\* The dispatcher extends the window at its upper end only.
LEMMA DispatcherWindowInv ==
    ASSUME TypeOK, WindowInv, Dispatcher PROVE WindowInv'
<1> USE LimitsAssumption
        DEF tokenVars, budgetVars, windowVars, itemVars, dispatcherVars,
            workerVars, coordinatorVars
<1>1. /\ dnext \in 1 .. N + 1 /\ next \in 1 .. N + 1 /\ windowUsed \in Nat
      /\ (dpc \in {"window", "check", "resources", "send"} => dnext \in Items)
      /\ workQueue \in Seq(Items) /\ resultQueue \in Seq(Items)
      /\ N \in Nat /\ Lookahead \in Nat /\ pending \subseteq Items
  BY DEF TypeOK, Items
<1>2. CASE DispatchNext \/ DispatchStop \/ DispatchCheck
           \/ DispatchAcquireResources
  <2>1. /\ UNCHANGED <<windowUsed, window, dnext, workQueue, wpc, witem,
                       resultQueue, cpc, next, pending>>
        /\ Holding' = Holding /\ dpc # "done"
    BY <1>2 DEF DispatchNext, DispatchStop, DispatchCheck,
       DispatchAcquireResources, Holding
  <2>2. DispatchedBelow' /\ WindowIsInterval'
    BY <2>1 DEF WindowInv, DispatchedBelow, QueueBelow, WindowIsInterval, Flowing
  <2>3. WorkersLeaveLast'
    BY <2>1 DEF WindowInv, WorkersLeaveLast, Flowing
  <2> QED
    BY <2>1, <2>2, <2>3 DEF WindowInv
<1>3. CASE DispatchAcquireWindow
  <2>1. /\ UNCHANGED <<dnext, workQueue, wpc, witem, resultQueue, cpc, next,
                       pending>>
        /\ Holding = 0 /\ Holding' = 1 /\ dpc # "done"
        /\ windowUsed' = windowUsed + 1 /\ windowUsed < Lookahead
        /\ window' = window \cup {dnext}
    BY <1>3 DEF DispatchAcquireWindow, Holding
  <2>2. DispatchedBelow'
    BY <2>1 DEF WindowInv, DispatchedBelow, QueueBelow
  <2>3. WorkersLeaveLast'
    BY <2>1 DEF WindowInv, WorkersLeaveLast, Flowing
  <2>4. WindowIsInterval'
    BY <1>1, <2>1 DEF WindowInv, WindowIsInterval, DispatchedBelow, Flowing
  <2> QED
    BY <1>1, <2>1, <2>2, <2>3, <2>4 DEF WindowInv
<1>4. CASE DispatchSend
  <2>1. /\ UNCHANGED <<windowUsed, window, wpc, witem, resultQueue, cpc, next,
                       pending>>
        /\ Holding = 1 /\ Holding' = 0 /\ dpc # "done"
        /\ dnext' = dnext + 1 /\ workQueue' = Append(workQueue, dnext)
    BY <1>4 DEF DispatchSend, Holding
  <2>2. dnext \in Items /\ dnext < dnext + 1 /\ dnext + 1 \in Int
    BY <1>1, <1>4 DEF DispatchSend, Items
  <2>3. QueueBelow(workQueue, dnext + 1) /\ QueueBelow(resultQueue, dnext + 1)
    BY <1>1, QueueBelowRules DEF WindowInv, DispatchedBelow
  <2>4. QueueBelow(workQueue', dnext') /\ QueueBelow(resultQueue', dnext')
    BY <1>1, <2>1, <2>2, <2>3, QueueBelowRules
  <2>5. \A w \in WorkerIds :
           wpc[w] \notin {"receive", "done"} => witem[w] < dnext + 1
    BY <1>1 DEF WindowInv, DispatchedBelow, TypeOK, Items
  <2>6. DispatchedBelow'
    BY <1>1, <2>1, <2>4, <2>5 DEF WindowInv, DispatchedBelow, Items
  <2>7. WorkersLeaveLast'
    BY <2>1 DEF WindowInv, WorkersLeaveLast, Flowing
  <2>8. WindowIsInterval'
    BY <1>1, <2>1 DEF WindowInv, WindowIsInterval, Flowing
  <2> QED
    BY <2>1, <2>6, <2>7, <2>8 DEF WindowInv
<1>5. CASE DispatchBreak
  <2>1. /\ UNCHANGED <<dnext, workQueue, wpc, witem, resultQueue, cpc, next,
                       pending>>
        /\ Holding = 1 /\ Holding' = 0 /\ dpc # "done"
        /\ windowUsed' = (IF windowUsed > 0 THEN windowUsed - 1 ELSE 0)
        /\ window' = window \ {dnext}
    BY <1>5 DEF DispatchBreak, DropItem, ReleaseWindow, Holding
  <2>2. DispatchedBelow'
    BY <2>1 DEF WindowInv, DispatchedBelow, QueueBelow
  <2>3. WorkersLeaveLast'
    BY <2>1 DEF WindowInv, WorkersLeaveLast, Flowing
  <2>4. WindowIsInterval'
    BY <1>1, <2>1 DEF WindowInv, WindowIsInterval, DispatchedBelow, Flowing
  <2> QED
    BY <1>1, <2>1, <2>2, <2>3, <2>4 DEF WindowInv
<1> QED
  BY <1>2, <1>3, <1>4, <1>5 DEF Dispatcher

\* A worker that goes on with the item it has disturbs nothing of this.
LEMMA WorkerGoesOn ==
    ASSUME TypeOK, WindowInv, NEW w \in WorkerIds, NEW p,
           wpc[w] \notin {"receive", "done"}, p # "done",
           wpc' = [wpc EXCEPT ![w] = p],
           UNCHANGED <<windowUsed, window, dpc, dnext, workQueue, witem,
                       resultQueue, cpc, next, pending>>
    PROVE  WindowInv'
<1>1. wpc \in [WorkerIds -> WorkerSteps]
  BY DEF TypeOK
<1>2. DispatchedBelow'
  BY <1>1 DEF WindowInv, DispatchedBelow, QueueBelow
<1>3. WorkersLeaveLast'
  BY <1>1 DEF WindowInv, WorkersLeaveLast, Flowing
<1>4. WindowIsInterval'
  BY DEF WindowInv, WindowIsInterval, Flowing, Holding
<1> QED
  BY <1>2, <1>3, <1>4 DEF WindowInv

\* A worker gives a place of the window up only when it abandons its item.
LEMMA WorkerWindowInv ==
    ASSUME TypeOK, WindowInv, NEW w \in WorkerIds, Worker(w) PROVE WindowInv'
<1> USE DEF tokenVars, budgetVars, windowVars, itemVars, dispatcherVars,
            workerVars, coordinatorVars
<1>1. /\ workQueue \in Seq(Items) /\ resultQueue \in Seq(Items)
      /\ dnext \in Int /\ witem[w] \in Items
      /\ wpc \in [WorkerIds -> WorkerSteps] /\ witem \in [WorkerIds -> Items]
      /\ QueueBelow(workQueue, dnext) /\ QueueBelow(resultQueue, dnext)
  BY LimitsAssumption DEF TypeOK, WindowInv, DispatchedBelow
<1>2. CASE WorkerCheck(w) \/ WorkerDefer(w) \/ WorkerAdmit(w)
           \/ WorkerAcquire(w) \/ WorkerOperate(w) \/ WorkerRefuse(w)
           \/ WorkerFinish(w)
  <2>1. PICK p : p # "done" /\ wpc' = [wpc EXCEPT ![w] = p]
    BY <1>2 DEF WorkerCheck, WorkerDefer, WorkerAdmit, WorkerAcquire,
       WorkerOperate, WorkerRefuse, WorkerFinish
  <2>2. /\ wpc[w] \notin {"receive", "done"}
        /\ UNCHANGED <<windowUsed, window, dpc, dnext, workQueue, witem,
                       resultQueue, cpc, next, pending>>
    BY <1>2 DEF WorkerCheck, WorkerDefer, WorkerAdmit, WorkerAcquire,
       WorkerOperate, WorkerRefuse, WorkerFinish
  <2> QED
    BY <2>1, <2>2, WorkerGoesOn
<1>3. CASE WorkerReceive(w)
  <2>1. /\ UNCHANGED <<windowUsed, window, dpc, dnext, resultQueue, cpc, next,
                       pending>>
        /\ workQueue # << >> /\ workQueue' = Tail(workQueue)
        /\ witem' = [witem EXCEPT ![w] = Head(workQueue)]
        /\ wpc' = [wpc EXCEPT ![w] = "check"]
    BY <1>3 DEF WorkerReceive
  <2>2. QueueBelow(workQueue', dnext) /\ Head(workQueue) < dnext
    BY <1>1, <2>1, QueueBelowRules
  <2>3. DispatchedBelow'
    BY <1>1, <2>1, <2>2 DEF WindowInv, DispatchedBelow
  <2>4. WorkersLeaveLast'
    BY <1>1, <2>1 DEF WindowInv, WorkersLeaveLast, Flowing
  <2>5. WindowIsInterval'
    BY <2>1 DEF WindowInv, WindowIsInterval, Flowing, Holding
  <2> QED
    BY <2>1, <2>3, <2>4, <2>5 DEF WindowInv
<1>4. CASE WorkerExit(w)
  <2>1. /\ UNCHANGED <<windowUsed, window, dpc, dnext, workQueue, witem,
                       resultQueue, cpc, next, pending>>
        /\ workQueue = << >> /\ dpc = "done"
        /\ wpc' = [wpc EXCEPT ![w] = "done"]
    BY <1>4 DEF WorkerExit
  <2>2. DispatchedBelow'
    BY <1>1, <2>1 DEF WindowInv, DispatchedBelow, QueueBelow
  <2>3. WorkersLeaveLast'
    BY <2>1 DEF WorkersLeaveLast
  <2>4. WindowIsInterval'
    BY <2>1 DEF WindowInv, WindowIsInterval, Flowing, Holding
  <2> QED
    BY <2>1, <2>2, <2>3, <2>4 DEF WindowInv
<1>5. CASE WorkerSend(w)
  <2>1. /\ UNCHANGED <<windowUsed, window, dpc, dnext, workQueue, witem, cpc,
                       next, pending>>
        /\ wpc[w] = "send" /\ resultQueue' = Append(resultQueue, witem[w])
        /\ wpc' = [wpc EXCEPT ![w] = "receive"]
    BY <1>5 DEF WorkerSend
  <2>2. witem[w] < dnext
    BY <2>1 DEF WindowInv, DispatchedBelow
  <2>3. QueueBelow(resultQueue', dnext)
    BY <1>1, <2>1, <2>2, QueueBelowRules
  <2>4. DispatchedBelow'
    BY <1>1, <2>1, <2>3 DEF WindowInv, DispatchedBelow
  <2>5. WorkersLeaveLast'
    BY <1>1, <2>1 DEF WindowInv, WorkersLeaveLast, Flowing
  <2>6. WindowIsInterval'
    BY <2>1 DEF WindowInv, WindowIsInterval, Flowing, Holding
  <2> QED
    BY <2>1, <2>4, <2>5, <2>6 DEF WindowInv
<1>6. CASE WorkerAbandon(w)
  <2>1. /\ UNCHANGED <<dpc, dnext, workQueue, witem, resultQueue, cpc, next,
                       pending>>
        /\ ~Flowing /\ ~Flowing' /\ wpc' = [wpc EXCEPT ![w] = "done"]
        /\ windowUsed' = IF windowUsed > 0 THEN windowUsed - 1 ELSE 0
    BY <1>6 DEF WorkerAbandon, ReceiverGone, Flowing, DropItem, ReleaseWindow
  <2>2. DispatchedBelow'
    BY <1>1, <2>1 DEF WindowInv, DispatchedBelow, QueueBelow
  <2>3. windowUsed' <= Lookahead
    BY <2>1, LimitsAssumption DEF WindowInv, TypeOK
  <2> QED
    BY <2>1, <2>2, <2>3 DEF WindowInv, WorkersLeaveLast, WindowIsInterval
<1> QED
  BY <1>2, <1>3, <1>4, <1>5, <1>6 DEF Worker

\* The coordinator takes places from the lower end until it has closed.
LEMMA CoordinatorWindowInv ==
    ASSUME TypeOK, WindowInv, Coordinator PROVE WindowInv'
<1> USE LimitsAssumption
        DEF tokenVars, budgetVars, windowVars, itemVars, dispatcherVars,
            workerVars, coordinatorVars
<1>1. /\ dnext \in 1 .. N + 1 /\ next \in 1 .. N + 1 /\ windowUsed \in Nat
      /\ resultQueue \in Seq(Items) /\ N \in Nat /\ pending \subseteq Items
      /\ QueueBelow(resultQueue, dnext) /\ Holding \in {0, 1}
      /\ Lookahead \in Nat
  BY DEF TypeOK, WindowInv, DispatchedBelow, Holding
<1>2. CASE CoordinatorReceive
  <2>1. /\ UNCHANGED <<windowUsed, window, dpc, dnext, workQueue, wpc, witem,
                       next>>
        /\ resultQueue # << >> /\ resultQueue' = Tail(resultQueue)
        /\ pending' = pending \cup {Head(resultQueue)}
        /\ cpc = "receive" /\ cpc' = "drain"
    BY <1>2 DEF CoordinatorReceive
  <2>2. QueueBelow(resultQueue', dnext) /\ Head(resultQueue) < dnext
    BY <1>1, <2>1, QueueBelowRules
  <2>3. DispatchedBelow'
    BY <2>1, <2>2 DEF WindowInv, DispatchedBelow, QueueBelow
  <2> QED
    BY <2>1, <2>3
    DEF WindowInv, WorkersLeaveLast, WindowIsInterval, Flowing, Holding
<1>3. CASE CoordinatorDrain
  <2>1. /\ UNCHANGED <<windowUsed, window, dpc, dnext, workQueue, wpc, witem,
                       resultQueue, next>>
        /\ pending' \subseteq pending /\ cpc = "drain"
        /\ Flowing' /\ (cpc' \in {"sink", "error"} => next \in pending)
    BY <1>3 DEF CoordinatorDrain, Flowing
  <2>2. DispatchedBelow'
    BY <2>1 DEF WindowInv, DispatchedBelow, QueueBelow
  <2> QED
    BY <2>1, <2>2
    DEF WindowInv, WorkersLeaveLast, WindowIsInterval, Flowing, Holding
<1>4. CASE CoordinatorDeliver
  <2>1. /\ UNCHANGED <<dpc, dnext, workQueue, wpc, witem, resultQueue, pending>>
        /\ cpc = "sink" /\ cpc' = "drain" /\ next' = next + 1
        /\ windowUsed' = (IF windowUsed > 0 THEN windowUsed - 1 ELSE 0)
        /\ window' = window \ {next} /\ Holding' = Holding
    BY <1>4 DEF CoordinatorDeliver, DropItem, ReleaseWindow, Holding
  <2>2. next < dnext
    BY <2>1 DEF WindowInv, DispatchedBelow
  <2>3. DispatchedBelow'
    BY <1>1, <2>1, <2>2 DEF WindowInv, DispatchedBelow, QueueBelow
  <2>4. WindowIsInterval'
    BY <1>1, <2>1, <2>2 DEF WindowInv, WindowIsInterval, Flowing
  <2>5. WorkersLeaveLast' /\ windowUsed' <= Lookahead
    BY <1>1, <2>1 DEF WindowInv, WorkersLeaveLast, Flowing
  <2> QED
    BY <2>3, <2>4, <2>5 DEF WindowInv
<1>5. CASE CoordinatorLeave \/ CoordinatorCancel \/ CoordinatorClose
           \/ CoordinatorReturn
  <2>1. /\ UNCHANGED <<windowUsed, window, dpc, dnext, workQueue, wpc, witem,
                       resultQueue, next, pending>>
        /\ ~Flowing' /\ cpc' \notin {"sink", "error"}
    BY <1>5 DEF CoordinatorLeave, CoordinatorCancel, CoordinatorClose,
       CoordinatorReturn, Flowing
  <2>2. DispatchedBelow'
    BY <2>1 DEF WindowInv, DispatchedBelow, QueueBelow
  <2> QED
    BY <2>1, <2>2 DEF WindowInv, WorkersLeaveLast, WindowIsInterval
<1>6. CASE CoordinatorFail \/ CoordinatorDropPending
           \/ CoordinatorDiscardResult
  <2>1. /\ UNCHANGED <<dpc, dnext, workQueue, wpc, witem, next>>
        /\ ~Flowing' /\ cpc' \notin {"sink", "error"} /\ pending' \subseteq pending
        /\ \/ resultQueue' = resultQueue
           \/ resultQueue # << >> /\ resultQueue' = Tail(resultQueue)
        /\ windowUsed' = IF windowUsed > 0 THEN windowUsed - 1 ELSE 0
    BY <1>6 DEF CoordinatorFail, CoordinatorDropPending,
       CoordinatorDiscardResult, DropItem, ReleaseWindow, Flowing
  <2>2. QueueBelow(resultQueue', dnext)
    <3>1. resultQueue # << >> => QueueBelow(Tail(resultQueue), dnext)
      BY <1>1, QueueBelowRules
    <3> QED
      BY <1>1, <2>1, <3>1 DEF QueueBelow
  <2>3. DispatchedBelow'
    BY <2>1, <2>2 DEF WindowInv, DispatchedBelow, QueueBelow
  <2>4. windowUsed' <= Lookahead
    BY <1>1, <2>1 DEF WindowInv
  <2> QED
    BY <2>1, <2>3, <2>4 DEF WindowInv, WorkersLeaveLast, WindowIsInterval
<1> QED
  BY <1>2, <1>3, <1>4, <1>5, <1>6 DEF Coordinator

\* Given the types, the window invariant is inductive.
LEMMA NextWindowInv == TypeOK /\ WindowInv /\ [Next]_vars => WindowInv'
<1> SUFFICES ASSUME TypeOK, WindowInv, [Next]_vars PROVE WindowInv'
  OBVIOUS
<1> USE DEF tokenVars, budgetVars, windowVars, itemVars, dispatcherVars,
            workerVars, coordinatorVars
<1>1. CASE DiscardWork
  <2>1. 1 \in WorkerIds
    BY LimitsAssumption DEF WorkerIds, WorkerCount
  <2>2. ~Flowing
    BY <1>1, <2>1 DEF DiscardWork, WorkersGone, WindowInv, WorkersLeaveLast
  <2>3. /\ UNCHANGED <<dpc, dnext, wpc, witem, resultQueue, cpc, next, pending>>
        /\ workQueue # << >> /\ workQueue' = Tail(workQueue) /\ ~Flowing'
        /\ windowUsed' = IF windowUsed > 0 THEN windowUsed - 1 ELSE 0
    BY <1>1, <2>2 DEF DiscardWork, DropItem, ReleaseWindow, Flowing
  <2>4. QueueBelow(workQueue', dnext)
    BY <2>3, QueueBelowRules, LimitsAssumption
    DEF WindowInv, DispatchedBelow, TypeOK
  <2>5. DispatchedBelow'
    BY <2>3, <2>4 DEF WindowInv, DispatchedBelow, QueueBelow
  <2>6. windowUsed' <= Lookahead
    BY <2>3, LimitsAssumption DEF WindowInv, TypeOK
  <2> QED
    BY <2>3, <2>5, <2>6 DEF WindowInv, WorkersLeaveLast, WindowIsInterval
<1>2. CASE Cancel \/ Terminated \/ UNCHANGED vars
  BY <1>2 DEF Cancel, Terminated, vars, WindowInv, DispatchedBelow, QueueBelow,
     WorkersLeaveLast, WindowIsInterval, Flowing, Holding
<1> QED
  BY <1>1, <1>2, DispatcherWindowInv, WorkerWindowInv, CoordinatorWindowInv
  DEF Next

\* The window invariant bounds the speculation.
LEMMA WindowInvImplies == TypeOK /\ WindowInv => SpeculationBounded
<1> SUFFICES ASSUME TypeOK, WindowInv, Flowing, NEW i \in window
             PROVE  next <= i /\ i < next + Lookahead
  BY DEF SpeculationBounded
<1>1. /\ window = next .. dnext - 1 + Holding
      /\ windowUsed = dnext - next + Holding /\ windowUsed <= Lookahead
  BY DEF WindowInv, WindowIsInterval
<1>2. next \in Int /\ dnext \in Int /\ Holding \in {0, 1} /\ Lookahead \in Int
  BY LimitsAssumption DEF TypeOK, Holding
<1> QED
  BY <1>1, <1>2

\* However many workers there are and however fast they finish, no item
\* dispatch_lookahead or more places ahead of the one the coordinator waits
\* for is admitted before that one has been delivered.
THEOREM LookaheadSafe == Spec => []SpeculationBounded
<1>1. Spec => []WindowInv
  BY TypeCorrect, InitWindowInv, NextWindowInv, PTL DEF Spec
<1> QED
  BY <1>1, TypeCorrect, WindowInvImplies, PTL

-----------------------------------------------------------------------------
(* Places *)

\* The items in a channel, and that none is in it twice.
Queued(queue) == {queue[k] : k \in 1 .. Len(queue)}
Distinct(queue) == \A j, k \in 1 .. Len(queue) : queue[j] = queue[k] => j = k

\* A worker has an item.
Busy(w) == wpc[w] \notin {"receive", "done"}

\* The items of the busy workers, of the coordinator's current delivery and
\* of the dispatcher's current iteration.
AtWorkers == {witem[w] : w \in {v \in WorkerIds : Busy(v)}}
AtSink == {i \in Items : cpc \in {"sink", "error"} /\ i = next}
AtDispatcher ==
    {i \in Items : dpc \in {"check", "resources", "send"} /\ i = dnext}

\* No two of the sets have an element in common.
Disjoint(work, workers, results, buffer, sink) ==
    /\ work \cap workers = {} /\ work \cap results = {}
    /\ work \cap buffer = {} /\ work \cap sink = {}
    /\ workers \cap results = {} /\ workers \cap buffer = {}
    /\ workers \cap sink = {} /\ results \cap buffer = {}
    /\ results \cap sink = {} /\ buffer \cap sink = {}

\* No item that left the dispatcher is in two places.
InOnePlace ==
    /\ Distinct(workQueue) /\ Distinct(resultQueue)
    /\ \A v, w \in WorkerIds :
          Busy(v) /\ Busy(w) /\ witem[v] = witem[w] => v = w
    /\ Disjoint(Queued(workQueue), AtWorkers, Queued(resultQueue), pending, AtSink)

\* The places of the window are those of the items that are somewhere.
WindowIsPlaces ==
    window = AtDispatcher \cup Queued(workQueue) \cup AtWorkers
             \cup Queued(resultQueue) \cup pending \cup AtSink

\* The inductive invariant of ownership.
OwnInv ==
    /\ InOnePlace
    /\ WindowIsPlaces
    /\ windowUsed = Cardinality(window)

\* What the steps on a channel do to the items in it.
LEMMA QueueRules ==
    ASSUME NEW queue \in Seq(Items), Distinct(queue)
    PROVE  /\ Queued(queue) \subseteq Items
           /\ queue = << >> => Queued(queue) = {}
           /\ queue # << >> => /\ Head(queue) \in Queued(queue)
                               /\ Queued(Tail(queue)) = Queued(queue) \ {Head(queue)}
                               /\ Distinct(Tail(queue))
           /\ \A x \in Items : Queued(Append(queue, x)) = Queued(queue) \cup {x}
           /\ \A x \in Items \ Queued(queue) : Distinct(Append(queue, x))
<1>1. Queued(queue) \subseteq Items /\ (queue = << >> => Queued(queue) = {})
  BY DEF Queued
<1>2. ASSUME queue # << >>
      PROVE  /\ Head(queue) \in Queued(queue)
             /\ Queued(Tail(queue)) = Queued(queue) \ {Head(queue)}
             /\ Distinct(Tail(queue))
  <2>1. /\ Len(queue) \in Nat /\ Len(queue) > 0 /\ Head(queue) = queue[1]
        /\ Len(Tail(queue)) = Len(queue) - 1
        /\ \A k \in 1 .. Len(queue) - 1 : Tail(queue)[k] = queue[k + 1]
    BY <1>2
  <2>2. Head(queue) \in Queued(queue)
    BY <2>1 DEF Queued
  <2>3. Queued(Tail(queue)) \subseteq Queued(queue) \ {Head(queue)}
    BY <2>1 DEF Queued, Distinct
  <2>4. ASSUME NEW x \in Queued(queue) \ {Head(queue)}
        PROVE  x \in Queued(Tail(queue))
    <3>1. PICK k \in 1 .. Len(queue) : queue[k] = x /\ k # 1
      BY <2>1 DEF Queued
    <3>2. k - 1 \in 1 .. Len(Tail(queue)) /\ Tail(queue)[k - 1] = x
      BY <2>1, <3>1
    <3> QED
      BY <3>2 DEF Queued
  <2>5. Distinct(Tail(queue))
    BY <2>1 DEF Distinct
  <2> QED
    BY <2>2, <2>3, <2>4, <2>5
<1>3. ASSUME NEW x \in Items
      PROVE  /\ Queued(Append(queue, x)) = Queued(queue) \cup {x}
             /\ x \notin Queued(queue) => Distinct(Append(queue, x))
  <2>1. /\ Len(queue) \in Nat /\ Len(Append(queue, x)) = Len(queue) + 1
        /\ \A k \in 1 .. Len(queue) : Append(queue, x)[k] = queue[k]
        /\ Append(queue, x)[Len(queue) + 1] = x
    OBVIOUS
  <2>2. Queued(Append(queue, x)) \subseteq Queued(queue) \cup {x}
    BY <2>1 DEF Queued
  <2>3. x \in Queued(Append(queue, x))
    BY <2>1 DEF Queued
  <2>4. Queued(queue) \subseteq Queued(Append(queue, x))
    BY <2>1 DEF Queued
  <2>5. x \notin Queued(queue) => Distinct(Append(queue, x))
    BY <2>1 DEF Queued, Distinct
  <2> QED
    BY <2>2, <2>3, <2>4, <2>5
<1> QED
  BY <1>1, <1>2, <1>3

\* A dropped DispatchPermit takes one from the counter, which is not zero.
LEMMA ReleaseCounted ==
    ASSUME TypeOK, OwnInv, NEW i \in window, ReleaseWindow(i)
    PROVE  windowUsed' = Cardinality(window') /\ windowUsed > 0
<1>1. IsFiniteSet(Items) /\ window \subseteq Items
  BY FS_Interval, LimitsAssumption DEF Items, TypeOK
<1>2. IsFiniteSet(window)
  BY <1>1, FS_Subset
<1>3. windowUsed # 0
  BY <1>2, FS_EmptySet DEF OwnInv
<1>4. Cardinality(window \ {i}) = Cardinality(window) - 1
  BY <1>2, FS_RemoveElement
<1> QED
  BY <1>3, <1>4 DEF OwnInv, ReleaseWindow, TypeOK

\* Nothing that left the dispatcher is its current item.
LEMMA DispatchedElsewhere ==
    ASSUME TypeOK, WindowInv
    PROVE  dnext \notin Queued(workQueue) \cup AtWorkers \cup Queued(resultQueue)
                        \cup pending \cup AtSink
<1>1. dnext \in Int
  BY LimitsAssumption DEF TypeOK
<1>2. dnext \notin Queued(workQueue) /\ dnext \notin Queued(resultQueue)
  BY <1>1 DEF WindowInv, DispatchedBelow, QueueBelow, Queued
<1>3. dnext \notin AtWorkers
  BY <1>1 DEF WindowInv, DispatchedBelow, AtWorkers, Busy
<1>4. dnext \notin pending /\ dnext \notin AtSink
  BY <1>1 DEF WindowInv, DispatchedBelow, AtSink
<1> QED
  BY <1>2, <1>3, <1>4

\* Every place holds items.
LEMMA PlacesTyped ==
    ASSUME TypeOK
    PROVE  /\ Queued(workQueue) \subseteq Items /\ Queued(resultQueue) \subseteq Items
           /\ AtWorkers \subseteq Items /\ pending \subseteq Items
           /\ AtSink \subseteq Items /\ AtDispatcher \subseteq Items
           /\ IsFiniteSet(window)
<1>1. IsFiniteSet(Items) /\ window \subseteq Items
  BY FS_Interval, LimitsAssumption DEF Items, TypeOK
<1>2. IsFiniteSet(window)
  BY <1>1, FS_Subset
<1>3. Queued(workQueue) \subseteq Items /\ Queued(resultQueue) \subseteq Items
  BY DEF Queued, TypeOK
<1> QED
  BY <1>2, <1>3 DEF AtWorkers, AtSink, AtDispatcher, TypeOK

-----------------------------------------------------------------------------
(* Ownership is inductive *)

\* Nothing is anywhere at the start.
LEMMA InitOwnInv == Init => OwnInv
<1> SUFFICES ASSUME Init PROVE OwnInv
  OBVIOUS
<1>1. /\ Queued(workQueue) = {} /\ Queued(resultQueue) = {} /\ AtWorkers = {}
      /\ AtSink = {} /\ AtDispatcher = {} /\ pending = {} /\ window = {}
  BY DEF Init, Queued, AtWorkers, Busy, AtSink, AtDispatcher
<1>2. InOnePlace
  BY <1>1 DEF InOnePlace, Disjoint, Distinct, Init, Busy
<1>3. WindowIsPlaces
  BY <1>1 DEF WindowIsPlaces
<1> QED
  BY <1>1, <1>2, <1>3, FS_EmptySet DEF OwnInv, Init

\* The dispatcher makes a place at a time and passes it to the channel.
LEMMA DispatcherOwnInv ==
    ASSUME TypeOK, WindowInv, OwnInv, Dispatcher PROVE OwnInv'
<1> USE DEF tokenVars, budgetVars, windowVars, itemVars, dispatcherVars,
            workerVars, coordinatorVars
<1> USE LimitsAssumption
<1>1. /\ dpc \in {"window", "check", "resources", "send"} => dnext \in Items
      /\ workQueue \in Seq(Items) /\ Distinct(workQueue)
      /\ windowUsed \in Nat /\ IsFiniteSet(window)
  BY PlacesTyped DEF TypeOK, Items, OwnInv, InOnePlace
<1>2. dnext \notin Queued(workQueue) \cup AtWorkers \cup Queued(resultQueue)
                   \cup pending \cup AtSink
  BY DispatchedElsewhere
<1>3. UNCHANGED <<wpc, witem, resultQueue, cpc, next, pending>>
  BY DEF Dispatcher, DispatchNext, DispatchStop, DispatchAcquireWindow,
     DispatchCheck, DispatchAcquireResources, DispatchSend, DispatchBreak
<1>4. UNCHANGED <<AtWorkers, AtSink, Queued(resultQueue)>>
  BY <1>3 DEF AtWorkers, Busy, AtSink, Queued
<1>5. CASE DispatchNext \/ DispatchStop \/ DispatchCheck
           \/ DispatchAcquireResources
  <2>1. UNCHANGED <<workQueue, window, windowUsed, AtDispatcher>>
    BY <1>5 DEF DispatchNext, DispatchStop, DispatchCheck,
       DispatchAcquireResources, AtDispatcher
  <2>2. InOnePlace' /\ WindowIsPlaces'
    BY <1>3, <1>4, <2>1
    DEF OwnInv, InOnePlace, WindowIsPlaces, Distinct, Queued, Busy
  <2> QED
    BY <2>1, <2>2 DEF OwnInv
<1>6. CASE DispatchAcquireWindow
  <2>1. /\ workQueue' = workQueue /\ AtDispatcher = {} /\ AtDispatcher' = {dnext}
        /\ window' = window \cup {dnext} /\ windowUsed' = windowUsed + 1
    BY <1>1, <1>6 DEF DispatchAcquireWindow, AtDispatcher
  <2>2. dnext \notin window
    BY <1>2, <2>1 DEF OwnInv, WindowIsPlaces
  <2>3. windowUsed' = Cardinality(window')
    BY <1>1, <2>1, <2>2, FS_AddElement DEF OwnInv
  <2>4. InOnePlace' /\ WindowIsPlaces'
    BY <1>3, <1>4, <2>1
    DEF OwnInv, InOnePlace, WindowIsPlaces, Distinct, Queued, Busy
  <2> QED
    BY <2>3, <2>4 DEF OwnInv
<1>7. CASE DispatchSend
  <2>1. /\ workQueue' = Append(workQueue, dnext) /\ dnext \in Items
        /\ AtDispatcher = {dnext} /\ AtDispatcher' = {}
        /\ window' = window /\ windowUsed' = windowUsed
    BY <1>1, <1>7 DEF DispatchSend, AtDispatcher
  <2>2. /\ Queued(workQueue') = Queued(workQueue) \cup {dnext}
        /\ Distinct(workQueue')
    BY <1>1, <1>2, <2>1, QueueRules
  <2>3. Disjoint(Queued(workQueue'), AtWorkers, Queued(resultQueue), pending, AtSink)
    BY <1>2, <2>2 DEF OwnInv, InOnePlace, Disjoint
  <2>4. InOnePlace'
    BY <1>3, <1>4, <2>2, <2>3 DEF OwnInv, InOnePlace, Distinct, Busy
  <2>5. WindowIsPlaces'
    BY <1>3, <1>4, <2>1, <2>2 DEF OwnInv, WindowIsPlaces
  <2> QED
    BY <2>1, <2>4, <2>5 DEF OwnInv
<1>8. CASE DispatchBreak
  <2>1. /\ workQueue' = workQueue /\ dnext \in Items /\ ReleaseWindow(dnext)
        /\ AtDispatcher = {dnext} /\ AtDispatcher' = {}
    BY <1>1, <1>8 DEF DispatchBreak, AtDispatcher, DropItem
  <2>2. dnext \in window /\ window' = window \ {dnext}
    BY <2>1 DEF OwnInv, WindowIsPlaces, ReleaseWindow
  <2>3. windowUsed' = Cardinality(window')
    BY <2>1, <2>2, ReleaseCounted
  <2>4. InOnePlace'
    BY <1>3, <1>4, <2>1 DEF OwnInv, InOnePlace, Distinct, Queued, Busy
  <2>5. WindowIsPlaces'
    BY <1>2, <1>3, <1>4, <2>1, <2>2 DEF OwnInv, WindowIsPlaces
  <2> QED
    BY <2>3, <2>4, <2>5 DEF OwnInv
<1> QED
  BY <1>5, <1>6, <1>7, <1>8 DEF Dispatcher

\* A worker that gives its item away leaves the others' items where they are.
LEMMA WorkerParts ==
    ASSUME TypeOK, InOnePlace, NEW w \in WorkerIds, Busy(w),
           NEW s \in {"receive", "done"}, wpc' = [wpc EXCEPT ![w] = s],
           witem' = witem
    PROVE  /\ AtWorkers' = AtWorkers \ {witem[w]} /\ witem[w] \in AtWorkers
           /\ \A v \in WorkerIds : Busy(v)' => Busy(v) /\ v # w
<1>1. \A v \in WorkerIds : Busy(v)' <=> Busy(v) /\ v # w
  BY DEF Busy, TypeOK
<1>2. \A v \in WorkerIds : Busy(v) /\ v # w => witem[v] # witem[w]
  BY DEF InOnePlace
<1>3. AtWorkers' = {witem[v] : v \in {u \in WorkerIds : Busy(u) /\ u # w}}
  BY <1>1 DEF AtWorkers
<1> QED
  BY <1>1, <1>2, <1>3 DEF AtWorkers

\* A worker that keeps its item, or stays without one, changes nothing.
LEMMA WorkerStays ==
    ASSUME TypeOK, NEW w \in WorkerIds, NEW s,
           wpc' = [wpc EXCEPT ![w] = s], witem' = witem,
           Busy(w) <=> s \notin {"receive", "done"}
    PROVE  AtWorkers' = AtWorkers /\ \A v \in WorkerIds : Busy(v)' <=> Busy(v)
<1>1. \A v \in WorkerIds : Busy(v)' <=> Busy(v)
  BY DEF Busy, TypeOK
<1> QED
  BY <1>1 DEF AtWorkers

\* A worker that receives an item adds it.
LEMMA WorkerTakes ==
    ASSUME TypeOK, NEW w \in WorkerIds, ~Busy(w), NEW x,
           wpc' = [wpc EXCEPT ![w] = "check"], witem' = [witem EXCEPT ![w] = x]
    PROVE  /\ AtWorkers' = AtWorkers \cup {x}
           /\ \A v \in WorkerIds : Busy(v)' <=> Busy(v) \/ v = w
           /\ \A v \in WorkerIds : witem'[v] = IF v = w THEN x ELSE witem[v]
<1>1. /\ \A v \in WorkerIds : Busy(v)' <=> Busy(v) \/ v = w
      /\ \A v \in WorkerIds : witem'[v] = IF v = w THEN x ELSE witem[v]
  BY DEF Busy, TypeOK
<1>2. AtWorkers' = {witem'[v] : v \in {u \in WorkerIds : Busy(u) \/ u = w}}
  BY <1>1 DEF AtWorkers
<1>3. AtWorkers' \subseteq AtWorkers \cup {x}
  BY <1>1, <1>2 DEF AtWorkers
<1>4. AtWorkers \subseteq AtWorkers'
  BY <1>1, <1>2 DEF AtWorkers
<1>5. x \in AtWorkers'
  BY <1>1, <1>2
<1> QED
  BY <1>1, <1>3, <1>4, <1>5

\* A worker takes one item from the channel, and passes it on or drops it.
LEMMA WorkerOwnInv ==
    ASSUME TypeOK, WindowInv, OwnInv, NEW w \in WorkerIds, Worker(w)
    PROVE  OwnInv'
<1> USE DEF tokenVars, budgetVars, windowVars, itemVars, dispatcherVars,
            workerVars, coordinatorVars
<1>1. /\ workQueue \in Seq(Items) /\ resultQueue \in Seq(Items)
      /\ Distinct(workQueue) /\ Distinct(resultQueue) /\ InOnePlace
      /\ witem[w] \in Items
  BY DEF TypeOK, OwnInv, InOnePlace
<1>2. UNCHANGED <<dpc, dnext, cpc, next, pending>>
  BY DEF Worker, WorkerReceive, WorkerExit, WorkerCheck, WorkerDefer,
     WorkerAdmit, WorkerAcquire, WorkerOperate, WorkerRefuse, WorkerFinish,
     WorkerSend, WorkerAbandon
<1>3. UNCHANGED <<AtDispatcher, AtSink>>
  BY <1>2 DEF AtDispatcher, AtSink
<1>4. CASE WorkerCheck(w) \/ WorkerDefer(w) \/ WorkerAdmit(w)
           \/ WorkerAcquire(w) \/ WorkerOperate(w) \/ WorkerRefuse(w)
           \/ WorkerFinish(w) \/ WorkerExit(w)
  <2>1. PICK s : /\ wpc' = [wpc EXCEPT ![w] = s]
                 /\ Busy(w) <=> s \notin {"receive", "done"}
    BY <1>4 DEF WorkerCheck, WorkerDefer, WorkerAdmit, WorkerAcquire,
       WorkerOperate, WorkerRefuse, WorkerFinish, WorkerExit, Busy
  <2>2. UNCHANGED <<windowUsed, window, workQueue, witem, resultQueue>>
    BY <1>4 DEF WorkerCheck, WorkerDefer, WorkerAdmit, WorkerAcquire,
       WorkerOperate, WorkerRefuse, WorkerFinish, WorkerExit
  <2>3. AtWorkers' = AtWorkers /\ \A v \in WorkerIds : Busy(v)' <=> Busy(v)
    BY <2>1, <2>2, WorkerStays
  <2>4. InOnePlace'
    BY <1>2, <1>3, <2>2, <2>3 DEF OwnInv, InOnePlace, Distinct, Queued
  <2>5. WindowIsPlaces'
    BY <1>2, <1>3, <2>2, <2>3 DEF OwnInv, WindowIsPlaces, Queued
  <2> QED
    BY <2>2, <2>4, <2>5 DEF OwnInv
<1>5. CASE WorkerReceive(w)
  <2> DEFINE x == Head(workQueue)
  <2>1. /\ workQueue # << >> /\ workQueue' = Tail(workQueue) /\ ~Busy(w)
        /\ witem' = [witem EXCEPT ![w] = x]
        /\ wpc' = [wpc EXCEPT ![w] = "check"]
        /\ UNCHANGED <<windowUsed, window, resultQueue>>
    BY <1>5 DEF WorkerReceive, Busy
  <2>2. /\ x \in Queued(workQueue) /\ Distinct(workQueue')
        /\ Queued(workQueue') = Queued(workQueue) \ {x}
    BY <1>1, <2>1, QueueRules
  <2>3. /\ AtWorkers' = AtWorkers \cup {x}
        /\ \A v \in WorkerIds : Busy(v)' <=> Busy(v) \/ v = w
        /\ \A v \in WorkerIds : witem'[v] = IF v = w THEN x ELSE witem[v]
    BY <2>1, WorkerTakes
  <2>4. x \notin AtWorkers
    BY <2>2 DEF OwnInv, InOnePlace, Disjoint
  <2>5. \A v, u \in WorkerIds :
           Busy(v)' /\ Busy(u)' /\ witem'[v] = witem'[u] => v = u
    BY <1>1, <2>3, <2>4 DEF InOnePlace, AtWorkers
  <2>6. Disjoint(Queued(workQueue'), AtWorkers', Queued(resultQueue), pending, AtSink)
    BY <2>2, <2>3 DEF OwnInv, InOnePlace, Disjoint
  <2>7. InOnePlace'
    BY <1>1, <1>2, <1>3, <2>1, <2>2, <2>5, <2>6 DEF InOnePlace
  <2>8. WindowIsPlaces'
    BY <1>2, <1>3, <2>1, <2>2, <2>3 DEF OwnInv, WindowIsPlaces
  <2> QED
    BY <2>1, <2>7, <2>8 DEF OwnInv
<1>6. CASE WorkerSend(w)
  <2>1. /\ resultQueue' = Append(resultQueue, witem[w]) /\ Busy(w)
        /\ wpc' = [wpc EXCEPT ![w] = "receive"]
        /\ UNCHANGED <<windowUsed, window, workQueue, witem>>
    BY <1>6 DEF WorkerSend, Busy
  <2>2. /\ AtWorkers' = AtWorkers \ {witem[w]} /\ witem[w] \in AtWorkers
        /\ \A v \in WorkerIds : Busy(v)' => Busy(v) /\ v # w
    BY <1>1, <2>1, WorkerParts
  <2>3. witem[w] \notin Queued(resultQueue)
    BY <2>2 DEF OwnInv, InOnePlace, Disjoint
  <2>4. /\ Queued(resultQueue') = Queued(resultQueue) \cup {witem[w]}
        /\ Distinct(resultQueue')
    BY <1>1, <2>1, <2>3, QueueRules
  <2>5. Disjoint(Queued(workQueue), AtWorkers', Queued(resultQueue'), pending, AtSink)
    BY <2>2, <2>4 DEF OwnInv, InOnePlace, Disjoint
  <2>6. InOnePlace'
    BY <1>1, <1>2, <1>3, <2>1, <2>2, <2>4, <2>5 DEF InOnePlace
  <2>7. WindowIsPlaces'
    BY <1>2, <1>3, <2>1, <2>2, <2>4 DEF OwnInv, WindowIsPlaces
  <2> QED
    BY <2>1, <2>6, <2>7 DEF OwnInv
<1>7. CASE WorkerAbandon(w)
  <2>1. /\ ReleaseWindow(witem[w]) /\ Busy(w)
        /\ wpc' = [wpc EXCEPT ![w] = "done"]
        /\ UNCHANGED <<workQueue, witem, resultQueue>>
    BY <1>7 DEF WorkerAbandon, DropItem, Busy
  <2>2. /\ AtWorkers' = AtWorkers \ {witem[w]} /\ witem[w] \in AtWorkers
        /\ \A v \in WorkerIds : Busy(v)' => Busy(v) /\ v # w
    BY <1>1, <2>1, WorkerParts
  <2>3. witem[w] \in window /\ window' = window \ {witem[w]}
    BY <2>1, <2>2 DEF OwnInv, WindowIsPlaces, ReleaseWindow
  <2>4. windowUsed' = Cardinality(window')
    BY <2>1, <2>3, ReleaseCounted
  <2>5. witem[w] \notin AtDispatcher
    BY <2>2, DispatchedElsewhere DEF AtDispatcher
  <2>6. InOnePlace'
    BY <1>1, <1>2, <1>3, <2>1, <2>2 DEF InOnePlace, Disjoint, Queued
  <2>7. WindowIsPlaces'
    BY <1>2, <1>3, <2>1, <2>2, <2>3, <2>5
    DEF OwnInv, InOnePlace, Disjoint, WindowIsPlaces, Queued
  <2> QED
    BY <2>4, <2>6, <2>7 DEF OwnInv
<1> QED
  BY <1>4, <1>5, <1>6, <1>7 DEF Worker

\* The coordinator moves an item from the channel through the reorder buffer
\* to the sink, and drops one at a time.
LEMMA CoordinatorOwnInv ==
    ASSUME TypeOK, WindowInv, OwnInv, Coordinator PROVE OwnInv'
<1> USE DEF tokenVars, budgetVars, windowVars, itemVars, dispatcherVars,
            workerVars, coordinatorVars
<1>1. /\ resultQueue \in Seq(Items) /\ Distinct(resultQueue) /\ InOnePlace
      /\ WindowIsPlaces /\ pending \subseteq Items
  BY DEF TypeOK, OwnInv, InOnePlace
<1>2. UNCHANGED <<dpc, dnext, workQueue, wpc, witem>>
  BY DEF Coordinator, CoordinatorReceive, CoordinatorLeave, CoordinatorDrain,
     CoordinatorDeliver, CoordinatorFail, CoordinatorCancel,
     CoordinatorDropPending, CoordinatorClose, CoordinatorDiscardResult,
     CoordinatorReturn
<1>3. UNCHANGED <<AtDispatcher, AtWorkers, Queued(workQueue)>>
  BY <1>2 DEF AtDispatcher, AtWorkers, Busy, Queued
<1>4. /\ \A v \in WorkerIds : Busy(v)' <=> Busy(v)
      /\ Distinct(workQueue) /\ Distinct(workQueue')
  BY <1>1, <1>2 DEF Busy, InOnePlace, Distinct
<1>5. \A i \in AtSink \cup pending \cup Queued(resultQueue) : i \notin AtDispatcher
  BY DispatchedElsewhere DEF AtDispatcher
<1>6. CASE CoordinatorReceive
  <2> DEFINE x == Head(resultQueue)
  <2>1. /\ resultQueue # << >> /\ resultQueue' = Tail(resultQueue)
        /\ pending' = pending \cup {x} /\ UNCHANGED <<windowUsed, window>>
        /\ AtSink = {} /\ AtSink' = {}
    BY <1>6 DEF CoordinatorReceive, AtSink
  <2>2. /\ x \in Queued(resultQueue) /\ Distinct(resultQueue')
        /\ Queued(resultQueue') = Queued(resultQueue) \ {x}
    BY <1>1, <2>1, QueueRules
  <2>3. Disjoint(Queued(workQueue), AtWorkers, Queued(resultQueue'), pending', AtSink')
    BY <1>1, <2>1, <2>2 DEF InOnePlace, Disjoint
  <2>4. InOnePlace'
    BY <1>1, <1>2, <1>3, <1>4, <2>2, <2>3 DEF InOnePlace
  <2>5. WindowIsPlaces'
    BY <1>1, <1>3, <2>1, <2>2 DEF WindowIsPlaces
  <2> QED
    BY <2>1, <2>4, <2>5 DEF OwnInv
<1>7. CASE CoordinatorDrain
  <2>1. UNCHANGED <<windowUsed, window, resultQueue, next>> /\ AtSink = {}
    BY <1>7 DEF CoordinatorDrain, AtSink
  <2>2. \/ pending' = pending /\ AtSink' = {}
        \/ next \in pending /\ pending' = pending \ {next} /\ AtSink' = {next}
    BY <1>1, <1>7 DEF CoordinatorDrain, AtSink
  <2>3. Disjoint(Queued(workQueue), AtWorkers, Queued(resultQueue), pending', AtSink')
    BY <1>1, <2>1, <2>2 DEF InOnePlace, Disjoint
  <2>4. InOnePlace'
    BY <1>1, <1>2, <1>3, <1>4, <2>1, <2>3 DEF InOnePlace, Distinct, Queued
  <2>5. WindowIsPlaces'
    BY <1>1, <1>3, <2>1, <2>2 DEF WindowIsPlaces, Queued
  <2> QED
    BY <2>1, <2>4, <2>5 DEF OwnInv
<1>8. CASE CoordinatorDeliver \/ CoordinatorFail
  <2>1. next \in Items
    BY <1>8, LimitsAssumption DEF CoordinatorDeliver, CoordinatorFail, TypeOK, Items
  <2>2. /\ ReleaseWindow(next) /\ AtSink = {next} /\ AtSink' = {}
        /\ UNCHANGED <<resultQueue, pending>>
    BY <1>8, <2>1 DEF CoordinatorDeliver, CoordinatorFail, AtSink, DropItem
  <2>3. next \in window /\ window' = window \ {next}
    BY <1>1, <2>2 DEF WindowIsPlaces, ReleaseWindow
  <2>4. windowUsed' = Cardinality(window')
    BY <2>2, <2>3, ReleaseCounted
  <2>5. InOnePlace'
    BY <1>1, <1>2, <1>3, <1>4, <2>2 DEF InOnePlace, Disjoint, Distinct, Queued
  <2>6. WindowIsPlaces'
    BY <1>1, <1>3, <1>5, <2>2, <2>3 DEF InOnePlace, Disjoint, WindowIsPlaces, Queued
  <2> QED
    BY <2>4, <2>5, <2>6 DEF OwnInv
<1>9. CASE CoordinatorDropPending
  <2>1. PICK x \in pending : pending' = pending \ {x} /\ ReleaseWindow(x)
    BY <1>9 DEF CoordinatorDropPending, DropItem
  <2>2. AtSink = {} /\ AtSink' = {} /\ UNCHANGED resultQueue
    BY <1>9 DEF CoordinatorDropPending, AtSink
  <2>3. x \in window /\ window' = window \ {x}
    BY <1>1, <2>1 DEF WindowIsPlaces, ReleaseWindow
  <2>4. windowUsed' = Cardinality(window')
    BY <2>1, <2>3, ReleaseCounted
  <2>5. InOnePlace'
    BY <1>1, <1>2, <1>3, <1>4, <2>1, <2>2 DEF InOnePlace, Disjoint, Distinct, Queued
  <2>6. WindowIsPlaces'
    BY <1>1, <1>3, <1>5, <2>1, <2>2, <2>3 DEF InOnePlace, Disjoint, WindowIsPlaces, Queued
  <2> QED
    BY <2>4, <2>5, <2>6 DEF OwnInv
<1>10. CASE CoordinatorDiscardResult
  <2> DEFINE x == Head(resultQueue)
  <2>1. /\ resultQueue # << >> /\ resultQueue' = Tail(resultQueue)
        /\ ReleaseWindow(x) /\ AtSink = {} /\ AtSink' = {} /\ UNCHANGED pending
    BY <1>10 DEF CoordinatorDiscardResult, AtSink, DropItem
  <2>2. /\ x \in Queued(resultQueue) /\ Distinct(resultQueue')
        /\ Queued(resultQueue') = Queued(resultQueue) \ {x}
    BY <1>1, <2>1, QueueRules
  <2>3. x \in window /\ window' = window \ {x}
    BY <1>1, <2>1, <2>2 DEF WindowIsPlaces, ReleaseWindow
  <2>4. windowUsed' = Cardinality(window')
    BY <2>1, <2>3, ReleaseCounted
  <2>5. Disjoint(Queued(workQueue), AtWorkers, Queued(resultQueue'), pending', AtSink')
    BY <1>1, <2>1, <2>2 DEF InOnePlace, Disjoint
  <2>6. InOnePlace'
    BY <1>1, <1>2, <1>3, <1>4, <2>2, <2>5 DEF InOnePlace
  <2>7. WindowIsPlaces'
    BY <1>1, <1>3, <1>5, <2>1, <2>2, <2>3 DEF InOnePlace, Disjoint, WindowIsPlaces
  <2> QED
    BY <2>4, <2>6, <2>7 DEF OwnInv
<1>11. CASE CoordinatorLeave \/ CoordinatorCancel \/ CoordinatorClose
            \/ CoordinatorReturn
  <2>1. UNCHANGED <<windowUsed, window, resultQueue, pending, AtSink>>
    BY <1>11 DEF CoordinatorLeave, CoordinatorCancel, CoordinatorClose,
       CoordinatorReturn, AtSink
  <2>2. InOnePlace'
    BY <1>1, <1>2, <1>3, <1>4, <2>1 DEF InOnePlace, Distinct, Queued
  <2>3. WindowIsPlaces'
    BY <1>1, <1>3, <2>1 DEF WindowIsPlaces, Queued
  <2> QED
    BY <2>1, <2>2, <2>3 DEF OwnInv
<1> QED
  BY <1>6, <1>7, <1>8, <1>9, <1>10, <1>11 DEF Coordinator

\* Given the types and the window, ownership is inductive.
LEMMA NextOwnInv == TypeOK /\ WindowInv /\ OwnInv /\ [Next]_vars => OwnInv'
<1> SUFFICES ASSUME TypeOK, WindowInv, OwnInv, [Next]_vars PROVE OwnInv'
  OBVIOUS
<1> USE DEF tokenVars, budgetVars, windowVars, itemVars, dispatcherVars,
            workerVars, coordinatorVars
<1>1. CASE DiscardWork
  <2> DEFINE x == Head(workQueue)
  <2>1. /\ workQueue \in Seq(Items) /\ Distinct(workQueue) /\ InOnePlace
        /\ WindowIsPlaces
    BY DEF TypeOK, OwnInv, InOnePlace
  <2>2. /\ workQueue # << >> /\ workQueue' = Tail(workQueue) /\ ReleaseWindow(x)
        /\ UNCHANGED <<dpc, dnext, wpc, witem, resultQueue, cpc, next, pending>>
    BY <1>1 DEF DiscardWork, DropItem
  <2>3. UNCHANGED <<AtDispatcher, AtWorkers, AtSink, Queued(resultQueue)>>
    BY <2>2 DEF AtDispatcher, AtWorkers, AtSink, Busy, Queued
  <2>4. /\ x \in Queued(workQueue) /\ Distinct(workQueue')
        /\ Queued(workQueue') = Queued(workQueue) \ {x}
    BY <2>1, <2>2, QueueRules
  <2>5. x \in window /\ window' = window \ {x} /\ x \notin AtDispatcher
    BY <2>1, <2>2, <2>4, DispatchedElsewhere
    DEF WindowIsPlaces, ReleaseWindow, AtDispatcher
  <2>6. windowUsed' = Cardinality(window')
    BY <2>2, <2>5, ReleaseCounted
  <2>7. Disjoint(Queued(workQueue'), AtWorkers, Queued(resultQueue), pending, AtSink)
    BY <2>1, <2>4 DEF InOnePlace, Disjoint
  <2>8. InOnePlace'
    BY <2>1, <2>2, <2>3, <2>4, <2>7 DEF InOnePlace, Distinct, Busy
  <2>9. WindowIsPlaces'
    BY <2>1, <2>2, <2>3, <2>4, <2>5 DEF InOnePlace, Disjoint, WindowIsPlaces
  <2> QED
    BY <2>6, <2>8, <2>9 DEF OwnInv
<1>2. CASE Cancel \/ Terminated \/ UNCHANGED vars
  <2>1. UNCHANGED <<windowUsed, window, dpc, dnext, workQueue, wpc, witem,
                    resultQueue, cpc, next, pending>>
    BY <1>2 DEF Cancel, Terminated, vars
  <2>2. UNCHANGED <<AtDispatcher, AtWorkers, AtSink>>
    BY <2>1 DEF AtDispatcher, AtWorkers, AtSink, Busy
  <2>3. InOnePlace' /\ WindowIsPlaces'
    BY <2>1, <2>2 DEF OwnInv, InOnePlace, WindowIsPlaces, Distinct, Queued, Busy
  <2> QED
    BY <2>1, <2>3 DEF OwnInv
<1> QED
  BY <1>1, <1>2, DispatcherOwnInv, WorkerOwnInv, CoordinatorOwnInv DEF Next

\* Every admitted item is in exactly one place, and the counter of the
\* window is the number of permits.
LEMMA Ownership == Spec => [](TypeOK /\ WindowInv /\ OwnInv)
<1>1. TypeOK /\ WindowInv /\ OwnInv /\ [Next]_vars => (TypeOK /\ WindowInv /\ OwnInv)'
  BY NextTypeOK, NextWindowInv, NextOwnInv
<1>2. Init => TypeOK /\ WindowInv /\ OwnInv
  BY InitTypeOK, InitWindowInv, InitOwnInv
<1> QED
  BY <1>1, <1>2, PTL DEF Spec

-----------------------------------------------------------------------------
(* The reorder buffer *)

\* A coordinator that waits has delivered everything it can, and then the
\* buffer leaves room in the window for the item it waits for.
PendingInv == (cpc = "receive" => next \notin pending) /\ PendingBounded

\* While the coordinator is in its loop, the item it waits for has a place in
\* the window whenever a later one has, so what else is buffered leaves that
\* place free.
LEMMA BufferLeavesRoom ==
    ASSUME TypeOK, WindowInv, OwnInv, Flowing,
           NEW buffer \in SUBSET pending, next \notin buffer
    PROVE  Cardinality(buffer) <= Lookahead - 1
<1>1. IsFiniteSet(window) /\ buffer \subseteq window
  BY PlacesTyped DEF OwnInv, WindowIsPlaces
<1>2. Cardinality(window) <= Lookahead /\ Cardinality(window) \in Nat
  BY DEF OwnInv, WindowInv, TypeOK
<1>3. window = next .. dnext - 1 + Holding
  BY DEF WindowInv, WindowIsInterval
<1>4. CASE buffer = {}
  BY <1>4, FS_EmptySet, LimitsAssumption
<1>5. CASE buffer # {}
  <2>1. next \in window
    <3>1. PICK i \in buffer : i \in window
      BY <1>1, <1>5
    <3>2. next \in Int /\ dnext \in Int /\ Holding \in Int
      BY LimitsAssumption DEF TypeOK, Holding
    <3> QED
      BY <1>3, <3>1, <3>2
  <2>2. buffer \subseteq window \ {next}
    BY <1>1
  <2>3. /\ IsFiniteSet(window \ {next})
        /\ Cardinality(window \ {next}) = Cardinality(window) - 1
    BY <1>1, <2>1, FS_RemoveElement
  <2>4. Cardinality(buffer) <= Cardinality(window \ {next})
    BY <2>2, <2>3, FS_Subset
  <2>5. IsFiniteSet(buffer)
    BY <2>2, <2>3, FS_Subset
  <2>6. Cardinality(buffer) \in Nat
    BY <2>5, FS_CardinalityType
  <2> QED
    BY <1>2, <2>3, <2>4, <2>6, LimitsAssumption
<1> QED
  BY <1>4, <1>5

\* The bound on the reorder buffer is inductive.
LEMMA NextPendingInv ==
    TypeOK /\ WindowInv /\ OwnInv /\ PendingInv /\ [Next]_vars => PendingInv'
<1> SUFFICES ASSUME TypeOK, WindowInv, OwnInv, PendingInv, [Next]_vars
             PROVE  PendingInv'
  OBVIOUS
<1> USE DEF tokenVars, budgetVars, windowVars, itemVars, dispatcherVars,
            workerVars, coordinatorVars
<1>1. CASE UNCHANGED <<cpc, next, pending>>
  BY <1>1 DEF PendingInv, PendingBounded
<1>2. CASE Coordinator
  <2>1. CASE CoordinatorReceive \/ CoordinatorDeliver
    BY <2>1 DEF CoordinatorReceive, CoordinatorDeliver, PendingInv, PendingBounded
  <2>2. CASE CoordinatorDrain
    <3>1. /\ pending' \in SUBSET pending /\ next \notin pending' /\ next' = next
          /\ Flowing
      BY <2>2 DEF CoordinatorDrain, Flowing
    <3>2. Cardinality(pending') <= Lookahead - 1
      BY <3>1, BufferLeavesRoom
    <3> QED
      BY <3>1, <3>2 DEF PendingInv, PendingBounded
  <2>3. CASE CoordinatorLeave \/ CoordinatorFail \/ CoordinatorCancel
             \/ CoordinatorClose \/ CoordinatorDiscardResult \/ CoordinatorReturn
    <3>1. pending' = pending /\ cpc' # "receive" /\ cpc # "drain"
      BY <2>3 DEF CoordinatorLeave, CoordinatorFail, CoordinatorCancel,
         CoordinatorClose, CoordinatorDiscardResult, CoordinatorReturn
    <3> QED
      BY <3>1 DEF PendingInv, PendingBounded
  <2>4. CASE CoordinatorDropPending
    <3>1. PICK i \in pending : pending' = pending \ {i}
      BY <2>4 DEF CoordinatorDropPending
    <3>2. cpc = "close" /\ cpc' = "close"
      BY <2>4 DEF CoordinatorDropPending
    <3>3. IsFiniteSet(pending)
      BY PlacesTyped, FS_Subset DEF OwnInv, WindowIsPlaces
    <3>4. Cardinality(pending') <= Cardinality(pending)
      BY <3>1, <3>3, FS_Subset
    <3>5. Cardinality(pending) \in Nat /\ Cardinality(pending') \in Nat
      BY <3>1, <3>3, FS_Subset, FS_CardinalityType
    <3> QED
      BY <3>2, <3>4, <3>5, LimitsAssumption DEF PendingInv, PendingBounded
  <2> QED
    BY <1>2, <2>1, <2>2, <2>3, <2>4 DEF Coordinator
<1>3. CASE Dispatcher
  BY <1>1, <1>3 DEF Dispatcher, DispatchNext, DispatchStop,
     DispatchAcquireWindow, DispatchCheck, DispatchAcquireResources,
     DispatchSend, DispatchBreak
<1>4. ASSUME NEW w \in WorkerIds, Worker(w) PROVE PendingInv'
  BY <1>1, <1>4 DEF Worker, WorkerReceive, WorkerExit, WorkerCheck,
     WorkerDefer, WorkerAdmit, WorkerAcquire, WorkerOperate, WorkerRefuse,
     WorkerFinish, WorkerSend, WorkerAbandon
<1>5. CASE DiscardWork \/ Cancel \/ Terminated \/ UNCHANGED vars
  BY <1>1, <1>5 DEF DiscardWork, Cancel, Terminated, vars
<1> QED
  BY <1>2, <1>3, <1>4, <1>5 DEF Next

\* The reorder buffer never holds dispatch_lookahead outputs once the
\* coordinator has drained it, as the reported DeliveryQueueDepth says,
\* whatever order the workers finish in.
THEOREM ReorderBufferSafe == Spec => []PendingBounded
<1>1. Init => PendingInv
  BY FS_EmptySet, LimitsAssumption DEF Init, PendingInv, PendingBounded
<1>2. Spec => []PendingInv
  BY <1>1, Ownership, NextPendingInv, PTL DEF Spec
<1> QED
  BY <1>2, PTL DEF PendingInv
=============================================================================
