--------------------------- MODULE PipelineCharges ---------------------------
(***************************************************************************)
(* What every item of Pipeline has reserved at every moment of its way,    *)
(* for any number of items, workers and bytes, and what its result says.   *)
(* From this follow the exact charge of the outputs on their way to the    *)
(* sink, the conservation of the byte budget and its release on return.    *)
(***************************************************************************)
EXTENDS PipelineProofs

-----------------------------------------------------------------------------
(* The charge of an item, step by step *)

\* The bytes a preparation misses, what it keeps of its permit while it waits
\* for them, what it asks for, and whether that can be had at all.
Short(i) == SubtractWeights(plan[i].required, plan[i].weights)
Kept(i) == IF Short(i)["prepared"] > 0 THEN WithoutPrepared(plan[i].weights)
           ELSE plan[i].weights
Asked(i) == SubtractWeights(plan[i].required, Kept(i))
Admissible(i) == Short(i) # NoWeights => Fits(NoWeights, Asked(i), Limit)

\* An item that owns nothing, and one that owns what it was scheduled with.
Unpaid(i) == permit[i] = NoWeights /\ extra[i] = NoWeights
Scheduled(i) == permit[i] = plan[i].weights /\ extra[i] = NoWeights

\* The bytes of an output: its own if it is good, none otherwise.
Charge(i) == [NoWeights EXCEPT !["prepared"] =
                 IF result[i] = "ok" THEN plan[i].bytes ELSE 0]

\* An item that left its worker: it is charged exactly, and its result is
\* the one its plan decides unless the token was cancelled.
Settled(i) ==
    /\ AddWeights(permit[i], extra[i]) = Charge(i)
    /\ result[i] # "none"
    /\ result[i] = "ok" => Verdict(i) = plan[i].deliver
    /\ result[i] \in {"prepare", "limit"} => Verdict(i) = result[i]
    /\ result[i] = "cancelled" => cancelled

\* The result a preparation ended with, before its size is checked.
Ended(i) ==
    /\ result[i] # "none"
    /\ result[i] = "ok" =>
          /\ permit[i] = Kept(i) /\ extra[i] = PreparedPart(Asked(i))
          /\ reserved[i]["prepared"] =
                MaxWeights(Kept(i), plan[i].required)["prepared"]
          /\ plan[i].prepare = "ok" /\ Admissible(i)
    /\ result[i] = "prepare" => plan[i].prepare = "prepare" /\ Admissible(i)
    /\ result[i] = "limit" => ~Admissible(i)
    /\ result[i] = "cancelled" => cancelled

\* What holds of a worker's item at each of its steps.
AtStep(i, step) ==
    /\ step \in {"check", "defer"} => Scheduled(i) /\ reserved[i] = permit[i]
    /\ step \in {"defer", "admit", "wait"} => Short(i) # NoWeights
    /\ step \in {"admit", "wait"} =>
          permit[i] = Kept(i) /\ reserved[i] = Kept(i) /\ extra[i] = NoWeights
    /\ step \in {"wait", "operate"} => Admissible(i)
    /\ step = "operate" =>
          /\ permit[i] = Kept(i) /\ extra[i] = Asked(i)
          /\ reserved[i] = MaxWeights(Kept(i), plan[i].required)
    /\ step = "finish" => Ended(i)
    /\ step = "send" => Settled(i)

\* The inductive invariant of the charges.
ChargeInv ==
    /\ \A i \in Items \ window : Unpaid(i)
    /\ dpc \in {"check", "resources"} => Unpaid(dnext)
    /\ dpc = "send" => Scheduled(dnext)
    /\ \A i \in Queued(workQueue) : Scheduled(i)
    /\ \A w \in WorkerIds : Busy(w) => AtStep(witem[w], wpc[w])
    /\ \A i \in Queued(resultQueue) \cup pending \cup AtSink : Settled(i)

-----------------------------------------------------------------------------
(* Facts about one item *)

\* The operators over the plan have their types.
LEMMA PlanWeights ==
    ASSUME TypeOK, NEW i \in Items
    PROVE  /\ Short(i) \in Weights /\ Kept(i) \in Weights /\ Asked(i) \in Weights
           /\ plan[i].weights \in Weights /\ plan[i].required \in Weights
           /\ plan[i].bytes \in Nat
<1>1. /\ plan[i].weights \in Weights /\ plan[i].required \in Weights
      /\ plan[i].bytes \in Nat
  BY PlanTyped DEF TypeOK
<1>2. Short(i) \in Weights /\ Kept(i) \in Weights
  BY <1>1, WeightsClosed DEF Short, Kept
<1> QED
  BY <1>1, <1>2, WeightsClosed DEF Asked

\* A preparation that misses nothing is admitted with what it has.
LEMMA NothingShort ==
    ASSUME TypeOK, NEW i \in Items, Short(i) = NoWeights
    PROVE  /\ Kept(i) = plan[i].weights /\ Asked(i) = NoWeights
           /\ MaxWeights(plan[i].weights, plan[i].required) = plan[i].weights
           /\ Admissible(i)
<1>1. plan[i].weights \in Weights /\ plan[i].required \in Weights
  BY PlanWeights
<1>2. Kept(i) = plan[i].weights
  BY DEF Kept, NoWeights, Dims
<1>3. Asked(i) = NoWeights
  BY <1>2 DEF Asked, Short
<1>4. \A d \in Dims : plan[i].required[d] <= plan[i].weights[d]
  BY <1>1 DEF Short, SubtractWeights, NoWeights, Weights
<1>5. MaxWeights(plan[i].weights, plan[i].required) = plan[i].weights
  BY <1>1, <1>4 DEF MaxWeights, Weights
<1> QED
  BY <1>2, <1>3, <1>5 DEF Admissible

\* The prepared bytes of the permit and of the addition make up the larger
\* of what was scheduled and what was required.
LEMMA PreparedCovered ==
    ASSUME TypeOK, NEW i \in Items
    PROVE  /\ Kept(i)["prepared"] + PreparedPart(Asked(i))["prepared"]
                = MaxWeights(Kept(i), plan[i].required)["prepared"]
           /\ MaxWeights(Kept(i), plan[i].required)["prepared"]
                = MaxWeights(plan[i].weights, plan[i].required)["prepared"]
           /\ MaxWeights(Kept(i), plan[i].required)["prepared"] \in Nat
<1>1. plan[i].weights \in Weights /\ plan[i].required \in Weights
  BY PlanWeights
<1> DEFINE w == plan[i].weights["prepared"]
           r == plan[i].required["prepared"]
           k == Kept(i)["prepared"]
<1>2. w \in Nat /\ r \in Nat
  BY <1>1 DEF Weights, Dims
<1>3. k = IF r > w THEN 0 ELSE w
  <2>1. Short(i)["prepared"] = IF r > w THEN r - w ELSE 0
    BY <1>1 DEF Short, SubtractWeights, Dims
  <2>2. WithoutPrepared(plan[i].weights)["prepared"] = 0
    BY <1>1 DEF WithoutPrepared, Weights, Dims
  <2> QED
    BY <1>2, <2>1, <2>2 DEF Kept
<1>4. PreparedPart(Asked(i))["prepared"] = IF r > k THEN r - k ELSE 0
  <2>1. Asked(i)["prepared"] = IF r > k THEN r - k ELSE 0
    BY DEF Asked, SubtractWeights, Dims
  <2>2. Asked(i) \in Weights
    BY PlanWeights
  <2> QED
    BY <2>1, <2>2 DEF PreparedPart, Weights, Dims
<1>5. /\ MaxWeights(Kept(i), plan[i].required)["prepared"] = IF k > r THEN k ELSE r
      /\ MaxWeights(plan[i].weights, plan[i].required)["prepared"] = IF w > r THEN w ELSE r
  BY DEF MaxWeights, Dims
<1> HIDE DEF w, r, k
<1>6. k + (IF r > k THEN r - k ELSE 0) = (IF k > r THEN k ELSE r)
  BY <1>2, <1>3
<1>7. (IF k > r THEN k ELSE r) = (IF w > r THEN w ELSE r)
  BY <1>2, <1>3
<1> QED
  BY <1>2, <1>3, <1>4, <1>5, <1>6, <1>7 DEF k

\* Retaining from two permits that hold enough keeps exactly what is asked.
LEMMA RetainedExactly ==
    ASSUME NEW a \in Weights, NEW b \in Weights, NEW n \in Nat,
           a["prepared"] + b["prepared"] >= n
    PROVE  AddWeights(RetainPrepared(a, n),
                      RetainPrepared(b, n - RetainPrepared(a, n)["prepared"]))
             = [NoWeights EXCEPT !["prepared"] = n]
BY DEF AddWeights, RetainPrepared, NoWeights, Weights, Dims

\* The verdict of an item, from what its preparation met.
LEMMA VerdictCases ==
    ASSUME TypeOK, NEW i \in Items
    PROVE  /\ ~Admissible(i) => Verdict(i) = "limit"
           /\ Admissible(i) /\ plan[i].prepare = "prepare" => Verdict(i) = "prepare"
           /\ Admissible(i) /\ plan[i].prepare = "ok" =>
                Verdict(i) =
                  IF plan[i].bytes > MaxWeights(Kept(i), plan[i].required)["prepared"]
                  THEN "limit" ELSE plan[i].deliver
<1> DEFINE p == plan[i]
           short == SubtractWeights(p.required, p.weights)
           asked == IF short["prepared"] > 0
                    THEN SubtractWeights(p.required, WithoutPrepared(p.weights))
                    ELSE short
<1>1. short = Short(i) /\ asked = Asked(i)
  BY DEF Short, Kept, Asked
<1>2. Admissible(i) <=> ~(short # NoWeights /\ ~Fits(NoWeights, asked, Limit))
  BY <1>1 DEF Admissible
<1>3. MaxWeights(Kept(i), p.required)["prepared"] = MaxWeights(p.weights, p.required)["prepared"]
  BY PreparedCovered
<1>4. Verdict(i) =
         IF short # NoWeights /\ ~Fits(NoWeights, asked, Limit) THEN "limit"
         ELSE IF p.prepare # "ok" THEN p.prepare
         ELSE IF p.bytes > MaxWeights(p.weights, p.required)["prepared"] THEN "limit"
         ELSE p.deliver
  BY DEF Verdict
<1> QED
  BY <1>2, <1>3, <1>4

\* A step that leaves an item's permits, reservation and result alone leaves
\* what holds of the item alone.
Untouched(i) ==
    /\ permit'[i] = permit[i] /\ extra'[i] = extra[i]
    /\ reserved'[i] = reserved[i] /\ result'[i] = result[i]

Preserved(i) ==
    /\ Unpaid(i) => Unpaid(i)'
    /\ Scheduled(i) => Scheduled(i)'
    /\ Settled(i) => Settled(i)'
    /\ \A step \in WorkerSteps : AtStep(i, step) => AtStep(i, step)'

\* The plan is fixed, so what it says of an item is.
LEMMA PlanFixed ==
    ASSUME plan' = plan, NEW i
    PROVE  /\ Short(i)' = Short(i) /\ Kept(i)' = Kept(i) /\ Asked(i)' = Asked(i)
           /\ (Admissible(i)' <=> Admissible(i)) /\ Verdict(i)' = Verdict(i)
<1>1. Short(i)' = Short(i)
  BY DEF Short
<1>2. Kept(i)' = Kept(i)
  BY <1>1 DEF Kept
<1>3. Asked(i)' = Asked(i)
  BY <1>2 DEF Asked
<1>4. Admissible(i)' <=> Admissible(i)
  BY <1>1, <1>3 DEF Admissible
<1>5. Verdict(i)' = Verdict(i)
  BY DEF Verdict
<1> QED
  BY <1>1, <1>2, <1>3, <1>4, <1>5

\* An item that no step touches keeps its charge.
LEMMA UntouchedPreserved ==
    ASSUME plan' = plan, cancelled => cancelled', NEW i, Untouched(i)
    PROVE  Preserved(i)
<1>0. AddWeights(permit[i], extra[i])' = AddWeights(permit[i], extra[i])
  BY DEF Untouched
<1>1. /\ Short(i)' = Short(i) /\ Kept(i)' = Kept(i) /\ Asked(i)' = Asked(i)
      /\ (Admissible(i)' <=> Admissible(i)) /\ Verdict(i)' = Verdict(i)
  BY PlanFixed
<1>2. (Unpaid(i) => Unpaid(i)') /\ (Scheduled(i) => Scheduled(i)')
  BY DEF Untouched, Unpaid, Scheduled
<1>3. Charge(i)' = Charge(i)
  BY DEF Untouched, Charge
<1>4. Settled(i) => Settled(i)'
  BY <1>0, <1>1, <1>3 DEF Untouched, Settled
<1>5. Ended(i) => Ended(i)'
  BY <1>1 DEF Untouched, Ended
<1>6. ASSUME NEW step, AtStep(i, step) PROVE AtStep(i, step)'
  BY <1>1, <1>2, <1>4, <1>5, <1>6 DEF Untouched, AtStep
<1> QED
  BY <1>2, <1>4, <1>6 DEF Preserved

\* A step that changes only what x owns touches no other item.
LEMMA OthersPreserved ==
    ASSUME TypeOK, NEW x \in Items, plan' = plan, cancelled => cancelled',
           NEW p, NEW e, NEW r, NEW s,
           permit' = [permit EXCEPT ![x] = p], extra' = [extra EXCEPT ![x] = e],
           reserved' = [reserved EXCEPT ![x] = r],
           result' = [result EXCEPT ![x] = s]
    PROVE  \A i \in Items \ {x} : Preserved(i)
<1>1. \A i \in Items \ {x} : Untouched(i)
  BY DEF Untouched, TypeOK
<1> QED
  BY <1>1, UntouchedPreserved

-----------------------------------------------------------------------------
(* The charges are inductive *)

\* Every step keeps the plan and a cancelled token.
LEMMA StepFacts ==
    ASSUME [Next]_vars
    PROVE  plan' = plan /\ (cancelled => cancelled')
<1> USE DEF tokenVars, budgetVars, windowVars, itemVars, dispatcherVars,
            workerVars, coordinatorVars
<1>1. CASE Dispatcher
  BY <1>1 DEF Dispatcher, DispatchNext, DispatchStop, DispatchAcquireWindow,
     DispatchCheck, DispatchAcquireResources, DispatchSend, DispatchBreak
<1>2. ASSUME NEW w \in WorkerIds, Worker(w)
      PROVE  plan' = plan /\ (cancelled => cancelled')
  BY <1>2 DEF Worker, WorkerReceive, WorkerExit, WorkerCheck, WorkerDefer,
     WorkerAdmit, WorkerAcquire, WorkerOperate, WorkerRefuse, WorkerFinish,
     WorkerSend, WorkerAbandon
<1>3. CASE Coordinator
  BY <1>3 DEF Coordinator, CoordinatorReceive, CoordinatorLeave,
     CoordinatorDrain, CoordinatorDeliver, CoordinatorFail, CoordinatorCancel,
     CoordinatorDropPending, CoordinatorClose, CoordinatorDiscardResult,
     CoordinatorReturn
<1>4. CASE DiscardWork \/ Cancel \/ Terminated \/ UNCHANGED vars
  BY <1>4 DEF DiscardWork, Cancel, Terminated, vars
<1> QED
  BY <1>1, <1>2, <1>3, <1>4 DEF Next

\* Nobody has anything at the start.
LEMMA InitChargeInv == Init => ChargeInv
<1> SUFFICES ASSUME Init PROVE ChargeInv
  OBVIOUS
<1>1. /\ Queued(workQueue) = {} /\ Queued(resultQueue) = {} /\ AtSink = {}
      /\ pending = {} /\ dpc = "next"
  BY DEF Init, Queued, AtSink
<1>2. \A i \in Items : Unpaid(i)
  BY DEF Init, Unpaid
<1>3. \A w \in WorkerIds : ~Busy(w)
  BY DEF Init, Busy
<1> QED
  BY <1>1, <1>2, <1>3 DEF ChargeInv

\* A step that touches no item's charge.
LEMMA AllPreserved ==
    ASSUME TypeOK, [Next]_vars, UNCHANGED <<permit, extra, reserved, result>>
    PROVE  \A i : Preserved(i)
<1>1. \A i : Untouched(i)
  BY DEF Untouched
<1> QED
  BY <1>1, StepFacts, UntouchedPreserved

\* Dropping an item leaves it without anything.
LEMMA DroppedUnpaid ==
    ASSUME TypeOK, [Next]_vars, NEW x \in Items, DropItem(x),
           UNCHANGED <<reserved, result>>
    PROVE  /\ Unpaid(x)' /\ window' = window \ {x}
           /\ \A i \in Items \ {x} : Preserved(i)
<1>1. /\ permit' = [permit EXCEPT ![x] = NoWeights]
      /\ extra' = [extra EXCEPT ![x] = NoWeights] /\ window' = window \ {x}
  BY DEF DropItem, ShrinkPermits, ReleaseWindow
<1>2. Unpaid(x)'
  BY <1>1 DEF Unpaid, TypeOK
<1>3. /\ reserved' = [reserved EXCEPT ![x] = reserved[x]]
      /\ result' = [result EXCEPT ![x] = result[x]]
  BY DEF TypeOK
<1>4. \A i \in Items \ {x} : Preserved(i)
  BY <1>1, <1>3, StepFacts, OthersPreserved
<1> QED
  BY <1>1, <1>2, <1>4

\* The dispatcher charges an item what it was scheduled with.
LEMMA DispatcherChargeInv ==
    ASSUME TypeOK, WindowInv, OwnInv, ChargeInv, Dispatcher PROVE ChargeInv'
<1> USE LimitsAssumption
        DEF tokenVars, budgetVars, windowVars, itemVars, dispatcherVars,
            workerVars, coordinatorVars
<1>1. /\ dpc \in {"window", "check", "resources", "send"} => dnext \in Items
      /\ workQueue \in Seq(Items) /\ Distinct(workQueue) /\ [Next]_vars
  BY DEF TypeOK, Items, OwnInv, InOnePlace, Next
<1>2. dnext \notin Queued(workQueue) \cup AtWorkers \cup Queued(resultQueue)
                   \cup pending \cup AtSink
  BY DispatchedElsewhere
<1>3. /\ UNCHANGED <<wpc, witem, resultQueue, cpc, next, pending>>
      /\ UNCHANGED <<reserved, result>>
  BY DEF Dispatcher, DispatchNext, DispatchStop, DispatchAcquireWindow,
     DispatchCheck, DispatchAcquireResources, DispatchSend, DispatchBreak
<1>4. AtSink' = AtSink /\ \A w \in WorkerIds : Busy(w) => witem[w] \in AtWorkers
  BY <1>3 DEF AtSink, AtWorkers
<1>5. /\ Queued(workQueue) \subseteq Items /\ Queued(resultQueue) \subseteq Items
      /\ AtWorkers \subseteq Items /\ pending \subseteq Items /\ AtSink \subseteq Items
      /\ \A w \in WorkerIds : wpc[w] \in WorkerSteps
  BY PlacesTyped DEF TypeOK
<1>6. ASSUME \A i \in Items \ {dnext} : Preserved(i)
      PROVE  /\ \A w \in WorkerIds : Busy(w)' => AtStep(witem[w], wpc[w])'
             /\ \A i \in Queued(resultQueue)' \cup pending' \cup AtSink' : Settled(i)'
             /\ \A i \in Queued(workQueue) : Scheduled(i)'
  <2>1. \A w \in WorkerIds : Busy(w) =>
           \A i, step : i = witem[w] /\ step = wpc[w] => AtStep(i, step)'
    BY <1>2, <1>4, <1>5, <1>6 DEF ChargeInv, Preserved
  <2>2. \A w \in WorkerIds : Busy(w)' => AtStep(witem[w], wpc[w])'
    BY <1>3, <2>1 DEF Busy
  <2>3. Queued(resultQueue)' \cup pending' \cup AtSink'
           = Queued(resultQueue) \cup pending \cup AtSink
    BY <1>3, <1>4 DEF Queued
  <2> QED
    BY <1>2, <1>5, <1>6, <2>2, <2>3 DEF ChargeInv, Preserved
<1>7. CASE DispatchNext \/ DispatchStop \/ DispatchCheck
  <2>1. UNCHANGED <<workQueue, window, dnext, permit, extra>>
    BY <1>7 DEF DispatchNext, DispatchStop, DispatchCheck
  <2>2. \A i : Preserved(i)
    BY <1>1, <1>3, <2>1, AllPreserved
  <2>3. /\ dpc' # "send"
        /\ dpc' \in {"check", "resources"} => dpc \in {"check", "resources"}
    BY <1>7 DEF DispatchNext, DispatchStop, DispatchCheck
  <2>4. \A i \in Items \ window' : Unpaid(i)'
    BY <2>1, <2>2 DEF ChargeInv, Preserved
  <2>5. dpc' \in {"check", "resources"} => Unpaid(dnext)'
    BY <2>1, <2>2, <2>3 DEF ChargeInv, Preserved, Unpaid
  <2>6. Queued(workQueue)' = Queued(workQueue)
    BY <2>1 DEF Queued
  <2> QED
    BY <1>6, <2>2, <2>3, <2>4, <2>5, <2>6 DEF ChargeInv
<1>8. CASE DispatchAcquireWindow
  <2>1. /\ UNCHANGED <<workQueue, dnext, permit, extra>> /\ dpc = "window"
        /\ window' = window \cup {dnext} /\ dpc' = "check" /\ dnext \in Items
    BY <1>1, <1>8 DEF DispatchAcquireWindow
  <2>2. \A i : Preserved(i)
    BY <1>1, <1>3, <2>1, AllPreserved
  <2>3. dnext \notin window
    BY <1>2, <2>1 DEF OwnInv, WindowIsPlaces, AtDispatcher
  <2>4. Unpaid(dnext)'
    BY <2>1, <2>3 DEF ChargeInv, Unpaid
  <2>5. \A i \in Items \ window' : Unpaid(i)'
    BY <2>1, <2>2 DEF ChargeInv, Preserved
  <2>6. Queued(workQueue)' = Queued(workQueue)
    BY <2>1 DEF Queued
  <2> QED
    BY <1>6, <2>1, <2>2, <2>4, <2>5, <2>6 DEF ChargeInv
<1>9. CASE DispatchAcquireResources
  <2>1. /\ UNCHANGED <<workQueue, window, dnext, extra>> /\ dpc = "resources"
        /\ permit' = [permit EXCEPT ![dnext] = plan[dnext].weights]
        /\ dpc' = "send" /\ dnext \in Items /\ plan' = plan
    BY <1>1, <1>9 DEF DispatchAcquireResources
  <2>2. \A i \in Items \ {dnext} : Preserved(i)
    <3>1. \A i \in Items \ {dnext} : Untouched(i)
      BY <1>3, <2>1 DEF Untouched, TypeOK
    <3> QED
      BY <1>1, <3>1, StepFacts, UntouchedPreserved
  <2>3. Scheduled(dnext)'
    BY <2>1 DEF ChargeInv, Scheduled, Unpaid, TypeOK
  <2>4. dnext \in window
    BY <2>1 DEF OwnInv, WindowIsPlaces, AtDispatcher
  <2>5. \A i \in Items \ window' : Unpaid(i)'
    BY <2>1, <2>2, <2>4 DEF ChargeInv, Preserved
  <2>6. Queued(workQueue)' = Queued(workQueue)
    BY <2>1 DEF Queued
  <2> QED
    BY <1>6, <2>1, <2>2, <2>3, <2>5, <2>6 DEF ChargeInv
<1>10. CASE DispatchSend
  <2>1. /\ workQueue' = Append(workQueue, dnext) /\ dnext \in Items
        /\ UNCHANGED <<window, permit, extra>> /\ dpc = "send" /\ dpc' = "next"
    BY <1>1, <1>10 DEF DispatchSend
  <2>2. \A i : Preserved(i)
    BY <1>1, <1>3, <2>1, AllPreserved
  <2>3. Queued(workQueue') = Queued(workQueue) \cup {dnext}
    BY <1>1, <2>1, QueueRules
  <2>4. ASSUME NEW i, i = dnext PROVE Scheduled(i)'
    BY <2>1, <2>2, <2>4 DEF ChargeInv, Preserved
  <2>5. \A i \in Queued(workQueue)' : Scheduled(i)'
    BY <1>6, <2>2, <2>3, <2>4
  <2>6. \A i \in Items \ window' : Unpaid(i)'
    BY <2>1, <2>2 DEF ChargeInv, Preserved
  <2> QED
    BY <1>6, <2>1, <2>2, <2>5, <2>6 DEF ChargeInv
<1>11. CASE DispatchBreak
  <2>1. /\ DropItem(dnext) /\ dnext \in Items /\ dpc' = "done"
        /\ workQueue' = workQueue
    BY <1>1, <1>11 DEF DispatchBreak
  <2>2. /\ window' = window \ {dnext}
        /\ \A i \in Items \ {dnext} : Preserved(i)
    BY <1>1, <1>3, <2>1, DroppedUnpaid
  <2>3. ASSUME NEW i, i = dnext PROVE Unpaid(i)'
    BY <1>1, <1>3, <2>1, <2>3, DroppedUnpaid
  <2>4. \A i \in Items \ window' : Unpaid(i)'
    BY <2>1, <2>2, <2>3 DEF ChargeInv, Preserved
  <2>5. Queued(workQueue)' = Queued(workQueue)
    BY <2>1 DEF Queued
  <2> QED
    BY <1>6, <2>1, <2>2, <2>4, <2>5 DEF ChargeInv
<1> QED
  BY <1>7, <1>8, <1>9, <1>10, <1>11 DEF Dispatcher

\* Where the item of a busy worker is not.
LEMMA WorkerAlone ==
    ASSUME TypeOK, WindowInv, OwnInv, NEW w \in WorkerIds, Busy(w)
    PROVE  /\ witem[w] \in Items /\ witem[w] \in window /\ witem[w] # dnext
           /\ witem[w] \notin Queued(workQueue) \cup Queued(resultQueue)
                              \cup pending \cup AtSink
           /\ \A v \in WorkerIds : Busy(v) /\ v # w => witem[v] # witem[w]
<1>1. witem[w] \in AtWorkers
  BY DEF AtWorkers
<1> QED
  BY <1>1, DispatchedElsewhere
  DEF OwnInv, InOnePlace, Disjoint, WindowIsPlaces, TypeOK

\* A worker that goes on with its item only has to show what holds of it.
LEMMA WorkerGoesOnCharged ==
    ASSUME TypeOK, WindowInv, OwnInv, ChargeInv, NEW w \in WorkerIds, Busy(w),
           NEW s \in WorkerSteps, wpc' = [wpc EXCEPT ![w] = s],
           UNCHANGED <<window, dpc, dnext, workQueue, witem, resultQueue, cpc,
                       next, pending>>,
           \A i \in Items \ {witem[w]} : Preserved(i),
           \A i : i = witem[w] => AtStep(i, s)'
    PROVE  ChargeInv'
<1> DEFINE x == witem[w]
<1>1. /\ x \in Items /\ x \in window /\ x # dnext
      /\ x \notin Queued(workQueue) \cup Queued(resultQueue) \cup pending \cup AtSink
      /\ \A v \in WorkerIds : Busy(v) /\ v # w => witem[v] # x
  BY WorkerAlone
<1>2. /\ AtSink' = AtSink /\ Queued(workQueue)' = Queued(workQueue)
      /\ Queued(resultQueue)' = Queued(resultQueue)
  BY DEF AtSink, Queued
<1>3. /\ Queued(workQueue) \subseteq Items /\ Queued(resultQueue) \subseteq Items
      /\ pending \subseteq Items /\ AtSink \subseteq Items
      /\ wpc \in [WorkerIds -> WorkerSteps] /\ witem \in [WorkerIds -> Items]
      /\ dpc \in {"check", "resources", "send"} => dnext \in Items
  BY PlacesTyped, LimitsAssumption DEF TypeOK, Items
<1>4. \A i \in Items \ window' : Unpaid(i)'
  BY <1>1 DEF ChargeInv, Preserved
<1>5. \A i : i = dnext /\ dpc \in {"check", "resources"} => Unpaid(i)'
  BY <1>1, <1>3 DEF ChargeInv, Preserved
<1>6. \A i : i = dnext /\ dpc = "send" => Scheduled(i)'
  BY <1>1, <1>3 DEF ChargeInv, Preserved
<1>7. \A i \in Queued(workQueue)' : Scheduled(i)'
  BY <1>1, <1>2, <1>3 DEF ChargeInv, Preserved
<1>8. \A i \in Queued(resultQueue)' \cup pending' \cup AtSink' : Settled(i)'
  BY <1>1, <1>2, <1>3 DEF ChargeInv, Preserved
<1>9. ASSUME NEW v \in WorkerIds, Busy(v)' PROVE AtStep(witem[v], wpc[v])'
  <2>1. CASE v = w
    BY <1>3, <2>1
  <2>2. CASE v # w
    <3>1. Busy(v) /\ wpc'[v] = wpc[v] /\ witem[v] # x
      BY <1>1, <1>3, <1>9, <2>2 DEF Busy
    <3>2. \A i, step : i = witem[v] /\ step = wpc[v] => AtStep(i, step)'
      BY <1>3, <3>1 DEF ChargeInv, Preserved
    <3> QED
      BY <3>1, <3>2
  <2> QED
    BY <2>1, <2>2
<1> QED
  BY <1>4, <1>5, <1>6, <1>7, <1>8, <1>9 DEF ChargeInv

\* What holds of a worker's item after each step that keeps it.
LEMMA WorkerStepCharged ==
    ASSUME TypeOK, WindowInv, OwnInv, ChargeInv, NEW w \in WorkerIds,
           \/ WorkerCheck(w) \/ WorkerDefer(w) \/ WorkerAdmit(w)
           \/ WorkerAcquire(w) \/ WorkerOperate(w) \/ WorkerRefuse(w)
           \/ WorkerFinish(w)
    PROVE  ChargeInv'
<1> USE DEF tokenVars, budgetVars, windowVars, itemVars, dispatcherVars,
            workerVars, coordinatorVars, WorkerSteps
<1> DEFINE x == witem[w]
<1>1. /\ Busy(w) /\ [Next]_vars
      /\ UNCHANGED <<window, dpc, dnext, workQueue, witem, resultQueue, cpc,
                     next, pending>>
  BY DEF WorkerCheck, WorkerDefer, WorkerAdmit, WorkerAcquire, WorkerOperate,
     WorkerRefuse, WorkerFinish, Busy, Next, Worker
<1>2. x \in Items /\ AtStep(x, wpc[w])
  BY <1>1 DEF ChargeInv, TypeOK
<1>3. /\ plan' = plan /\ (cancelled => cancelled')
      /\ Short(x) \in Weights /\ Kept(x) \in Weights /\ Asked(x) \in Weights
      /\ plan[x].weights \in Weights /\ plan[x].required \in Weights
      /\ plan[x].bytes \in Nat
  BY <1>1, <1>2, StepFacts, PlanWeights
<1>4. /\ permit \in [Items -> Weights] /\ extra \in [Items -> Weights]
      /\ reserved \in [Items -> Weights] /\ result \in [Items -> Results]
      /\ plan[x].prepare \in {"ok", "prepare"}
  BY <1>2, PlanTyped DEF TypeOK
<1>5. \A i : /\ Short(i)' = Short(i) /\ Kept(i)' = Kept(i) /\ Asked(i)' = Asked(i)
             /\ (Admissible(i)' <=> Admissible(i)) /\ Verdict(i)' = Verdict(i)
  BY <1>3, PlanFixed
<1>6. CASE WorkerCheck(w)
  <2>1. /\ wpc[w] = "check" /\ UNCHANGED <<permit, extra, reserved, result>>
        /\ wpc' = [wpc EXCEPT ![w] =
                      IF Missing(x) = NoWeights THEN "operate" ELSE "defer"]
    BY <1>6 DEF WorkerCheck
  <2>2. Missing(x) = Short(x) /\ Scheduled(x) /\ reserved[x] = permit[x]
    BY <1>2, <2>1 DEF AtStep, Missing, Short, Scheduled
  <2>3. \A i : Preserved(i)
    BY <1>1, <2>1, AllPreserved
  <2>4. CASE Missing(x) = NoWeights
    <3>1. AtStep(x, "operate")
      BY <1>2, <2>2, <2>4, NothingShort DEF AtStep, Scheduled
    <3> QED
      BY <1>1, <2>1, <2>3, <2>4, <3>1, WorkerGoesOnCharged DEF Preserved
  <2>5. CASE Missing(x) # NoWeights
    <3>1. AtStep(x, "defer")
      BY <2>2, <2>5 DEF AtStep
    <3> QED
      BY <1>1, <2>1, <2>3, <2>5, <3>1, WorkerGoesOnCharged DEF Preserved
  <2> QED
    BY <2>4, <2>5
<1>7. CASE WorkerDefer(w)
  <2>1. /\ wpc[w] = "defer" /\ wpc' = [wpc EXCEPT ![w] = "admit"] /\ result' = result
        /\ Scheduled(x) /\ reserved[x] = permit[x] /\ Short(x) # NoWeights
    BY <1>2, <1>7 DEF WorkerDefer, AtStep
  <2>2. Missing(x) = Short(x)
    BY <2>1 DEF Missing, Short, Scheduled
  <2>3. /\ permit' = [permit EXCEPT ![x] = Kept(x)]
        /\ extra' = [extra EXCEPT ![x] = NoWeights]
        /\ reserved' = [reserved EXCEPT ![x] = Kept(x)]
        /\ result' = [result EXCEPT ![x] = result[x]]
    <3>1. CASE Short(x)["prepared"] > 0
      <4>1. /\ ShrinkPermits(x, WithoutPrepared(permit[x]), extra[x])
            /\ reserved' = [reserved EXCEPT ![x] = WithoutPrepared(reserved[x])]
        BY <1>7, <2>2, <3>1 DEF WorkerDefer
      <4> QED
        BY <1>4, <2>1, <3>1, <4>1 DEF ShrinkPermits, Kept, Scheduled
    <3>2. CASE ~(Short(x)["prepared"] > 0)
      <4>1. UNCHANGED <<permit, extra, reserved>>
        BY <1>7, <2>2, <3>2 DEF WorkerDefer
      <4>2. Kept(x) = permit[x] /\ extra[x] = NoWeights
        BY <2>1, <3>2 DEF Kept, Scheduled
      <4> QED
        BY <1>2, <1>4, <2>1, <4>1, <4>2
    <3> QED
      BY <3>1, <3>2
  <2>4. \A i \in Items \ {x} : Preserved(i)
    BY <1>2, <1>3, <2>3, OthersPreserved
  <2>5. ASSUME NEW i, i = x PROVE AtStep(i, "admit")'
    BY <1>2, <1>4, <1>5, <2>1, <2>3, <2>5 DEF AtStep
  <2> QED
    BY <1>1, <2>1, <2>4, <2>5, WorkerGoesOnCharged
<1>8. CASE WorkerAdmit(w)
  <2>1. /\ wpc[w] = "admit" /\ UNCHANGED <<permit, extra, reserved, result>>
        /\ wpc' = [wpc EXCEPT ![w] = "wait"] /\ Fits(NoWeights, Missing(x), Limit)
    BY <1>8 DEF WorkerAdmit
  <2>2. Missing(x) = Asked(x)
    BY <1>2, <2>1 DEF AtStep, Missing, Asked
  <2>3. \A i : Preserved(i)
    BY <1>1, <2>1, AllPreserved
  <2>4. AtStep(x, "wait")
    BY <1>2, <2>1, <2>2 DEF AtStep, Admissible
  <2> QED
    BY <1>1, <2>1, <2>3, <2>4, WorkerGoesOnCharged DEF Preserved
<1>9. CASE WorkerAcquire(w)
  <2>1. /\ wpc[w] = "wait" /\ wpc' = [wpc EXCEPT ![w] = "operate"]
        /\ Missing(x) = Asked(x) /\ permit[x] = Kept(x) /\ reserved[x] = Kept(x)
        /\ Admissible(x)
    BY <1>2, <1>9 DEF WorkerAcquire, AtStep, Missing, Asked
  <2>2. /\ permit' = [permit EXCEPT ![x] = permit[x]]
        /\ extra' = [extra EXCEPT ![x] = Asked(x)]
        /\ reserved' = [reserved EXCEPT ![x] = MaxWeights(Kept(x), plan[x].required)]
        /\ result' = [result EXCEPT ![x] = result[x]]
    BY <1>4, <1>9, <2>1 DEF WorkerAcquire
  <2>3. \A i \in Items \ {x} : Preserved(i)
    BY <1>2, <1>3, <2>2, OthersPreserved
  <2>4. ASSUME NEW i, i = x PROVE AtStep(i, "operate")'
    BY <1>2, <1>3, <1>4, <1>5, <2>1, <2>2, <2>4 DEF AtStep
  <2> QED
    BY <1>1, <2>1, <2>3, <2>4, WorkerGoesOnCharged
<1>10. CASE WorkerOperate(w)
  <2>1. /\ wpc[w] = "operate" /\ wpc' = [wpc EXCEPT ![w] = "finish"]
        /\ permit[x] = Kept(x) /\ extra[x] = Asked(x) /\ Admissible(x)
        /\ reserved[x] = MaxWeights(Kept(x), plan[x].required)
    BY <1>2, <1>10 DEF WorkerOperate, AtStep
  <2>2. PICK e \in {"ok", "prepare", "cancelled"} :
           /\ e \in {"ok", "prepare"} => plan[x].prepare = e
           /\ e = "cancelled" => cancelled
           /\ result' = [result EXCEPT ![x] = e]
           /\ IF e = "ok"
              THEN /\ ShrinkPermits(x, permit[x], PreparedPart(extra[x]))
                   /\ reserved' = [reserved EXCEPT ![x] =
                         [permit[x] EXCEPT !["prepared"] = reserved[x]["prepared"]]]
              ELSE /\ ShrinkPermits(x, permit[x], NoWeights)
                   /\ reserved' = [reserved EXCEPT ![x] = permit[x]]
    BY <1>4, <1>10 DEF WorkerOperate
  <2>3. PICK q, r :
           /\ permit' = [permit EXCEPT ![x] = permit[x]]
           /\ extra' = [extra EXCEPT ![x] = q]
           /\ reserved' = [reserved EXCEPT ![x] = r]
           /\ e = "ok" =>
                 /\ q = PreparedPart(Asked(x))
                 /\ r = [permit[x] EXCEPT !["prepared"] = reserved[x]["prepared"]]
    BY <2>1, <2>2 DEF ShrinkPermits
  <2>4. \A i \in Items \ {x} : Preserved(i)
    BY <1>2, <1>3, <2>2, <2>3, OthersPreserved
  <2>5. ASSUME NEW i, i = x PROVE Ended(i)'
    <3>1. /\ result'[i] = e /\ permit'[i] = Kept(i) /\ extra'[i] = q
          /\ reserved'[i] = r /\ permit[x] \in Weights
      BY <1>2, <1>4, <2>1, <2>2, <2>3, <2>5
    <3>2. e = "ok" => reserved'[i]["prepared"] =
                        MaxWeights(Kept(i), plan[i].required)["prepared"]
      BY <2>1, <2>3, <2>5, <3>1 DEF Weights, Dims
    <3> QED
      BY <1>3, <1>5, <2>1, <2>2, <2>3, <2>5, <3>1, <3>2 DEF Ended
  <2>6. ASSUME NEW i, i = x PROVE AtStep(i, "finish")'
    BY <2>5, <2>6 DEF AtStep
  <2> QED
    BY <1>1, <2>1, <2>4, <2>6, WorkerGoesOnCharged
<1>11. CASE WorkerRefuse(w)
  <2>1. /\ wpc' = [wpc EXCEPT ![w] = "finish"]
        /\ UNCHANGED <<permit, extra, reserved>>
    BY <1>11 DEF WorkerRefuse
  <2>2. PICK e \in {"limit", "cancelled"} :
           /\ result' = [result EXCEPT ![x] = e]
           /\ e = "cancelled" => cancelled
           /\ e = "limit" => wpc[w] = "admit" /\ ~Fits(NoWeights, Missing(x), Limit)
    BY <1>11 DEF WorkerRefuse
  <2>3. e = "limit" => ~Admissible(x)
    BY <1>2, <2>2 DEF AtStep, Missing, Asked, Admissible
  <2>4. /\ permit' = [permit EXCEPT ![x] = permit[x]]
        /\ extra' = [extra EXCEPT ![x] = extra[x]]
        /\ reserved' = [reserved EXCEPT ![x] = reserved[x]]
    BY <1>2, <1>4, <2>1
  <2>5. \A i \in Items \ {x} : Preserved(i)
    BY <1>2, <1>3, <2>2, <2>4, OthersPreserved
  <2>6. ASSUME NEW i, i = x PROVE AtStep(i, "finish")'
    <3>1. result'[i] = e
      BY <1>2, <1>4, <2>2, <2>6
    <3>2. Ended(i)'
      BY <1>3, <1>5, <2>2, <2>3, <2>6, <3>1 DEF Ended
    <3> QED
      BY <3>2 DEF AtStep
  <2> QED
    BY <1>1, <2>1, <2>5, <2>6, WorkerGoesOnCharged
<1>12. CASE WorkerFinish(w)
  <2> DEFINE n == plan[x].bytes
             m == MaxWeights(Kept(x), plan[x].required)["prepared"]
             kept == RetainPrepared(permit[x], n)
             rest == RetainPrepared(extra[x], n - kept["prepared"])
             good == result[x] = "ok" /\ n <= reserved[x]["prepared"]
  <2>1. Ended(x) /\ wpc' = [wpc EXCEPT ![w] = "send"] /\ reserved' = reserved
    BY <1>2, <1>12 DEF WorkerFinish, AtStep
  <2>2. /\ permit' = [permit EXCEPT ![x] = IF good THEN kept ELSE NoWeights]
        /\ extra' = [extra EXCEPT ![x] = IF good THEN rest ELSE NoWeights]
        /\ result' = [result EXCEPT ![x] =
              IF good \/ result[x] # "ok" THEN result[x] ELSE "limit"]
        /\ reserved' = [reserved EXCEPT ![x] = reserved[x]]
    <3>1. CASE good
      BY <1>2, <1>4, <1>12, <3>1 DEF WorkerFinish, ShrinkPermits
    <3>2. CASE ~good
      BY <1>2, <1>4, <1>12, <3>2 DEF WorkerFinish, ShrinkPermits
    <3> QED
      BY <3>1, <3>2
  <2>3. \A i \in Items \ {x} : Preserved(i)
    BY <1>2, <1>3, <2>2, OthersPreserved
  <2>4. /\ Kept(x)["prepared"] + PreparedPart(Asked(x))["prepared"] = m
        /\ m \in Nat
    BY <1>2, PreparedCovered
  <2>5. /\ ~Admissible(x) => Verdict(x) = "limit"
        /\ Admissible(x) /\ plan[x].prepare = "prepare" => Verdict(x) = "prepare"
        /\ Admissible(x) /\ plan[x].prepare = "ok" =>
             Verdict(x) = IF n > m THEN "limit" ELSE plan[x].deliver
    BY <1>2, VerdictCases
  <2>6. CASE good
    <3>1. /\ permit[x] \in Weights /\ extra[x] \in Weights /\ n <= m
          /\ permit[x]["prepared"] + extra[x]["prepared"] = m
      BY <1>2, <1>4, <2>1, <2>4, <2>6 DEF Ended
    <3>2. AddWeights(kept, rest) = [NoWeights EXCEPT !["prepared"] = n]
      <4>1. permit[x]["prepared"] + extra[x]["prepared"] >= n
        BY <1>3, <2>4, <3>1
      <4> QED
        BY <1>3, <3>1, <4>1, RetainedExactly
    <3>3. ASSUME NEW i, i = x PROVE Settled(i)'
      <4>1. /\ permit'[i] = kept /\ extra'[i] = rest /\ result'[i] = "ok"
        BY <1>2, <1>4, <2>2, <2>6, <3>3
      <4>2. AddWeights(permit[i], extra[i])' = Charge(i)'
        BY <1>3, <3>2, <3>3, <4>1 DEF Charge
      <4>3. Verdict(x) = plan[x].deliver
        BY <1>3, <2>1, <2>4, <2>5, <2>6, <3>1 DEF Ended
      <4> QED
        BY <1>3, <1>5, <3>3, <4>1, <4>2, <4>3 DEF Settled
    <3>4. ASSUME NEW i, i = x PROVE AtStep(i, "send")'
      BY <3>3, <3>4 DEF AtStep
    <3> QED
      BY <1>1, <2>1, <2>3, <3>4, WorkerGoesOnCharged
  <2>7. CASE ~good
    <3>1. ASSUME NEW i, i = x PROVE Settled(i)'
      <4>1. /\ permit'[i] = NoWeights /\ extra'[i] = NoWeights
            /\ result'[i] = IF result[x] = "ok" THEN "limit" ELSE result[x]
        BY <1>2, <1>4, <2>2, <2>7, <3>1
      <4>2. result'[i] # "ok" /\ result'[i] # "none"
        BY <2>1, <4>1 DEF Ended
      <4>3. AddWeights(permit[i], extra[i])' = Charge(i)'
        BY <4>1, <4>2 DEF Charge, AddWeights, NoWeights, Dims
      <4>4. result'[i] \in {"prepare", "limit"} => Verdict(x) = result'[i]
        <5>1. CASE result[x] = "ok"
          <6>1. n > m
            BY <1>3, <2>1, <2>4, <2>7, <5>1 DEF Ended
          <6> QED
            BY <2>1, <2>5, <4>1, <5>1, <6>1 DEF Ended
        <5>2. CASE result[x] # "ok"
          BY <2>1, <2>5, <4>1, <5>2 DEF Ended
        <5> QED
          BY <5>1, <5>2
      <4>5. result'[i] = "cancelled" => cancelled'
        BY <1>3, <2>1, <4>1 DEF Ended
      <4> QED
        BY <1>5, <3>1, <4>2, <4>3, <4>4, <4>5 DEF Settled
    <3>2. ASSUME NEW i, i = x PROVE AtStep(i, "send")'
      BY <3>1, <3>2 DEF AtStep
    <3> QED
      BY <1>1, <2>1, <2>3, <3>2, WorkerGoesOnCharged
  <2> QED
    BY <2>6, <2>7
<1> QED
  BY <1>6, <1>7, <1>8, <1>9, <1>10, <1>11, <1>12

\* A worker receives an item with what it was scheduled with, passes on one
\* that is settled, or drops it.
LEMMA WorkerChargeInv ==
    ASSUME TypeOK, WindowInv, OwnInv, ChargeInv, NEW w \in WorkerIds, Worker(w)
    PROVE  ChargeInv'
<1> USE DEF tokenVars, budgetVars, windowVars, itemVars, dispatcherVars,
            workerVars, coordinatorVars
<1>1. /\ workQueue \in Seq(Items) /\ resultQueue \in Seq(Items) /\ InOnePlace
      /\ Distinct(workQueue) /\ Distinct(resultQueue) /\ [Next]_vars
      /\ wpc \in [WorkerIds -> WorkerSteps] /\ witem \in [WorkerIds -> Items]
      /\ dpc \in {"check", "resources", "send"} => dnext \in Items
  BY LimitsAssumption DEF TypeOK, Items, OwnInv, InOnePlace, Next
<1>2. /\ Queued(workQueue) \subseteq Items /\ Queued(resultQueue) \subseteq Items
      /\ pending \subseteq Items /\ AtSink \subseteq Items
  BY PlacesTyped
<1>3. CASE WorkerReceive(w)
  <2> DEFINE x == Head(workQueue)
  <2>1. /\ workQueue # << >> /\ workQueue' = Tail(workQueue) /\ ~Busy(w)
        /\ witem' = [witem EXCEPT ![w] = x] /\ wpc' = [wpc EXCEPT ![w] = "check"]
        /\ reserved' = [reserved EXCEPT ![x] = permit[x]]
        /\ UNCHANGED <<window, dpc, dnext, resultQueue, cpc, next, pending,
                       plan, cancelled, permit, extra, result>>
    BY <1>3 DEF WorkerReceive, Busy
  <2>2. /\ x \in Queued(workQueue) /\ Queued(workQueue') = Queued(workQueue) \ {x}
    BY <1>1, <2>1, QueueRules
  <2>3. /\ x \in window /\ x # dnext /\ x \notin AtWorkers /\ x \in Items
        /\ x \notin Queued(resultQueue) \cup pending \cup AtSink
    BY <1>2, <2>2, DispatchedElsewhere
    DEF OwnInv, InOnePlace, Disjoint, WindowIsPlaces
  <2>4. \A i \in Items \ {x} : Preserved(i)
    <3>1. /\ permit' = [permit EXCEPT ![x] = permit[x]]
          /\ extra' = [extra EXCEPT ![x] = extra[x]]
          /\ result' = [result EXCEPT ![x] = result[x]]
      BY <2>1 DEF TypeOK
    <3> QED
      BY <2>1, <2>3, <3>1, OthersPreserved
  <2>5. ASSUME NEW i, i = x PROVE AtStep(i, "check")'
    BY <2>1, <2>2, <2>3, <2>5 DEF ChargeInv, AtStep, Scheduled, TypeOK
  <2>6. /\ AtSink' = AtSink /\ Queued(resultQueue)' = Queued(resultQueue)
    BY <2>1 DEF AtSink, Queued
  <2>7. /\ \A i \in Items \ window' : Unpaid(i)'
        /\ \A i \in Queued(workQueue)' : Scheduled(i)'
        /\ \A i \in Queued(resultQueue)' \cup pending' \cup AtSink' : Settled(i)'
    BY <1>2, <2>1, <2>2, <2>3, <2>4, <2>6 DEF ChargeInv, Preserved
  <2>8. /\ \A i : i = dnext /\ dpc \in {"check", "resources"} => Unpaid(i)'
        /\ \A i : i = dnext /\ dpc = "send" => Scheduled(i)'
    BY <1>1, <2>3, <2>4 DEF ChargeInv, Preserved
  <2>9. ASSUME NEW v \in WorkerIds, Busy(v)' PROVE AtStep(witem[v], wpc[v])'
    <3>1. CASE v = w
      BY <1>1, <2>1, <2>5, <3>1
    <3>2. CASE v # w
      <4>1. /\ Busy(v) /\ wpc'[v] = wpc[v] /\ witem'[v] = witem[v] /\ witem[v] # x
        BY <1>1, <2>1, <2>3, <2>9, <3>2 DEF Busy, AtWorkers
      <4>2. \A i, step : i = witem[v] /\ step = wpc[v] => AtStep(i, step)'
        BY <1>1, <2>4, <4>1 DEF ChargeInv, Preserved
      <4> QED
        BY <4>1, <4>2
    <3> QED
      BY <3>1, <3>2
  <2> QED
    BY <2>1, <2>7, <2>8, <2>9 DEF ChargeInv
<1>4. CASE WorkerExit(w)
  <2>1. /\ ~Busy(w) /\ wpc' = [wpc EXCEPT ![w] = "done"]
        /\ UNCHANGED <<window, dpc, dnext, workQueue, witem, resultQueue, cpc,
                       next, pending, permit, extra, reserved, result>>
    BY <1>4 DEF WorkerExit, Busy
  <2>2. \A i : Preserved(i)
    BY <1>1, <2>1, AllPreserved
  <2>3. /\ AtSink' = AtSink /\ Queued(resultQueue)' = Queued(resultQueue)
        /\ Queued(workQueue)' = Queued(workQueue)
    BY <2>1 DEF AtSink, Queued
  <2>4. \A v \in WorkerIds : Busy(v)' => Busy(v) /\ wpc'[v] = wpc[v]
    BY <1>1, <2>1 DEF Busy
  <2>5. ASSUME NEW v \in WorkerIds, Busy(v)' PROVE AtStep(witem[v], wpc[v])'
    <3>1. \A i, step : i = witem[v] /\ step = wpc[v] => AtStep(i, step)'
      BY <1>1, <2>2, <2>4, <2>5 DEF ChargeInv, Preserved
    <3> QED
      BY <2>1, <2>4, <2>5, <3>1
  <2>6. /\ \A i : i = dnext /\ dpc \in {"check", "resources"} => Unpaid(i)'
        /\ \A i : i = dnext /\ dpc = "send" => Scheduled(i)'
    BY <2>2 DEF ChargeInv, Preserved
  <2>7. /\ \A i \in Items \ window' : Unpaid(i)'
        /\ \A i \in Queued(workQueue)' : Scheduled(i)'
        /\ \A i \in Queued(resultQueue)' \cup pending' \cup AtSink' : Settled(i)'
    BY <2>1, <2>2, <2>3 DEF ChargeInv, Preserved
  <2> QED
    BY <2>1, <2>5, <2>6, <2>7 DEF ChargeInv
<1>5. CASE WorkerSend(w) \/ WorkerAbandon(w)
  <2> DEFINE x == witem[w]
  <2>1. PICK s \in {"receive", "done"} : wpc' = [wpc EXCEPT ![w] = s]
    BY <1>5 DEF WorkerSend, WorkerAbandon
  <2>2. /\ Busy(w) /\ wpc[w] = "send" /\ x \in Items
        /\ UNCHANGED <<dpc, dnext, workQueue, witem, cpc, next, pending,
                       reserved, result>>
    BY <1>1, <1>5 DEF WorkerSend, WorkerAbandon, Busy
  <2>3. /\ x \in Items /\ x \in window /\ x # dnext
        /\ x \notin Queued(workQueue) \cup Queued(resultQueue) \cup pending \cup AtSink
        /\ \A v \in WorkerIds : Busy(v) /\ v # w => witem[v] # x
    BY <2>2, WorkerAlone
  <2>4. /\ AtSink' = AtSink /\ Queued(workQueue)' = Queued(workQueue)
    BY <2>2 DEF AtSink, Queued
  <2>5. \/ /\ UNCHANGED <<permit, extra, window>> /\ \A i : Preserved(i)
           /\ Queued(resultQueue') = Queued(resultQueue) \cup {x}
        \/ /\ window' = window \ {x} /\ (\A i : i = x => Unpaid(i)')
           /\ \A i \in Items \ {x} : Preserved(i)
           /\ resultQueue' = resultQueue
    <3>1. CASE WorkerSend(w)
      <4>1. /\ UNCHANGED <<permit, extra, window>>
            /\ resultQueue' = Append(resultQueue, x)
        BY <3>1 DEF WorkerSend
      <4>2. Queued(resultQueue') = Queued(resultQueue) \cup {x}
        BY <1>1, <2>2, <4>1, QueueRules
      <4> QED
        BY <1>1, <2>2, <4>1, <4>2, AllPreserved
    <3>2. CASE WorkerAbandon(w)
      <4>1. DropItem(x) /\ resultQueue' = resultQueue
        BY <3>2 DEF WorkerAbandon
      <4>2. /\ window' = window \ {x} /\ \A i \in Items \ {x} : Preserved(i)
        BY <1>1, <2>2, <4>1, DroppedUnpaid
      <4>3. ASSUME NEW i, i = x PROVE Unpaid(i)'
        BY <1>1, <2>2, <4>1, <4>3, DroppedUnpaid
      <4> QED
        BY <4>1, <4>2, <4>3
    <3> QED
      BY <1>5, <3>1, <3>2
  <2>6. \A i \in Items \ {x} : Preserved(i)
    BY <2>5
  <2>7. \A i \in Items \ window' : Unpaid(i)'
    BY <2>5 DEF ChargeInv, Preserved
  <2>8. /\ \A i : i = dnext /\ dpc \in {"check", "resources"} => Unpaid(i)'
        /\ \A i : i = dnext /\ dpc = "send" => Scheduled(i)'
        /\ \A i \in Queued(workQueue)' : Scheduled(i)'
    BY <1>1, <1>2, <2>3, <2>4, <2>6 DEF ChargeInv, Preserved
  <2>9. \A i \in Queued(resultQueue)' \cup pending' \cup AtSink' : Settled(i)'
    <3>1. Settled(x)
      BY <2>2 DEF ChargeInv, AtStep
    <3>2. \A i \in Queued(resultQueue) \cup pending \cup AtSink : Settled(i)'
      BY <1>2, <2>3, <2>6 DEF ChargeInv, Preserved
    <3>3. CASE resultQueue' = resultQueue
      BY <2>2, <2>4, <3>2, <3>3 DEF Queued
    <3>4. CASE /\ \A i : Preserved(i)
               /\ Queued(resultQueue') = Queued(resultQueue) \cup {x}
      <4>1. ASSUME NEW i, i = x PROVE Settled(i)'
        BY <3>1, <3>4, <4>1 DEF Preserved
      <4> QED
        BY <2>2, <2>4, <3>2, <3>4, <4>1
    <3> QED
      BY <2>5, <3>3, <3>4
  <2>10. ASSUME NEW v \in WorkerIds, Busy(v)' PROVE AtStep(witem[v], wpc[v])'
    <3>1. /\ Busy(v) /\ v # w /\ wpc'[v] = wpc[v] /\ witem[v] # x
      BY <1>1, <2>1, <2>3, <2>10 DEF Busy
    <3>2. \A i, step : i = witem[v] /\ step = wpc[v] => AtStep(i, step)'
      BY <1>1, <2>6, <3>1 DEF ChargeInv, Preserved
    <3> QED
      BY <2>2, <3>1, <3>2
  <2> QED
    BY <2>2, <2>7, <2>8, <2>9, <2>10 DEF ChargeInv
<1> QED
  BY <1>3, <1>4, <1>5, WorkerStepCharged DEF Worker

\* The places after a worker: what holds there is that the item is settled.
Outputs == Queued(resultQueue) \cup pending \cup AtSink

\* Moving outputs between those places changes nothing.
LEMMA OutputsMoved ==
    ASSUME TypeOK, ChargeInv, [Next]_vars, Outputs' \subseteq Outputs,
           UNCHANGED <<permit, extra, reserved, result, window, dpc, dnext,
                       workQueue, wpc, witem>>
    PROVE  ChargeInv'
<1>1. \A i : Preserved(i)
  BY AllPreserved
<1>2. \A w \in WorkerIds : Busy(w)' => AtStep(witem[w], wpc[w])'
  <2>1. SUFFICES ASSUME NEW w \in WorkerIds, Busy(w)'
                 PROVE  AtStep(witem[w], wpc[w])'
    OBVIOUS
  <2>2. Busy(w) /\ wpc[w] \in WorkerSteps
    BY <2>1 DEF Busy, TypeOK
  <2>3. \A i, step : i = witem[w] /\ step = wpc[w] => AtStep(i, step)'
    BY <1>1, <2>2 DEF ChargeInv, Preserved
  <2> QED
    BY <2>3
<1>3. /\ \A i : i = dnext /\ dpc \in {"check", "resources"} => Unpaid(i)'
      /\ \A i : i = dnext /\ dpc = "send" => Scheduled(i)'
      /\ \A i \in Items \ window' : Unpaid(i)'
  BY <1>1 DEF ChargeInv, Preserved
<1>4. \A i \in Queued(workQueue)' : Scheduled(i)'
  BY <1>1 DEF ChargeInv, Preserved, Queued
<1>5. \A i \in Queued(resultQueue)' \cup pending' \cup AtSink' : Settled(i)'
  BY <1>1 DEF ChargeInv, Preserved, Outputs
<1> QED
  BY <1>2, <1>3, <1>4, <1>5 DEF ChargeInv

\* Dropping an output, or an item from the work channel, releases all of it.
LEMMA OthersCharged ==
    ASSUME TypeOK, WindowInv, OwnInv, ChargeInv, [Next]_vars,
           NEW x \in Outputs \cup Queued(workQueue), DropItem(x),
           Outputs' \subseteq Outputs \ {x},
           Queued(workQueue)' \subseteq Queued(workQueue) \ {x},
           UNCHANGED <<reserved, result, dpc, dnext, wpc, witem>>
    PROVE  ChargeInv'
<1>1. /\ x \in Items /\ Outputs \subseteq Items /\ Queued(workQueue) \subseteq Items
      /\ x # dnext /\ x \notin AtWorkers
  BY PlacesTyped, DispatchedElsewhere DEF Outputs, OwnInv, InOnePlace, Disjoint
<1>2. /\ window' = window \ {x} /\ \A i \in Items \ {x} : Preserved(i)
  BY <1>1, DroppedUnpaid
<1>3. Unpaid(x)'
  BY <1>1, DroppedUnpaid
<1>4. \A w \in WorkerIds : Busy(w)' => AtStep(witem[w], wpc[w])'
  <2>1. SUFFICES ASSUME NEW w \in WorkerIds, Busy(w)'
                 PROVE  AtStep(witem[w], wpc[w])'
    OBVIOUS
  <2>2. /\ Busy(w) /\ wpc[w] \in WorkerSteps /\ witem[w] \in Items
        /\ witem[w] # x
    BY <1>1, <2>1 DEF Busy, TypeOK, AtWorkers
  <2>3. \A i, step : i = witem[w] /\ step = wpc[w] => AtStep(i, step)'
    BY <1>2, <2>2 DEF ChargeInv, Preserved
  <2> QED
    BY <2>3
<1>5. dpc \in {"check", "resources", "send"} => dnext \in Items
  BY LimitsAssumption DEF TypeOK, Items
<1>6. /\ \A i : i = dnext /\ dpc \in {"check", "resources"} => Unpaid(i)'
      /\ \A i : i = dnext /\ dpc = "send" => Scheduled(i)'
      /\ \A i \in Items \ window' : Unpaid(i)'
  BY <1>1, <1>2, <1>3, <1>5 DEF ChargeInv, Preserved
<1>7. \A i \in Queued(workQueue)' : Scheduled(i)'
  BY <1>1, <1>2 DEF ChargeInv, Preserved
<1>8. \A i \in Queued(resultQueue)' \cup pending' \cup AtSink' : Settled(i)'
  BY <1>1, <1>2 DEF ChargeInv, Preserved, Outputs
<1> QED
  BY <1>4, <1>6, <1>7, <1>8 DEF ChargeInv

\* The coordinator moves outputs and drops them whole.
LEMMA CoordinatorChargeInv ==
    ASSUME TypeOK, WindowInv, OwnInv, ChargeInv, Coordinator PROVE ChargeInv'
<1> USE DEF tokenVars, budgetVars, windowVars, itemVars, dispatcherVars,
            workerVars, coordinatorVars
<1>1. /\ resultQueue \in Seq(Items) /\ Distinct(resultQueue) /\ InOnePlace
      /\ pending \subseteq Items /\ [Next]_vars
  BY DEF TypeOK, OwnInv, InOnePlace, Next
<1>2. /\ UNCHANGED <<dpc, dnext, workQueue, wpc, witem, reserved, result>>
      /\ Queued(workQueue)' = Queued(workQueue)
  BY DEF Coordinator, CoordinatorReceive, CoordinatorLeave, CoordinatorDrain,
     CoordinatorDeliver, CoordinatorFail, CoordinatorCancel,
     CoordinatorDropPending, CoordinatorClose, CoordinatorDiscardResult,
     CoordinatorReturn, Queued
<1>3. \A x \in Outputs : Queued(workQueue)' \subseteq Queued(workQueue) \ {x}
  BY <1>1, <1>2 DEF Outputs, InOnePlace, Disjoint
<1>4. resultQueue # << >> =>
        /\ Head(resultQueue) \in Queued(resultQueue)
        /\ Queued(Tail(resultQueue)) = Queued(resultQueue) \ {Head(resultQueue)}
  BY <1>1, QueueRules
<1>5. CASE CoordinatorReceive \/ CoordinatorLeave \/ CoordinatorDrain
           \/ CoordinatorCancel \/ CoordinatorClose \/ CoordinatorReturn
  <2>1. UNCHANGED <<permit, extra, window>>
    BY <1>5 DEF CoordinatorReceive, CoordinatorLeave, CoordinatorDrain,
       CoordinatorCancel, CoordinatorClose, CoordinatorReturn
  <2>2. CASE CoordinatorReceive
    <3>1. /\ resultQueue # << >> /\ resultQueue' = Tail(resultQueue)
          /\ pending' = pending \cup {Head(resultQueue)} /\ AtSink' = {}
      BY <2>2 DEF CoordinatorReceive, AtSink
    <3>2. Outputs' \subseteq Outputs
      BY <1>4, <3>1 DEF Outputs
    <3> QED
      BY <1>1, <1>2, <2>1, <3>2, OutputsMoved
  <2>3. CASE CoordinatorDrain
    <3>1. /\ UNCHANGED resultQueue
          /\ \/ pending' = pending /\ AtSink' = {}
             \/ next \in pending /\ pending' \subseteq pending /\ AtSink' \subseteq {next}
      BY <2>3 DEF CoordinatorDrain, AtSink
    <3>2. Outputs' \subseteq Outputs
      BY <3>1 DEF Outputs, Queued
    <3> QED
      BY <1>1, <1>2, <2>1, <3>2, OutputsMoved
  <2>4. CASE CoordinatorLeave \/ CoordinatorCancel \/ CoordinatorClose
             \/ CoordinatorReturn
    <3>1. UNCHANGED <<resultQueue, pending>> /\ AtSink' = {}
      BY <2>4 DEF CoordinatorLeave, CoordinatorCancel, CoordinatorClose,
         CoordinatorReturn, AtSink
    <3>2. Outputs' \subseteq Outputs
      BY <3>1 DEF Outputs, Queued
    <3> QED
      BY <1>1, <1>2, <2>1, <3>2, OutputsMoved
  <2> QED
    BY <1>5, <2>2, <2>3, <2>4
<1>6. CASE CoordinatorDeliver \/ CoordinatorFail
  <2>1. next \in Items /\ DropItem(next)
    BY <1>6, LimitsAssumption DEF CoordinatorDeliver, CoordinatorFail, TypeOK, Items
  <2>2. /\ AtSink = {next} /\ AtSink' = {} /\ UNCHANGED <<resultQueue, pending>>
    BY <1>6, <2>1 DEF CoordinatorDeliver, CoordinatorFail, AtSink
  <2>3. Outputs' \subseteq Outputs \ {next} /\ next \in Outputs
    BY <1>1, <2>2 DEF Outputs, Queued, InOnePlace, Disjoint
  <2> QED
    BY <1>1, <1>2, <1>3, <2>1, <2>3, OthersCharged
<1>7. CASE CoordinatorDropPending
  <2>1. PICK x \in pending : pending' = pending \ {x} /\ DropItem(x)
    BY <1>7 DEF CoordinatorDropPending
  <2>2. AtSink = {} /\ AtSink' = {} /\ UNCHANGED resultQueue
    BY <1>7 DEF CoordinatorDropPending, AtSink
  <2>3. Outputs' \subseteq Outputs \ {x} /\ x \in Outputs
    BY <1>1, <2>1, <2>2 DEF Outputs, Queued, InOnePlace, Disjoint
  <2> QED
    BY <1>1, <1>2, <1>3, <2>1, <2>3, OthersCharged
<1>8. CASE CoordinatorDiscardResult
  <2> DEFINE x == Head(resultQueue)
  <2>1. /\ resultQueue # << >> /\ resultQueue' = Tail(resultQueue) /\ DropItem(x)
        /\ AtSink' = {} /\ AtSink = {} /\ UNCHANGED pending
    BY <1>8 DEF CoordinatorDiscardResult, AtSink
  <2>2. Outputs' \subseteq Outputs \ {x} /\ x \in Outputs
    BY <1>1, <1>4, <2>1 DEF Outputs, InOnePlace, Disjoint
  <2> QED
    BY <1>1, <1>2, <1>3, <2>1, <2>2, OthersCharged
<1> QED
  BY <1>5, <1>6, <1>7, <1>8 DEF Coordinator

\* Given ownership, the charges are inductive.
LEMMA NextChargeInv ==
    TypeOK /\ WindowInv /\ OwnInv /\ ChargeInv /\ [Next]_vars => ChargeInv'
<1> SUFFICES ASSUME TypeOK, WindowInv, OwnInv, ChargeInv, [Next]_vars
             PROVE  ChargeInv'
  OBVIOUS
<1> USE DEF tokenVars, budgetVars, windowVars, itemVars, dispatcherVars,
            workerVars, coordinatorVars
<1>1. CASE DiscardWork
  <2> DEFINE x == Head(workQueue)
  <2>1. /\ workQueue \in Seq(Items) /\ Distinct(workQueue) /\ InOnePlace
    BY DEF TypeOK, OwnInv, InOnePlace
  <2>2. /\ workQueue # << >> /\ workQueue' = Tail(workQueue) /\ DropItem(x)
        /\ UNCHANGED <<dpc, dnext, wpc, witem, resultQueue, cpc, next, pending,
                       reserved, result>>
    BY <1>1 DEF DiscardWork
  <2>3. /\ x \in Queued(workQueue) /\ Queued(workQueue') = Queued(workQueue) \ {x}
    BY <2>1, <2>2, QueueRules
  <2>4. Outputs' \subseteq Outputs \ {x}
    BY <2>1, <2>2, <2>3 DEF Outputs, Queued, AtSink, InOnePlace, Disjoint
  <2> QED
    BY <2>2, <2>3, <2>4, OthersCharged
<1>2. CASE Cancel \/ Terminated \/ UNCHANGED vars
  <2>1. UNCHANGED <<permit, extra, reserved, result, window, dpc, dnext,
                    workQueue, wpc, witem, resultQueue, cpc, next, pending>>
    BY <1>2 DEF Cancel, Terminated, vars
  <2>2. Outputs' \subseteq Outputs
    BY <2>1 DEF Outputs, Queued, AtSink
  <2> QED
    BY <2>1, <2>2, OutputsMoved
<1> QED
  BY <1>1, <1>2, DispatcherChargeInv, WorkerChargeInv, CoordinatorChargeInv DEF Next

\* Everything an item owns is what its place says it owns.
LEMMA Charging == Spec => [](TypeOK /\ WindowInv /\ OwnInv /\ ChargeInv)
<1>1. Spec => []ChargeInv
  BY Ownership, InitChargeInv, NextChargeInv, PTL DEF Spec
<1> QED
  BY <1>1, Ownership, PTL

\* An output in the result channel, in the reorder buffer or in the sink owns
\* its place in the window and exactly its own prepared bytes, also when its
\* preparation gave bytes back and asked for more, or failed.
THEOREM OutputsChargedSafe == Spec => []OutputsCharged
<1>1. TypeOK /\ OwnInv /\ ChargeInv => OutputsCharged
  <2>1. SUFFICES ASSUME TypeOK, OwnInv, ChargeInv, NEW i \in Items, OnTheWay(i)
                 PROVE  /\ i \in window
                        /\ AddWeights(permit[i], extra[i]) = Charge(i)
    BY DEF OutputsCharged, Charge
  <2>2. i \in Queued(resultQueue) \cup pending \cup AtSink
    BY <2>1 DEF OnTheWay, Queued, AtSink
  <2> QED
    BY <2>1, <2>2 DEF OwnInv, WindowIsPlaces, ChargeInv, Settled
<1> QED
  BY <1>1, Charging, PTL

-----------------------------------------------------------------------------
(* The byte budget is conserved *)

\* The bytes of a distribution h of bytes over the items, one by one.
Bytes(h) == UNION {{i} \X (1 .. h[i]) : i \in Items}

\* What every item holds of one dimension.
Holds(d) == [i \in Items |-> permit[i][d] + extra[i][d]]

\* Changing what one item holds changes the total by the difference.
LEMMA BytesChange ==
    ASSUME NEW h \in [Items -> Nat], NEW g \in [Items -> Nat], NEW x \in Items,
           \A i \in Items \ {x} : g[i] = h[i], IsFiniteSet(Bytes(h))
    PROVE  /\ IsFiniteSet(Bytes(g))
           /\ Cardinality(Bytes(g)) = Cardinality(Bytes(h)) - h[x] + g[x]
           /\ h[x] <= Cardinality(Bytes(h))
<1> DEFINE rest == UNION {{i} \X (1 .. h[i]) : i \in Items \ {x}}
           old == {x} \X (1 .. h[x])
           new == {x} \X (1 .. g[x])
<1>1. Bytes(h) = rest \cup old
  BY DEF Bytes
<1>2. Bytes(g) = rest \cup new
  BY DEF Bytes
<1>3. \A b \in rest : \E i \in Items \ {x} : b \in {i} \X (1 .. h[i])
  OBVIOUS
<1>4. \A b \in rest : b[1] # x
  BY <1>3
<1>5. rest \cap old = {} /\ rest \cap new = {}
  BY <1>4
<1>6. ASSUME NEW n \in Nat
      PROVE  IsFiniteSet({x} \X (1 .. n)) /\ Cardinality({x} \X (1 .. n)) = n
  <2>1. IsFiniteSet(1 .. n) /\ Cardinality(1 .. n) = n
    <3>1. /\ IsFiniteSet(1 .. n)
          /\ Cardinality(1 .. n) = IF 1 > n THEN 0 ELSE n - 1 + 1
      BY FS_Interval
    <3> QED
      BY <3>1
  <2>2. IsFiniteSet({x}) /\ Cardinality({x}) = 1
    BY FS_Singleton
  <2>3. /\ IsFiniteSet({x} \X (1 .. n))
        /\ Cardinality({x} \X (1 .. n)) = Cardinality({x}) * Cardinality(1 .. n)
    BY <2>1, <2>2, FS_Product
  <2> QED
    BY <2>1, <2>2, <2>3
<1>7. /\ IsFiniteSet(old) /\ Cardinality(old) = h[x]
      /\ IsFiniteSet(new) /\ Cardinality(new) = g[x]
  BY <1>6
<1>8. IsFiniteSet(rest)
  BY <1>1, FS_Subset
<1> HIDE DEF rest, old, new
<1>9. /\ Cardinality(Bytes(h)) = Cardinality(rest) + h[x]
      /\ Cardinality(Bytes(g)) = Cardinality(rest) + g[x]
      /\ IsFiniteSet(Bytes(g))
  <2>1. /\ Cardinality(rest \cup old) =
               Cardinality(rest) + Cardinality(old) - Cardinality(rest \cap old)
        /\ Cardinality(rest \cup new) =
               Cardinality(rest) + Cardinality(new) - Cardinality(rest \cap new)
        /\ IsFiniteSet(rest \cup new)
    BY <1>7, <1>8, FS_Union
  <2>2. Cardinality({}) = 0 /\ Cardinality(rest) \in Nat
    BY <1>8, FS_EmptySet, FS_CardinalityType
  <2>3. /\ Cardinality(Bytes(h)) = Cardinality(rest) + h[x] - 0
        /\ Cardinality(Bytes(g)) = Cardinality(rest) + g[x] - 0
    BY <1>1, <1>2, <1>5, <1>7, <2>1, <2>2
  <2>4. h[x] \in Nat /\ g[x] \in Nat
    OBVIOUS
  <2> QED
    BY <1>2, <2>1, <2>2, <2>3, <2>4
<1> QED
  BY <1>8, <1>9, FS_CardinalityType

\* The budget is the number of bytes held, of which there are finitely many.
Conserved ==
    \A d \in Dims : /\ IsFiniteSet(HeldBytes(d))
                    /\ used[d] = Cardinality(HeldBytes(d))

\* The bytes that the permits hold, as the bytes of one function.
LEMMA HeldAsBytes ==
    ASSUME TypeOK, NEW d \in Dims
    PROVE  Holds(d) \in [Items -> Nat] /\ HeldBytes(d) = Bytes(Holds(d))
<1>1. \A i \in Items : permit[i][d] \in Nat /\ extra[i][d] \in Nat
  BY DEF TypeOK, Weights
<1> QED
  BY <1>1 DEF Holds, HeldBytes, Bytes

\* The budget changes as much as what x holds, when it becomes p and e, as
\* long as the budget has it.
Balanced(x, p, e) ==
    \A d \in Dims : permit[x][d] + extra[x][d] <= used[d] =>
        used'[d] = used[d] - (permit[x][d] + extra[x][d]) + (p[d] + e[d])

\* A step that changes what x holds, and the budget by the same amount.
LEMMA ConservedStep ==
    ASSUME TypeOK, TypeOK', Conserved, NEW x \in Items, NEW p, NEW e,
           permit' = [permit EXCEPT ![x] = p],
           extra' = [extra EXCEPT ![x] = e], Balanced(x, p, e)
    PROVE  Conserved'
<1>1. SUFFICES ASSUME NEW d \in Dims
               PROVE  /\ IsFiniteSet(HeldBytes(d)')
                      /\ used'[d] = Cardinality(HeldBytes(d)')
  BY DEF Conserved
<1>2. /\ Holds(d) \in [Items -> Nat] /\ HeldBytes(d) = Bytes(Holds(d))
      /\ Holds(d)' \in [Items -> Nat] /\ HeldBytes(d)' = Bytes(Holds(d)')
  <2>1. Holds(d) \in [Items -> Nat] /\ HeldBytes(d) = Bytes(Holds(d))
    BY HeldAsBytes
  <2>2. \A i \in Items : permit'[i][d] \in Nat /\ extra'[i][d] \in Nat
    BY DEF TypeOK, Weights
  <2>3. Holds(d)' \in [Items -> Nat] /\ HeldBytes(d)' = Bytes(Holds(d)')
    BY <2>2 DEF Holds, HeldBytes, Bytes
  <2> QED
    BY <2>1, <2>3
<1>3. /\ \A i \in Items \ {x} : Holds(d)'[i] = Holds(d)[i]
      /\ Holds(d)[x] = permit[x][d] + extra[x][d]
      /\ Holds(d)'[x] = p[d] + e[d]
  BY DEF Holds, TypeOK
<1>4. IsFiniteSet(Bytes(Holds(d))) /\ used[d] = Cardinality(Bytes(Holds(d)))
  BY <1>2 DEF Conserved
<1>5. /\ IsFiniteSet(Bytes(Holds(d)'))
      /\ Cardinality(Bytes(Holds(d)'))
            = Cardinality(Bytes(Holds(d))) - Holds(d)[x] + Holds(d)'[x]
      /\ Holds(d)[x] <= Cardinality(Bytes(Holds(d)))
  BY <1>2, <1>3, <1>4, BytesChange
<1> QED
  BY <1>2, <1>3, <1>4, <1>5 DEF Balanced

\* No release is swallowed by the saturating subtraction.
LEMMA ConservedShrink ==
    ASSUME TypeOK, TypeOK', Conserved, NEW x \in Items, NEW p \in Weights,
           NEW e \in Weights, ShrinkPermits(x, p, e),
           \A d \in Dims : p[d] <= permit[x][d] /\ e[d] <= extra[x][d]
    PROVE  Conserved'
<1>1. ASSUME NEW d \in Dims, permit[x][d] + extra[x][d] <= used[d]
      PROVE  used'[d] = used[d] - (permit[x][d] + extra[x][d]) + (p[d] + e[d])
  <2> DEFINE a == permit[x][d]
             b == extra[x][d]
             u == used[d]
             p1 == SubtractWeights(permit[x], p)
             e1 == SubtractWeights(extra[x], e)
  <2>1. /\ a \in Nat /\ b \in Nat /\ u \in Nat /\ p[d] \in Nat /\ e[d] \in Nat
        /\ p[d] <= a /\ e[d] <= b /\ a + b <= u
    BY <1>1 DEF TypeOK, Weights
  <2>2. p1[d] = a - p[d] /\ e1[d] = b - e[d]
    BY <2>1 DEF SubtractWeights
  <2>3. SubtractWeights(used, p1)[d] = u - (a - p[d])
    BY <2>1, <2>2 DEF SubtractWeights
  <2>4. SubtractWeights(SubtractWeights(used, p1), e1)[d] = u - (a - p[d]) - (b - e[d])
    BY <2>1, <2>2, <2>3 DEF SubtractWeights
  <2>5. used'[d] = u - (a - p[d]) - (b - e[d])
    BY <2>4 DEF ShrinkPermits
  <2> HIDE DEF a, b, u
  <2>6. used'[d] = u - (a + b) + (p[d] + e[d])
    BY <2>1, <2>5
  <2> QED
    BY <2>6 DEF a, b, u
<1>2. Balanced(x, p, e)
  BY <1>1 DEF Balanced
<1>3. permit' = [permit EXCEPT ![x] = p] /\ extra' = [extra EXCEPT ![x] = e]
  BY DEF ShrinkPermits
<1> QED
  BY <1>2, <1>3, ConservedStep

\* Dropping an item returns all of its bytes (ResourcePermit::drop).
LEMMA ConservedDrop ==
    ASSUME TypeOK, TypeOK', Conserved, NEW x \in Items, DropItem(x)
    PROVE  Conserved'
<1>1. NoWeights \in Weights
  BY DEF NoWeights, Weights
<1>2. \A d \in Dims : NoWeights[d] <= permit[x][d] /\ NoWeights[d] <= extra[x][d]
  BY DEF NoWeights, TypeOK, Weights
<1> QED
  BY <1>1, <1>2, ConservedShrink DEF DropItem

\* A worker that defers gives back no more than it has, and asks with
\* nothing left of an earlier addition.
LEMMA WorkerConserved ==
    ASSUME TypeOK, TypeOK', OwnInv, ChargeInv, Conserved,
           NEW w \in WorkerIds, Worker(w)
    PROVE  Conserved'
<1> USE DEF tokenVars, budgetVars, windowVars, itemVars, dispatcherVars,
            workerVars, coordinatorVars
<1> DEFINE x == witem[w]
<1>1. /\ x \in Items /\ permit[x] \in Weights /\ extra[x] \in Weights
      /\ plan[x].required \in Weights /\ plan[x].bytes \in Nat
      /\ reserved[x] \in Weights /\ NoWeights \in Weights /\ used \in Weights
  BY PlanTyped DEF TypeOK, NoWeights, Weights
<1>2. CASE UNCHANGED <<used, permit, extra>>
  BY <1>2 DEF Conserved, HeldBytes
<1>3. ASSUME NEW a \in Weights
      PROVE  /\ PreparedPart(a) \in Weights /\ WithoutPrepared(a) \in Weights
             /\ \A d \in Dims : /\ a[d] <= a[d] /\ NoWeights[d] <= a[d]
                                /\ PreparedPart(a)[d] <= a[d]
                                /\ WithoutPrepared(a)[d] <= a[d]
  BY DEF PreparedPart, WithoutPrepared, NoWeights, Weights, Dims
<1>4. ASSUME NEW a \in Weights, NEW n \in Nat
      PROVE  /\ RetainPrepared(a, n) \in Weights
             /\ n - RetainPrepared(a, n)["prepared"] \in Nat
             /\ \A d \in Dims : RetainPrepared(a, n)[d] <= a[d]
  BY DEF RetainPrepared, NoWeights, Weights, Dims
<1>5. CASE WorkerDefer(w)
  <2>1. CASE ShrinkPermits(x, WithoutPrepared(permit[x]), extra[x])
    BY <1>1, <1>3, <2>1, ConservedShrink
  <2> QED
    BY <1>2, <1>5, <2>1 DEF WorkerDefer
<1>6. CASE WorkerAcquire(w)
  <2>1. /\ used' = AddWeights(used, Missing(x)) /\ wpc[w] = "wait"
        /\ extra' = [extra EXCEPT ![x] = Missing(x)]
        /\ permit' = [permit EXCEPT ![x] = permit[x]]
    BY <1>1, <1>6 DEF WorkerAcquire, TakeBytes, TypeOK
  <2>2. extra[x] = NoWeights /\ Missing(x) \in Weights
    BY <1>1, <2>1, WeightsClosed DEF ChargeInv, Busy, AtStep, Missing
  <2>3. Balanced(x, permit[x], Missing(x))
    <3>1. \A d \in Dims :
             /\ used[d] \in Nat /\ permit[x][d] \in Nat /\ Missing(x)[d] \in Nat
             /\ used'[d] = used[d] + Missing(x)[d] /\ extra[x][d] = 0
      BY <1>1, <2>1, <2>2 DEF AddWeights, NoWeights, Weights
    <3> QED
      BY <3>1 DEF Balanced
  <2> QED
    BY <1>1, <2>1, <2>3, ConservedStep
<1>7. CASE WorkerOperate(w)
  <2>1. \/ ShrinkPermits(x, permit[x], PreparedPart(extra[x]))
        \/ ShrinkPermits(x, permit[x], NoWeights)
    BY <1>7 DEF WorkerOperate
  <2> QED
    BY <1>1, <1>3, <2>1, ConservedShrink
<1>8. CASE WorkerFinish(w)
  <2> DEFINE kept == RetainPrepared(permit[x], plan[x].bytes)
             rest == RetainPrepared(extra[x], plan[x].bytes - kept["prepared"])
  <2>1. \/ ShrinkPermits(x, kept, rest) \/ ShrinkPermits(x, NoWeights, NoWeights)
    BY <1>8 DEF WorkerFinish
  <2>2. /\ kept \in Weights /\ rest \in Weights
        /\ \A d \in Dims : kept[d] <= permit[x][d] /\ rest[d] <= extra[x][d]
    BY <1>1, <1>4
  <2>3. CASE ShrinkPermits(x, kept, rest)
    BY <1>1, <2>2, <2>3, ConservedShrink
  <2>4. CASE ShrinkPermits(x, NoWeights, NoWeights)
    BY <1>1, <1>3, <2>4, ConservedShrink
  <2> QED
    BY <2>1, <2>3, <2>4
<1>9. CASE WorkerAbandon(w)
  BY <1>1, <1>9, ConservedDrop DEF WorkerAbandon
<1>10. CASE WorkerReceive(w) \/ WorkerExit(w) \/ WorkerCheck(w)
            \/ WorkerAdmit(w) \/ WorkerRefuse(w) \/ WorkerSend(w)
  BY <1>2, <1>10 DEF WorkerReceive, WorkerExit, WorkerCheck, WorkerAdmit,
     WorkerRefuse, WorkerSend
<1> QED
  BY <1>5, <1>6, <1>7, <1>8, <1>9, <1>10 DEF Worker

\* Every step keeps the budget and the permits equal.
LEMMA NextConserved ==
    TypeOK /\ TypeOK' /\ OwnInv /\ ChargeInv /\ Conserved /\ [Next]_vars => Conserved'
<1> SUFFICES ASSUME TypeOK, TypeOK', OwnInv, ChargeInv, Conserved, [Next]_vars
             PROVE  Conserved'
  OBVIOUS
<1> USE DEF tokenVars, budgetVars, windowVars, itemVars, dispatcherVars,
            workerVars, coordinatorVars
<1>1. CASE UNCHANGED <<used, permit, extra>>
  BY <1>1 DEF Conserved, HeldBytes
<1>2. CASE Dispatcher
  <2>1. CASE DispatchAcquireResources
    <3>1. /\ used' = AddWeights(used, plan[dnext].weights) /\ dpc = "resources"
          /\ permit' = [permit EXCEPT ![dnext] = plan[dnext].weights]
          /\ extra' = extra
      BY <2>1 DEF DispatchAcquireResources, TakeBytes
    <3>2. /\ dnext \in Items /\ plan[dnext].weights \in Weights
          /\ permit[dnext] = NoWeights /\ extra[dnext] = NoWeights
      BY <3>1, PlanTyped, LimitsAssumption DEF TypeOK, Items, ChargeInv, Unpaid
    <3>3. Balanced(dnext, plan[dnext].weights, extra[dnext])
      <4>1. \A d \in Dims :
               /\ used[d] \in Nat /\ plan[dnext].weights[d] \in Nat
               /\ used'[d] = used[d] + plan[dnext].weights[d]
               /\ permit[dnext][d] = 0 /\ extra[dnext][d] = 0
        BY <3>1, <3>2 DEF AddWeights, NoWeights, Weights, TypeOK
      <4> QED
        BY <4>1 DEF Balanced
    <3>4. extra' = [extra EXCEPT ![dnext] = extra[dnext]]
      BY <3>1 DEF TypeOK
    <3> QED
      BY <3>1, <3>2, <3>3, <3>4, ConservedStep
  <2>2. CASE DispatchBreak
    <3>1. dnext \in Items
      BY <2>2, LimitsAssumption DEF DispatchBreak, TypeOK, Items
    <3> QED
      BY <2>2, <3>1, ConservedDrop DEF DispatchBreak
  <2>3. CASE DispatchNext \/ DispatchStop \/ DispatchAcquireWindow
             \/ DispatchCheck \/ DispatchSend
    BY <1>1, <2>3 DEF DispatchNext, DispatchStop, DispatchAcquireWindow,
       DispatchCheck, DispatchSend
  <2> QED
    BY <1>2, <2>1, <2>2, <2>3 DEF Dispatcher
<1>3. CASE Coordinator
  <2>1. CASE CoordinatorDeliver \/ CoordinatorFail
    <3>1. next \in Items
      BY <2>1, LimitsAssumption DEF CoordinatorDeliver, CoordinatorFail, TypeOK, Items
    <3> QED
      BY <2>1, <3>1, ConservedDrop DEF CoordinatorDeliver, CoordinatorFail
  <2>2. CASE CoordinatorDropPending
    <3>1. PICK i \in pending : DropItem(i)
      BY <2>2 DEF CoordinatorDropPending
    <3> QED
      BY <3>1, ConservedDrop DEF TypeOK
  <2>3. CASE CoordinatorDiscardResult
    <3>1. Head(resultQueue) \in Items /\ DropItem(Head(resultQueue))
      BY <2>3 DEF CoordinatorDiscardResult, TypeOK
    <3> QED
      BY <3>1, ConservedDrop
  <2>4. CASE CoordinatorReceive \/ CoordinatorLeave \/ CoordinatorDrain
             \/ CoordinatorCancel \/ CoordinatorClose \/ CoordinatorReturn
    BY <1>1, <2>4 DEF CoordinatorReceive, CoordinatorLeave, CoordinatorDrain,
       CoordinatorCancel, CoordinatorClose, CoordinatorReturn
  <2> QED
    BY <1>3, <2>1, <2>2, <2>3, <2>4 DEF Coordinator
<1>4. CASE DiscardWork
  <2>1. Head(workQueue) \in Items /\ DropItem(Head(workQueue))
    BY <1>4 DEF DiscardWork, TypeOK
  <2> QED
    BY <2>1, ConservedDrop
<1>5. CASE Cancel \/ Terminated \/ UNCHANGED vars
  BY <1>1, <1>5 DEF Cancel, Terminated, vars
<1> QED
  BY <1>2, <1>3, <1>4, <1>5, WorkerConserved DEF Next

\* At first nobody holds a byte.
LEMMA InitConserved == Init => Conserved
<1> SUFFICES ASSUME Init, NEW d \in Dims PROVE HeldBytes(d) = {} /\ used[d] = 0
  BY FS_EmptySet DEF Conserved
<1>1. \A i \in Items : permit[i][d] + extra[i][d] = 0
  BY DEF Init, NoWeights
<1>2. \A i \in Items : {i} \X (1 .. permit[i][d] + extra[i][d]) = {}
  BY <1>1
<1> QED
  BY <1>2 DEF HeldBytes, Init, NoWeights

\* The budget is at every moment exactly what the live permits hold and the
\* window counter the number of live window permits, whatever was given back
\* early, split or asked for again.
THEOREM BudgetConserved == Spec => []PermitsConserved
<1>1. Spec => []Conserved
  BY Charging, InitConserved, NextConserved, PTL DEF Spec
<1>2. OwnInv /\ Conserved => PermitsConserved
  BY DEF OwnInv, Conserved, PermitsConserved
<1> QED
  BY <1>1, <1>2, Charging, PTL

-----------------------------------------------------------------------------
(* Everything is released on return *)

\* The coordinator leaves nothing behind, and returns after the others.
ReturnInv ==
    /\ cpc \in {"discard", "returned"} => pending = {}
    /\ cpc = "returned" => /\ resultQueue = << >> /\ workQueue = << >>
                           /\ dpc = "done" /\ WorkersGone

\* No step leaves anything behind the coordinator.
LEMMA NextReturnInv == TypeOK /\ ReturnInv /\ [Next]_vars => ReturnInv'
<1> SUFFICES ASSUME TypeOK, ReturnInv, [Next]_vars PROVE ReturnInv'
  OBVIOUS
<1> USE DEF tokenVars, budgetVars, windowVars, itemVars, dispatcherVars,
            workerVars, coordinatorVars
<1>1. CASE Dispatcher
  BY <1>1 DEF Dispatcher, DispatchNext, DispatchStop, DispatchAcquireWindow,
     DispatchCheck, DispatchAcquireResources, DispatchSend, DispatchBreak,
     ReturnInv, WorkersGone
<1>2. ASSUME NEW w \in WorkerIds, Worker(w) PROVE ReturnInv'
  <2>1. UNCHANGED <<cpc, pending>> /\ wpc[w] # "done"
    BY <1>2 DEF Worker, WorkerReceive, WorkerExit, WorkerCheck, WorkerDefer,
       WorkerAdmit, WorkerAcquire, WorkerOperate, WorkerRefuse, WorkerFinish,
       WorkerSend, WorkerAbandon
  <2> QED
    BY <2>1 DEF ReturnInv, WorkersGone
<1>3. CASE Coordinator
  BY <1>3 DEF Coordinator, CoordinatorReceive, CoordinatorLeave,
     CoordinatorDrain, CoordinatorDeliver, CoordinatorFail, CoordinatorCancel,
     CoordinatorDropPending, CoordinatorClose, CoordinatorDiscardResult,
     CoordinatorReturn, ReturnInv, WorkersGone
<1>4. CASE DiscardWork \/ Cancel \/ Terminated \/ UNCHANGED vars
  BY <1>4 DEF DiscardWork, Cancel, Terminated, vars, ReturnInv, WorkersGone
<1> QED
  BY <1>1, <1>2, <1>3, <1>4 DEF Next

\* When execute returns, with a result or an error, its threads have given
\* back every byte and every place of the window.
THEOREM ReturnReleases == Spec => []ReleasedOnReturn
<1>1. Init => ReturnInv
  BY DEF Init, ReturnInv
<1>2. Spec => []ReturnInv
  BY <1>1, TypeCorrect, NextReturnInv, PTL DEF Spec
<1>3. Spec => []Conserved
  BY Charging, InitConserved, NextConserved, PTL DEF Spec
<1>4. TypeOK /\ OwnInv /\ ChargeInv /\ Conserved /\ ReturnInv => ReleasedOnReturn
  <2> SUFFICES ASSUME TypeOK, OwnInv, ChargeInv, Conserved, ReturnInv,
                      cpc = "returned"
               PROVE  used = NoWeights /\ windowUsed = 0 /\ window = {}
    BY DEF ReleasedOnReturn
  <2>1. /\ Queued(workQueue) = {} /\ Queued(resultQueue) = {} /\ AtWorkers = {}
        /\ AtSink = {} /\ AtDispatcher = {} /\ pending = {}
    BY DEF ReturnInv, Queued, AtWorkers, Busy, WorkersGone, AtSink, AtDispatcher
  <2>2. window = {} /\ windowUsed = 0
    BY <2>1, FS_EmptySet DEF OwnInv, WindowIsPlaces
  <2>3. \A i \in Items : Unpaid(i)
    BY <2>2 DEF ChargeInv
  <2>4. ASSUME NEW d \in Dims PROVE used[d] = 0
    <3>1. \A i \in Items : {i} \X (1 .. permit[i][d] + extra[i][d]) = {}
      BY <2>3 DEF Unpaid, NoWeights
    <3>2. HeldBytes(d) = {}
      BY <3>1 DEF HeldBytes
    <3> QED
      BY <3>2, FS_EmptySet DEF Conserved
  <2>5. used = NoWeights
    BY <2>4 DEF TypeOK, Weights, NoWeights
  <2> QED
    BY <2>2, <2>5
<1> QED
  BY <1>2, <1>3, <1>4, Charging, PTL
=============================================================================
