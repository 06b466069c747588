-------------------------- MODULE PipelineDelivery --------------------------
(***************************************************************************)
(* What the caller of Pipeline::execute sees, for any number of items,     *)
(* workers and bytes: the outcome is decided by the work and by outside    *)
(* cancellation alone, and the whole execution is a sequential delivery in *)
(* ordinal order (the specification of module Delivery).                   *)
(***************************************************************************)
EXTENDS PipelineCharges, SequenceTheorems

-----------------------------------------------------------------------------
(* The inductive invariant of the outcome *)

\* While the coordinator is in its loop only an outside request can have
\* cancelled the token, and the dispatcher has stopped for no other reason
\* than that or the end of the work.
StopInv ==
    /\ cancelled /\ Flowing => requested
    /\ dpc = "done" /\ Flowing => dnext = N + 1 \/ cancelled

\* The sink has seen the items before the next one, all of them good.
DeliveredPrefix ==
    /\ delivered = [i \in 1 .. next - 1 |-> i]
    /\ \A i \in 1 .. next - 1 : Verdict(i) = "ok"

\* An error is that of the next item, or answers a cancellation.
TerminalJustified ==
    terminal # "none" =>
        /\ next <= N
        /\ \/ terminal = "cancelled" /\ requested
           \/ terminal = Verdict(next) /\ Verdict(next) # "ok"

\* The error and the outcome follow the coordinator.
CoordinatorInv ==
    /\ cpc = "receive" => next \notin pending
    /\ cpc = "sink" => result[next] = "ok"
    /\ cpc = "error" => result[next] # "ok"
    /\ Flowing => terminal = "none"
    /\ cpc = "cancel" => terminal # "none"
    /\ cpc = "close" /\ terminal = "none" /\ next <= N => requested
    /\ cpc \in {"discard", "returned"} /\ terminal = "none" => next > N
    /\ outcome = IF cpc = "returned" THEN IF next > N THEN "ok" ELSE terminal
                 ELSE "running"

OutcomeInv ==
    /\ StopInv
    /\ DeliveredPrefix
    /\ TerminalJustified
    /\ CoordinatorInv

\* The verdict of an item is one of the four that Delivery knows.
LEMMA VerdictTyped ==
    ASSUME TypeOK, NEW i \in Items
    PROVE  Verdict(i) \in {"ok", "prepare", "limit", "delivery"}
<1>1. plan[i].prepare \in {"ok", "prepare"} /\ plan[i].deliver \in {"ok", "delivery"}
  BY PlanTyped DEF TypeOK
<1> QED
  BY <1>1 DEF Verdict

\* A worker does not leave a coordinator that waits for an item behind.
LEMMA WaitedForIsThere ==
    ASSUME TypeOK, WindowInv, OwnInv, CoordinatorInv, StopInv, cpc = "receive",
           next <= N, resultQueue = << >>, WorkersGone
    PROVE  requested
<1>1. Flowing /\ 1 \in WorkerIds
  BY LimitsAssumption DEF Flowing, WorkerIds, WorkerCount
<1>2. dpc = "done" /\ workQueue = << >>
  BY <1>1 DEF WindowInv, WorkersLeaveLast, WorkersGone
<1>3. SUFFICES ASSUME dnext = N + 1 PROVE FALSE
  BY <1>1, <1>2 DEF StopInv
<1>4. window = next .. dnext - 1 + 0
  BY <1>1, <1>2 DEF WindowInv, WindowIsInterval, Holding
<1>5. next \in window
  BY <1>3, <1>4, LimitsAssumption DEF TypeOK
<1>6. /\ AtDispatcher = {} /\ Queued(workQueue) = {} /\ AtWorkers = {}
      /\ Queued(resultQueue) = {} /\ AtSink = {} /\ next \notin pending
  BY <1>2 DEF AtDispatcher, Queued, AtWorkers, Busy, WorkersGone, AtSink,
     CoordinatorInv
<1> QED
  BY <1>5, <1>6 DEF OwnInv, WindowIsPlaces

\* The sequence of the first items grows by the next one.
LEMMA PrefixGrows ==
    ASSUME NEW n \in Nat
    PROVE  Append([i \in 1 .. n |-> i], n + 1) = [i \in 1 .. n + 1 |-> i]
<1> DEFINE s == [i \in 1 .. n |-> i]
           t == [i \in 1 .. n + 1 |-> i]
<1>1. s \in Seq(Nat) /\ t \in Seq(Nat) /\ Len(s) = n /\ Len(t) = n + 1
  OBVIOUS
<1>2. /\ Append(s, n + 1) \in Seq(Nat) /\ Len(Append(s, n + 1)) = n + 1
      /\ \A k \in 1 .. n + 1 : Append(s, n + 1)[k] = t[k]
  BY <1>1
<1> QED
  BY <1>1, <1>2, SeqEqual

\* The outcome invariant holds at first.
LEMMA InitOutcomeInv == Init => OutcomeInv
<1> SUFFICES ASSUME Init PROVE OutcomeInv
  OBVIOUS
<1>1. StopInv
  BY DEF Init, StopInv
<1>2. DeliveredPrefix
  BY DEF Init, DeliveredPrefix
<1>3. TerminalJustified /\ CoordinatorInv
  BY DEF Init, TerminalJustified, CoordinatorInv, Flowing
<1> QED
  BY <1>1, <1>2, <1>3 DEF OutcomeInv

\* The verdicts do not change, and a request is never withdrawn.
LEMMA RequestFacts ==
    ASSUME TypeOK, [Next]_vars
    PROVE  (requested => requested') /\ \A i : Verdict(i)' = Verdict(i)
<1> USE DEF tokenVars, budgetVars, windowVars, itemVars, dispatcherVars,
            workerVars, coordinatorVars
<1>1. \A i : Verdict(i)' = Verdict(i)
  BY StepFacts, PlanFixed
<1>2. CASE Dispatcher
  BY <1>1, <1>2 DEF Dispatcher, DispatchNext, DispatchStop,
     DispatchAcquireWindow, DispatchCheck, DispatchAcquireResources,
     DispatchSend, DispatchBreak
<1>3. ASSUME NEW w \in WorkerIds, Worker(w) PROVE requested => requested'
  BY <1>3 DEF Worker, WorkerReceive, WorkerExit, WorkerCheck, WorkerDefer,
     WorkerAdmit, WorkerAcquire, WorkerOperate, WorkerRefuse, WorkerFinish,
     WorkerSend, WorkerAbandon
<1>4. CASE Coordinator
  BY <1>1, <1>4 DEF Coordinator, CoordinatorReceive, CoordinatorLeave,
     CoordinatorDrain, CoordinatorDeliver, CoordinatorFail, CoordinatorCancel,
     CoordinatorDropPending, CoordinatorClose, CoordinatorDiscardResult,
     CoordinatorReturn
<1>5. CASE DiscardWork \/ Cancel \/ Terminated \/ UNCHANGED vars
  BY <1>1, <1>5 DEF DiscardWork, Cancel, Terminated, vars
<1> QED
  BY <1>1, <1>2, <1>3, <1>4, <1>5 DEF Next

\* A step of another thread leaves what the coordinator knows alone.
LEMMA OthersOutcomeInv ==
    ASSUME TypeOK, OutcomeInv, [Next]_vars, UNCHANGED coordinatorVars, StopInv',
           cpc \in {"sink", "error"} => result'[next] = result[next]
    PROVE  OutcomeInv'
<1>1. (requested => requested') /\ \A i : Verdict(i)' = Verdict(i)
  BY RequestFacts
<1>2. UNCHANGED <<cpc, next, pending, terminal, delivered, outcome>>
  BY DEF coordinatorVars
<1>3. DeliveredPrefix'
  BY <1>1, <1>2 DEF OutcomeInv, DeliveredPrefix
<1>4. TerminalJustified'
  <2>1. Verdict(next)' = Verdict(next)
    BY <1>1, <1>2
  <2> QED
    BY <1>1, <1>2, <2>1 DEF OutcomeInv, TerminalJustified
<1>5. CoordinatorInv'
  BY <1>1, <1>2 DEF OutcomeInv, CoordinatorInv, Flowing
<1> QED
  BY <1>3, <1>4, <1>5 DEF OutcomeInv

\* The dispatcher stops for a reason.
LEMMA DispatcherOutcomeInv ==
    ASSUME TypeOK, WindowInv, OutcomeInv, Dispatcher PROVE OutcomeInv'
<1> USE DEF tokenVars, budgetVars, windowVars, itemVars, dispatcherVars,
            workerVars, coordinatorVars
<1>1. /\ UNCHANGED coordinatorVars /\ result' = result /\ [Next]_vars
      /\ UNCHANGED <<cpc, next, cancelled, requested, wpc>>
  BY DEF Dispatcher, DispatchNext, DispatchStop, DispatchAcquireWindow,
     DispatchCheck, DispatchAcquireResources, DispatchSend, DispatchBreak, Next
<1>2. /\ dnext \in 1 .. N + 1 /\ N \in Nat /\ 1 \in WorkerIds
  BY LimitsAssumption DEF TypeOK, WorkerIds, WorkerCount
<1>3. Flowing' <=> Flowing
  BY <1>1 DEF Flowing
<1>4. dpc' = "done" /\ Flowing => dnext' = N + 1 \/ cancelled
  <2>1. CASE DispatchStop
    BY <1>2, <2>1 DEF DispatchStop
  <2>2. CASE DispatchBreak
    <3>1. dpc = "send" /\ WorkersGone /\ Flowing => FALSE
      BY <1>2 DEF WindowInv, WorkersLeaveLast, WorkersGone
    <3> QED
      BY <2>2, <3>1 DEF DispatchBreak
  <2>3. CASE DispatchNext \/ DispatchAcquireWindow \/ DispatchCheck
             \/ DispatchAcquireResources \/ DispatchSend
    BY <2>3 DEF DispatchNext, DispatchAcquireWindow, DispatchCheck,
       DispatchAcquireResources, DispatchSend
  <2> QED
    BY <2>1, <2>2, <2>3 DEF Dispatcher
<1>5. StopInv'
  BY <1>1, <1>3, <1>4 DEF OutcomeInv, StopInv
<1> QED
  BY <1>1, <1>5, OthersOutcomeInv

\* No worker touches the result the coordinator is delivering.
LEMMA WorkerOutcomeInv ==
    ASSUME TypeOK, WindowInv, OwnInv, OutcomeInv, NEW w \in WorkerIds, Worker(w)
    PROVE  OutcomeInv'
<1> USE DEF tokenVars, budgetVars, windowVars, itemVars, dispatcherVars,
            workerVars, coordinatorVars
<1>1. /\ UNCHANGED coordinatorVars /\ [Next]_vars
      /\ UNCHANGED <<cpc, next, cancelled, requested, dpc, dnext>>
  BY DEF Worker, WorkerReceive, WorkerExit, WorkerCheck, WorkerDefer,
     WorkerAdmit, WorkerAcquire, WorkerOperate, WorkerRefuse, WorkerFinish,
     WorkerSend, WorkerAbandon, Next
<1>2. \/ result' = result
      \/ Busy(w) /\ \E e : result' = [result EXCEPT ![witem[w]] = e]
  BY DEF Worker, WorkerReceive, WorkerExit, WorkerCheck, WorkerDefer,
     WorkerAdmit, WorkerAcquire, WorkerOperate, WorkerRefuse, WorkerFinish,
     WorkerSend, WorkerAbandon, Busy
<1>3. cpc \in {"sink", "error"} /\ Busy(w) => next # witem[w]
  <2>1. SUFFICES ASSUME cpc \in {"sink", "error"}, Busy(w) PROVE next # witem[w]
    OBVIOUS
  <2>2. witem[w] \notin AtSink /\ witem[w] \in Items
    BY <2>1, WorkerAlone
  <2> QED
    BY <2>1, <2>2 DEF AtSink
<1>4. cpc \in {"sink", "error"} => result'[next] = result[next]
  <2>1. CASE result' = result
    BY <2>1
  <2>2. CASE Busy(w) /\ \E e : result' = [result EXCEPT ![witem[w]] = e]
    <3>1. PICK e : result' = [result EXCEPT ![witem[w]] = e]
      BY <2>2
    <3>2. \A i \in Items : i # witem[w] => result'[i] = result[i]
      BY <3>1 DEF TypeOK
    <3>3. cpc \in {"sink", "error"} => next \in Items
      BY LimitsAssumption DEF TypeOK, Items
    <3> QED
      BY <1>3, <2>2, <3>2, <3>3
  <2> QED
    BY <1>2, <2>1, <2>2
<1>5. StopInv'
  BY <1>1 DEF OutcomeInv, StopInv, Flowing
<1> QED
  BY <1>1, <1>4, <1>5, OthersOutcomeInv

\* The coordinator delivers good items in order and keeps the first error.
LEMMA CoordinatorOutcomeInv ==
    ASSUME TypeOK, WindowInv, OwnInv, ChargeInv, OutcomeInv, Coordinator
    PROVE  OutcomeInv'
<1> USE DEF tokenVars, budgetVars, windowVars, itemVars, dispatcherVars,
            workerVars, coordinatorVars
<1>1. /\ [Next]_vars /\ UNCHANGED <<requested, result, dpc, dnext, plan>>
      /\ (cancelled => cancelled')
  BY DEF Coordinator, CoordinatorReceive, CoordinatorLeave, CoordinatorDrain,
     CoordinatorDeliver, CoordinatorFail, CoordinatorCancel,
     CoordinatorDropPending, CoordinatorClose, CoordinatorDiscardResult,
     CoordinatorReturn, Next
<1>2. \A i : Verdict(i)' = Verdict(i)
  BY <1>1, RequestFacts
<1>3. next \in 1 .. N + 1 /\ N \in Nat
  BY LimitsAssumption DEF TypeOK
<1>4. StopInv'
  <2>1. Flowing' => Flowing /\ cancelled' = cancelled
    BY DEF Flowing, Coordinator, CoordinatorReceive, CoordinatorLeave,
       CoordinatorDrain, CoordinatorDeliver, CoordinatorFail,
       CoordinatorCancel, CoordinatorDropPending, CoordinatorClose,
       CoordinatorDiscardResult, CoordinatorReturn
  <2> QED
    BY <1>1, <2>1 DEF OutcomeInv, StopInv
<1>5. cpc \in {"sink", "error"} =>
        /\ next \in Items /\ Settled(next) /\ Flowing
        /\ cancelled => requested
  <2>1. SUFFICES ASSUME cpc \in {"sink", "error"}
                 PROVE  /\ next \in Items /\ Settled(next) /\ Flowing
                        /\ cancelled => requested
    OBVIOUS
  <2>2. next \in Items /\ Flowing
    BY <1>3, <2>1 DEF TypeOK, Items, Flowing
  <2>3. next \in AtSink
    BY <2>1, <2>2 DEF AtSink
  <2> QED
    BY <2>2, <2>3 DEF ChargeInv, OutcomeInv, StopInv
<1>6. CASE CoordinatorDeliver
  <2>1. /\ cpc = "sink" /\ cpc' = "drain" /\ next' = next + 1
        /\ plan[next].deliver = "ok" /\ delivered' = Append(delivered, next)
        /\ UNCHANGED <<terminal, outcome>>
    BY <1>6 DEF CoordinatorDeliver
  <2>2. Verdict(next) = "ok"
    BY <1>5, <2>1 DEF Settled, OutcomeInv, CoordinatorInv
  <2>3. DeliveredPrefix'
    <3>1. next - 1 \in Nat /\ (next - 1) + 1 = next /\ next' - 1 = next
      BY <1>3, <2>1
    <3>2. delivered' = [i \in 1 .. next |-> i]
      BY <2>1, <3>1, PrefixGrows DEF OutcomeInv, DeliveredPrefix
    <3>3. \A i \in 1 .. next : Verdict(i)' = "ok"
      BY <1>2, <1>3, <2>2 DEF OutcomeInv, DeliveredPrefix
    <3> QED
      BY <3>1, <3>2, <3>3 DEF DeliveredPrefix
  <2>4. TerminalJustified' /\ CoordinatorInv'
    BY <2>1 DEF OutcomeInv, CoordinatorInv, TerminalJustified, Flowing
  <2> QED
    BY <1>4, <2>3, <2>4 DEF OutcomeInv
<1>7. CASE ~CoordinatorDeliver
  <2>1. UNCHANGED <<next, delivered>>
    BY <1>7 DEF Coordinator, CoordinatorReceive, CoordinatorLeave,
       CoordinatorDrain, CoordinatorFail, CoordinatorCancel,
       CoordinatorDropPending, CoordinatorClose, CoordinatorDiscardResult,
       CoordinatorReturn
  <2>2. DeliveredPrefix' /\ Verdict(next)' = Verdict(next)
    BY <1>2, <2>1 DEF OutcomeInv, DeliveredPrefix
  <2>3. CASE CoordinatorFail
    <3>1. /\ cpc \in {"sink", "error"} /\ cpc' = "cancel" /\ outcome' = outcome
          /\ \/ cpc = "error" /\ terminal' = result[next]
             \/ /\ cpc = "sink" /\ plan[next].deliver # "ok"
                /\ terminal' = plan[next].deliver
             \/ cpc = "sink" /\ cancelled /\ terminal' = "cancelled"
      BY <2>3 DEF CoordinatorFail
    <3>2. /\ next \in Items /\ result[next] \in Results
          /\ plan[next].deliver \in {"ok", "delivery"}
      BY <1>5, <3>1, PlanTyped DEF TypeOK
    <3>3. /\ terminal' # "none" /\ next <= N
          /\ \/ terminal' = "cancelled" /\ requested
             \/ terminal' = Verdict(next) /\ Verdict(next) # "ok"
      BY <1>3, <1>5, <3>1, <3>2
      DEF Settled, OutcomeInv, CoordinatorInv, Results, Items
    <3>4. TerminalJustified' /\ CoordinatorInv'
      BY <1>1, <2>1, <2>2, <3>1, <3>3
      DEF OutcomeInv, CoordinatorInv, TerminalJustified, Flowing
    <3> QED
      BY <1>4, <2>2, <3>4 DEF OutcomeInv
  <2>4. CASE CoordinatorLeave
    <3>1. /\ cpc = "receive" /\ cpc' = "close"
          /\ next > N \/ (resultQueue = << >> /\ WorkersGone)
          /\ UNCHANGED <<pending, terminal, outcome>>
      BY <2>4 DEF CoordinatorLeave
    <3>2. next <= N => requested
      BY <1>3, <3>1, WaitedForIsThere DEF OutcomeInv
    <3>3. TerminalJustified' /\ CoordinatorInv'
      BY <1>1, <2>1, <2>2, <3>1, <3>2
      DEF OutcomeInv, CoordinatorInv, TerminalJustified, Flowing
    <3> QED
      BY <1>4, <2>2, <3>3 DEF OutcomeInv
  <2>5. CASE CoordinatorClose
    <3>1. /\ cpc = "close" /\ cpc' = "discard" /\ outcome' = outcome
          /\ IF terminal = "none" /\ next <= N THEN terminal' = "cancelled"
             ELSE terminal' = terminal
      BY <2>5 DEF CoordinatorClose
    <3>2. TerminalJustified'
      BY <1>1, <2>1, <2>2, <3>1 DEF OutcomeInv, CoordinatorInv, TerminalJustified
    <3>3. CoordinatorInv'
      BY <1>1, <1>3, <2>1, <3>1 DEF OutcomeInv, CoordinatorInv, Flowing
    <3> QED
      BY <1>4, <2>2, <3>2, <3>3 DEF OutcomeInv
  <2>6. CASE CoordinatorReceive \/ CoordinatorDrain \/ CoordinatorCancel
             \/ CoordinatorDropPending \/ CoordinatorDiscardResult
             \/ CoordinatorReturn
    <3>1. terminal' = terminal
      BY <2>6 DEF CoordinatorReceive, CoordinatorDrain, CoordinatorCancel,
         CoordinatorDropPending, CoordinatorDiscardResult, CoordinatorReturn
    <3>2. TerminalJustified'
      BY <1>1, <2>1, <2>2, <3>1 DEF OutcomeInv, TerminalJustified
    <3>3. CoordinatorInv'
      BY <1>1, <2>1, <2>6, <3>1
      DEF CoordinatorReceive, CoordinatorDrain, CoordinatorCancel,
          CoordinatorDropPending, CoordinatorDiscardResult, CoordinatorReturn,
          OutcomeInv, CoordinatorInv, Flowing
    <3> QED
      BY <1>4, <2>2, <3>2, <3>3 DEF OutcomeInv
  <2> QED
    BY <1>7, <2>3, <2>4, <2>5, <2>6 DEF Coordinator
<1> QED
  BY <1>6, <1>7

\* Given the charges, the outcome is inductive.
LEMMA NextOutcomeInv ==
    TypeOK /\ WindowInv /\ OwnInv /\ ChargeInv /\ OutcomeInv /\ [Next]_vars
       => OutcomeInv'
<1> SUFFICES ASSUME TypeOK, WindowInv, OwnInv, ChargeInv, OutcomeInv, [Next]_vars
             PROVE  OutcomeInv'
  OBVIOUS
<1> USE DEF tokenVars, budgetVars, windowVars, itemVars, dispatcherVars,
            workerVars, coordinatorVars
<1>1. CASE DiscardWork \/ Cancel \/ Terminated \/ UNCHANGED vars
  <2>1. /\ UNCHANGED coordinatorVars
        /\ UNCHANGED <<cpc, next, result, dpc, dnext>>
        /\ (UNCHANGED <<cancelled, requested>> \/ requested')
        /\ (cancelled => cancelled')
    BY <1>1 DEF DiscardWork, Cancel, Terminated, vars
  <2>2. StopInv'
    BY <2>1 DEF OutcomeInv, StopInv, Flowing
  <2> QED
    BY <2>1, <2>2, OthersOutcomeInv
<1> QED
  BY <1>1, DispatcherOutcomeInv, WorkerOutcomeInv, CoordinatorOutcomeInv DEF Next

\* The outcome invariant holds in every reachable state.
LEMMA OutcomeHolds == Spec => [](TypeOK /\ OutcomeInv)
<1>1. Spec => []OutcomeInv
  BY Charging, InitOutcomeInv, NextOutcomeInv, PTL DEF Spec
<1> QED
  BY <1>1, TypeCorrect, PTL

-----------------------------------------------------------------------------
(* What the caller sees *)

\* Unless somebody cancels, what execute returns and what the sink has seen
\* depend on the work alone, whatever the order in which any number of
\* workers finish.
THEOREM OutcomeDeterministic == Spec => []DeterministicOutcome
<1>1. TypeOK /\ OutcomeInv => DeterministicOutcome
  <2>1. SUFFICES ASSUME TypeOK, OutcomeInv, outcome # "running", ~requested
                 PROVE  outcome = IF next > N THEN "ok" ELSE Verdict(next)
    BY DEF DeterministicOutcome, OutcomeInv, DeliveredPrefix
  <2>2. cpc = "returned" /\ outcome = IF next > N THEN "ok" ELSE terminal
    BY <2>1 DEF OutcomeInv, CoordinatorInv
  <2>3. next \in Int /\ N \in Int
    BY <2>1, LimitsAssumption DEF TypeOK
  <2>4. ~(next > N) => terminal = Verdict(next)
    BY <2>1, <2>2, <2>3 DEF OutcomeInv, CoordinatorInv, TerminalJustified
  <2> QED
    BY <2>2, <2>4
<1> QED
  BY <1>1, OutcomeHolds, PTL

\* The coordinator's own use of the token is never reported as a
\* cancellation by the caller.
THEOREM CancellationHonest == Spec => []CancelledOnlyIfRequested
<1>1. TypeOK /\ OutcomeInv => CancelledOnlyIfRequested
  <2>1. SUFFICES ASSUME TypeOK, OutcomeInv, outcome = "cancelled" PROVE requested
    BY DEF CancelledOnlyIfRequested
  <2>2. terminal = "cancelled" /\ next \in 1 .. N + 1 /\ N \in Nat
    BY <2>1, LimitsAssumption DEF OutcomeInv, CoordinatorInv, TypeOK
  <2>3. next \in Items
    BY <2>1, <2>2 DEF OutcomeInv, TerminalJustified, Items
  <2>4. Verdict(next) # "cancelled"
    BY <2>1, <2>3, VerdictTyped
  <2> QED
    BY <2>1, <2>2, <2>4 DEF OutcomeInv, TerminalJustified
<1> QED
  BY <1>1, OutcomeHolds, PTL

-----------------------------------------------------------------------------
(* The execution implements the sequential delivery *)

\* The sink has seen one item less than the next one.
LEMMA DeliveredLength ==
    ASSUME TypeOK, OutcomeInv
    PROVE  /\ Len(delivered) = next - 1 /\ next \in 1 .. N + 1 /\ N \in Nat
<1>1. next \in 1 .. N + 1 /\ N \in Nat
  BY LimitsAssumption DEF TypeOK
<1>2. next - 1 \in Nat
  BY <1>1
<1>3. Len([i \in 1 .. next - 1 |-> i]) = next - 1
  BY <1>2
<1> QED
  BY <1>1, <1>3 DEF OutcomeInv, DeliveredPrefix

\* An execution starts as a sequential delivery of the same verdicts does.
LEMMA InitDelivers == Init => Sequential!DeliveryInit
<1> SUFFICES ASSUME Init PROVE Sequential!DeliveryInit
  OBVIOUS
<1>1. TypeOK
  BY InitTypeOK
<1>2. \A i \in 1 .. N : Verdict(i) \in Sequential!Verdicts
  BY <1>1, VerdictTyped DEF Items, Sequential!Verdicts
<1>3. [i \in Items |-> Verdict(i)] \in [1 .. N -> Sequential!Verdicts]
  BY <1>2 DEF Items
<1> QED
  BY <1>3 DEF Init, Sequential!DeliveryInit

\* Every step of the threads is a step of the sequential delivery or is not
\* seen by the caller.
LEMMA NextDelivers ==
    ASSUME TypeOK, OwnInv, ChargeInv, OutcomeInv, [Next]_vars
    PROVE  [Sequential!DeliveryNext]_(Sequential!deliveryVars)
<1> USE DEF tokenVars, budgetVars, windowVars, itemVars, dispatcherVars,
            workerVars, coordinatorVars
<1> DEFINE verdicts == [i \in Items |-> Verdict(i)]
<1>1. verdicts' = verdicts
  BY RequestFacts
<1>2. /\ Len(delivered) = next - 1 /\ next \in 1 .. N + 1 /\ N \in Nat
  BY DeliveredLength
<1>3. CASE UNCHANGED <<delivered, requested, outcome>>
  BY <1>1, <1>3 DEF Sequential!deliveryVars
<1>4. next <= N => verdicts[Len(delivered) + 1] = Verdict(next)
  <2>1. next <= N => Len(delivered) + 1 = next /\ next \in Items
    BY <1>2 DEF Items
  <2> QED
    BY <2>1
<1> HIDE DEF verdicts
<1>5. CASE Dispatcher
  BY <1>3, <1>5 DEF Dispatcher, DispatchNext, DispatchStop,
     DispatchAcquireWindow, DispatchCheck, DispatchAcquireResources,
     DispatchSend, DispatchBreak
<1>6. ASSUME NEW w \in WorkerIds, Worker(w)
      PROVE  UNCHANGED <<delivered, requested, outcome>>
  BY <1>6 DEF Worker, WorkerReceive, WorkerExit, WorkerCheck, WorkerDefer,
     WorkerAdmit, WorkerAcquire, WorkerOperate, WorkerRefuse, WorkerFinish,
     WorkerSend, WorkerAbandon
<1>7. CASE DiscardWork \/ Terminated \/ UNCHANGED vars
  BY <1>3, <1>7 DEF DiscardWork, Terminated, vars
<1>8. CASE Cancel
  <2>1. /\ outcome = "running" /\ ~requested /\ requested' = TRUE
        /\ UNCHANGED <<delivered, outcome>>
    BY <1>8 DEF Cancel, OutcomeInv, CoordinatorInv
  <2>2. Sequential!RequestCancel
    BY <1>1, <2>1 DEF Sequential!RequestCancel, verdicts
  <2> QED
    BY <2>2 DEF Sequential!DeliveryNext
<1>9. CASE CoordinatorDeliver
  <2>1. /\ cpc = "sink" /\ plan[next].deliver = "ok" /\ outcome = "running"
        /\ delivered' = Append(delivered, next) /\ UNCHANGED <<requested, outcome>>
    BY <1>9 DEF CoordinatorDeliver, OutcomeInv, CoordinatorInv
  <2>2. next <= N /\ next \in AtSink
    BY <1>2, <2>1 DEF TypeOK, AtSink, Items
  <2>3. Verdict(next) = "ok"
    BY <2>1, <2>2 DEF ChargeInv, Settled, OutcomeInv, CoordinatorInv
  <2>4. Len(delivered) < N /\ Len(delivered) + 1 = next
    BY <1>2, <2>2
  <2>5. Sequential!DeliverNext
    BY <1>1, <1>4, <2>1, <2>2, <2>3, <2>4 DEF Sequential!DeliverNext, verdicts
  <2> QED
    BY <2>5 DEF Sequential!DeliveryNext
<1>10. CASE CoordinatorReturn
  <2>1. /\ cpc = "discard" /\ outcome = "running"
        /\ outcome' = IF next > N THEN "ok" ELSE terminal
        /\ UNCHANGED <<delivered, requested>>
    BY <1>10 DEF CoordinatorReturn, OutcomeInv, CoordinatorInv
  <2>2. CASE next > N
    <3>1. Len(delivered) = N /\ outcome' = "ok"
      BY <1>2, <2>1, <2>2
    <3>2. Sequential!ReturnOk
      BY <1>1, <2>1, <3>1 DEF Sequential!ReturnOk, verdicts
    <3> QED
      BY <3>2 DEF Sequential!DeliveryNext
  <2>3. CASE ~(next > N)
    <3>1. /\ Len(delivered) < N /\ outcome' = terminal /\ terminal # "none"
          /\ next <= N
      BY <1>2, <2>1, <2>3 DEF OutcomeInv, CoordinatorInv
    <3>2. CASE terminal = "cancelled" /\ requested
      <4>1. Sequential!ReturnCancelled
        BY <1>1, <2>1, <3>1, <3>2 DEF Sequential!ReturnCancelled, verdicts
      <4> QED
        BY <4>1 DEF Sequential!DeliveryNext
    <3>3. CASE terminal = Verdict(next) /\ Verdict(next) # "ok"
      <4>1. Sequential!ReturnError
        BY <1>1, <1>4, <2>1, <3>1, <3>3 DEF Sequential!ReturnError, verdicts
      <4> QED
        BY <4>1 DEF Sequential!DeliveryNext
    <3> QED
      BY <3>1, <3>2, <3>3 DEF OutcomeInv, TerminalJustified
  <2> QED
    BY <2>2, <2>3
<1>11. CASE CoordinatorReceive \/ CoordinatorLeave \/ CoordinatorDrain
            \/ CoordinatorFail \/ CoordinatorCancel \/ CoordinatorDropPending
            \/ CoordinatorClose \/ CoordinatorDiscardResult
  BY <1>3, <1>11 DEF CoordinatorReceive, CoordinatorLeave, CoordinatorDrain,
     CoordinatorFail, CoordinatorCancel, CoordinatorDropPending,
     CoordinatorClose, CoordinatorDiscardResult
<1> QED
  BY <1>3, <1>5, <1>6, <1>7, <1>8, <1>9, <1>10, <1>11 DEF Next, Coordinator

\* Whatever the threads do, the caller sees the items delivered one after
\* the other in ordinal order, the first error or the cancellation it asked
\* for: Pipeline implements Delivery.
THEOREM ImplementsDelivery == Spec => SequentialDelivery
<1>1. TypeOK /\ OwnInv /\ ChargeInv /\ OutcomeInv /\ [Next]_vars
         => [Sequential!DeliveryNext]_(Sequential!deliveryVars)
  BY NextDelivers
<1>2. Spec => [](TypeOK /\ OwnInv /\ ChargeInv /\ OutcomeInv)
  BY Charging, OutcomeHolds, PTL
<1> QED
  BY <1>1, <1>2, InitDelivers, PTL
  DEF Spec, SequentialDelivery, Sequential!DeliverySafety
=============================================================================
