------------------------------ MODULE Pipeline ------------------------------
(***************************************************************************)
(* One call of Pipeline::execute after its work has been collected, sorted *)
(* and validated (pipeline.rs).  Three kinds of threads run concurrently:  *)
(*                                                                         *)
(*   - the dispatcher (dispatch_work) takes a window permit and a byte     *)
(*     reservation for each item in ordinal order and sends the item to    *)
(*     the workers over a bounded channel;                                 *)
(*   - the workers (worker_loop) prepare items, in any order, and send the *)
(*     outputs to the coordinator over a second bounded channel; a route   *)
(*     that turns out to need more bytes acquires them in the middle of    *)
(*     the preparation (PrepareContext::with_resources);                   *)
(*   - the coordinator (coordinate_results), on the caller's thread, puts  *)
(*     outputs back in ordinal order and hands them to the sink.           *)
(*                                                                         *)
(* Every step between two accesses to shared state is one action.  A wait  *)
(* on a condition variable or a channel is a guard: a poll that finds      *)
(* nothing changed is a stuttering step.  Callbacks of the caller (prepare *)
(* and the sink) are described by `plan' and always return.                *)
(***************************************************************************)
EXTENDS Integers, Sequences, FiniteSets

CONSTANTS
    N,          \* number of work items; item i is the i-th smallest ordinal
    Workers,    \* ExecutionLimits.workers
    Depth,      \* ExecutionLimits.delivery_queue_depth
    Lookahead,  \* ExecutionLimits.dispatch_lookahead
    Limit,      \* the three byte limits of ExecutionLimits
    Plans,      \* the executions considered: what each item asks for and does
    MayCancel   \* whether somebody else holds and may cancel the token

Items == 1 .. N

\* The byte budgets of ResourceWeights.
Dims == {"source", "scratch", "prepared"}

Weights == [Dims -> Nat]

NoWeights == [d \in Dims |-> 0]

\* What the caller's callbacks make of one item: the weights it is scheduled
\* with, the total the preparation asks with_resources for, the size of the
\* prepared value, and whether the two callbacks succeed.
ItemPlan == [weights : Weights, required : Weights, bytes : Nat,
             prepare : {"ok", "prepare"}, deliver : {"ok", "delivery"}]

\* The result of an item: not there yet, prepared, or an error.
Results == {"none", "ok", "prepare", "limit", "cancelled"}

\* Limits are validated to be positive; collected work is never empty here
\* (execute returns early) and validate_work has rejected every item whose
\* scheduled weights exceed a limit.
ASSUME LimitsAssumption ==
    /\ N \in Nat \ {0}
    /\ Workers \in Nat \ {0}
    /\ Depth \in Nat \ {0}
    /\ Lookahead \in Nat \ {0}
    /\ Limit \in [Dims -> Nat \ {0}]
    /\ MayCancel \in BOOLEAN

ASSUME ValidatedWork ==
    \A p \in Plans :
        /\ p \in [Items -> ItemPlan]
        /\ \A i \in Items, d \in Dims : p[i].weights[d] <= Limit[d]

VARIABLES
    plan,         \* the execution under consideration, fixed
    cancelled,    \* the shared cancellation token
    requested,    \* the token was cancelled from outside
    used, peaks,  \* ResourceState
    windowUsed,   \* DispatchState.used
    window,       \* the items that own a DispatchPermit
    permit,       \* the ResourcePermit an item was dispatched with
    extra,        \* the ResourcePermit with_resources added, with its split-off
                  \* prepared part
    reserved,     \* PrepareContext.reserved
    result,       \* the item's result so far: "none", "ok" or an error
    dpc, dnext,   \* the dispatcher's position and its current item
    workQueue,    \* the bounded work channel
    wpc, witem,   \* each worker's position and its current item
    resultQueue,  \* the bounded result channel
    cpc, next,    \* the coordinator's position and next_index
    pending,      \* outputs that arrived ahead of their turn
    terminal,     \* terminal_error
    delivered,    \* the items the sink accepted, in order
    outcome       \* "running", or what execute returned

budgetVars == <<used, peaks, permit, extra>>
windowVars == <<windowUsed, window>>
dispatcherVars == <<dpc, dnext>>
workerVars == <<wpc, witem>>
itemVars == <<reserved, result>>
coordinatorVars == <<cpc, next, pending, terminal, delivered, outcome>>
tokenVars == <<cancelled, requested>>
vars == <<plan, tokenVars, budgetVars, windowVars, itemVars, dispatcherVars,
          workQueue, workerVars, resultQueue, coordinatorVars>>

-----------------------------------------------------------------------------
(* Weights *)

\* Mutant of Fits: bytes in use are forgotten.
FitsBareLimit(taken, asked, limit) == \A d \in Dims : asked[d] <= limit[d]

\* fits: the requested bytes are within what the limit leaves, per dimension.
Fits(taken, asked, limit) == \A d \in Dims : asked[d] <= limit[d] - taken[d]

AddWeights(left, right) == [d \in Dims |-> left[d] + right[d]]

\* subtract_weights saturates at zero.
SubtractWeights(left, right) ==
    [d \in Dims |-> IF left[d] > right[d] THEN left[d] - right[d] ELSE 0]

MaxWeights(left, right) ==
    [d \in Dims |-> IF left[d] > right[d] THEN left[d] ELSE right[d]]

\* Only the prepared bytes of some weights, and only the other two.
PreparedPart(weights) == [weights EXCEPT !["source"] = 0, !["scratch"] = 0]
WithoutPrepared(weights) == [weights EXCEPT !["prepared"] = 0]

\* Mutant of RetainPrepared: nothing is retained for the delivery.
RetainNothing(weights, bytes) == NoWeights

\* ResourcePermit::retain_prepared: what is left of a permit that keeps at
\* most the given number of prepared bytes.
RetainPrepared(weights, bytes) ==
    [NoWeights EXCEPT !["prepared"] =
        IF weights["prepared"] < bytes THEN weights["prepared"] ELSE bytes]

-----------------------------------------------------------------------------
(* The budget, the window and the channels *)

WorkerCount ==
    LET fewer == IF Workers < Lookahead THEN Workers ELSE Lookahead
    IN  IF fewer < N THEN fewer ELSE N

WorkerIds == 1 .. WorkerCount

\* Where a worker can be in its loop.
WorkerSteps == {"receive", "check", "defer", "admit", "wait", "operate",
                "finish", "send", "done"}

\* Mutant of ShrinkPermits: the addition of with_resources is never returned.
ShrinkFirstPermitOnly(i, p, e) ==
    /\ used' = SubtractWeights(used, SubtractWeights(permit[i], p))
    /\ permit' = [permit EXCEPT ![i] = p]
    /\ extra' = [extra EXCEPT ![i] = e]
    /\ UNCHANGED peaks

\* ResourceBudget::release, for an item whose permits shrink to p and e.
ShrinkPermits(i, p, e) ==
    /\ used' = SubtractWeights(
                  SubtractWeights(used, SubtractWeights(permit[i], p)),
                  SubtractWeights(extra[i], e))
    /\ permit' = [permit EXCEPT ![i] = p]
    /\ extra' = [extra EXCEPT ![i] = e]
    /\ UNCHANGED peaks

\* The locked part of ResourceBudget::acquire, once the request fits.
TakeBytes(asked) ==
    /\ used' = AddWeights(used, asked)
    /\ peaks' = MaxWeights(peaks, used')

\* Mutant of ReleaseWindow: the permit goes without telling the window.
ForgetWindow(i) == window' = window \ {i} /\ UNCHANGED windowUsed

\* DispatchPermit::drop.
ReleaseWindow(i) ==
    /\ windowUsed' = IF windowUsed > 0 THEN windowUsed - 1 ELSE 0
    /\ window' = window \ {i}

\* Mutant of DropItem: the bytes stay reserved.
DropWindowOnly(i) == ReleaseWindow(i) /\ UNCHANGED <<used, peaks, permit, extra>>

\* Dropping everything an item owns.
DropItem(i) == ShrinkPermits(i, NoWeights, NoWeights) /\ ReleaseWindow(i)

\* A receiver sees disconnection when every sender is gone, and the reverse.
WorkersGone == \A w \in WorkerIds : wpc[w] = "done"
ReceiverGone == cpc \in {"discard", "returned"}

-----------------------------------------------------------------------------
(* The dispatcher: dispatch_work *)

\* Mutant of DispatchNext: the loop does not end with the work.
DispatchPastTheEnd ==
    /\ dpc = "next" /\ ~cancelled
    /\ dpc' = "window"
    /\ UNCHANGED <<plan, tokenVars, budgetVars, windowVars, itemVars, dnext,
                   workQueue, workerVars, resultQueue, coordinatorVars>>

\* The loop head and the first check inside DispatchWindow::acquire.
DispatchNext ==
    /\ dpc = "next" /\ dnext <= N /\ ~cancelled
    /\ dpc' = "window"
    /\ UNCHANGED <<plan, tokenVars, budgetVars, windowVars, itemVars, dnext,
                   workQueue, workerVars, resultQueue, coordinatorVars>>

\* The end of the work, or a break before anything was acquired: at the loop
\* head, or when a wait for the window times out and sees the cancellation.
DispatchStop ==
    /\ \/ dpc = "next" /\ (dnext > N \/ cancelled)
       \/ dpc = "window" /\ cancelled /\ windowUsed >= Lookahead
    /\ dpc' = "done"
    /\ UNCHANGED <<plan, tokenVars, budgetVars, windowVars, itemVars, dnext,
                   workQueue, workerVars, resultQueue, coordinatorVars>>

\* Mutant of DispatchAcquireWindow: off by one.
DispatchAcquireOneMore ==
    /\ dpc = "window" /\ windowUsed <= Lookahead
    /\ windowUsed' = windowUsed + 1
    /\ window' = window \cup {dnext}
    /\ dpc' = "check"
    /\ UNCHANGED <<plan, tokenVars, budgetVars, itemVars, dnext, workQueue,
                   workerVars, resultQueue, coordinatorVars>>

DispatchAcquireWindow ==
    /\ dpc = "window" /\ windowUsed < Lookahead
    /\ windowUsed' = windowUsed + 1
    /\ window' = window \cup {dnext}
    /\ dpc' = "check"
    /\ UNCHANGED <<plan, tokenVars, budgetVars, itemVars, dnext, workQueue,
                   workerVars, resultQueue, coordinatorVars>>

\* ResourceBudget::acquire tests the token, and the request against the bare
\* limit, before it looks at the budget.  The second test cannot fail here:
\* validate_work has already made it.
DispatchCheck ==
    /\ dpc = "check" /\ ~cancelled
    /\ Fits(NoWeights, plan[dnext].weights, Limit)
    /\ dpc' = "resources"
    /\ UNCHANGED <<plan, tokenVars, budgetVars, windowVars, itemVars, dnext,
                   workQueue, workerVars, resultQueue, coordinatorVars>>

DispatchAcquireResources ==
    /\ dpc = "resources" /\ Fits(used, plan[dnext].weights, Limit)
    /\ TakeBytes(plan[dnext].weights)
    /\ permit' = [permit EXCEPT ![dnext] = plan[dnext].weights]
    /\ dpc' = "send"
    /\ UNCHANGED <<plan, tokenVars, extra, windowVars, itemVars, dnext,
                   workQueue, workerVars, resultQueue, coordinatorVars>>

DispatchSend ==
    /\ dpc = "send" /\ ~WorkersGone /\ Len(workQueue) < WorkerCount
    /\ workQueue' = Append(workQueue, dnext)
    /\ dnext' = dnext + 1
    /\ dpc' = "next"
    /\ UNCHANGED <<plan, tokenVars, budgetVars, windowVars, itemVars,
                   workerVars, resultQueue, coordinatorVars>>

\* A break that drops what the current item already owns.
DispatchBreak ==
    /\ \/ dpc = "check" /\ cancelled
       \/ dpc = "resources" /\ cancelled
          /\ ~Fits(used, plan[dnext].weights, Limit)
       \/ dpc = "send" /\ WorkersGone
    /\ DropItem(dnext)
    /\ dpc' = "done"
    /\ UNCHANGED <<plan, tokenVars, itemVars, dnext, workQueue, workerVars,
                   resultQueue, coordinatorVars>>

Dispatcher ==
    \/ DispatchNext \/ DispatchStop \/ DispatchAcquireWindow \/ DispatchCheck
    \/ DispatchAcquireResources \/ DispatchSend \/ DispatchBreak

-----------------------------------------------------------------------------
(* A worker: worker_loop, PrepareContext::with_resources *)

\* The bytes a preparation still misses when it asks for plan[i].required.
Missing(i) == SubtractWeights(plan[i].required, reserved[i])

WorkerReceive(w) ==
    /\ wpc[w] = "receive" /\ workQueue # << >>
    /\ witem' = [witem EXCEPT ![w] = Head(workQueue)]
    /\ workQueue' = Tail(workQueue)
    /\ reserved' = [reserved EXCEPT ![Head(workQueue)] = permit[Head(workQueue)]]
    /\ wpc' = [wpc EXCEPT ![w] = "check"]
    /\ UNCHANGED <<plan, tokenVars, budgetVars, windowVars, result,
                   dispatcherVars, resultQueue, coordinatorVars>>

\* recv fails once the channel is empty and the dispatcher is gone.
WorkerExit(w) ==
    /\ wpc[w] = "receive" /\ workQueue = << >> /\ dpc = "done"
    /\ wpc' = [wpc EXCEPT ![w] = "done"]
    /\ UNCHANGED <<plan, tokenVars, budgetVars, windowVars, itemVars,
                   dispatcherVars, workQueue, witem, resultQueue,
                   coordinatorVars>>

\* The token is tested once more before prepare is called.
WorkerCheck(w) ==
    /\ wpc[w] = "check" /\ ~cancelled
    /\ wpc' = [wpc EXCEPT ![w] =
                  IF Missing(witem[w]) = NoWeights THEN "operate" ELSE "defer"]
    /\ UNCHANGED <<plan, tokenVars, budgetVars, windowVars, itemVars,
                   dispatcherVars, workQueue, witem, resultQueue,
                   coordinatorVars>>

\* with_resources on a shortfall.  When prepared bytes are missing, the ones
\* already held are given back first and the whole amount is asked for.  A
\* preparation asks once, so nothing has been promoted before.
WorkerDefer(w) ==
    LET i == witem[w] IN
    /\ wpc[w] = "defer"
    /\ IF Missing(i)["prepared"] > 0
       THEN /\ ShrinkPermits(i, WithoutPrepared(permit[i]), extra[i])
            /\ reserved' = [reserved EXCEPT ![i] = WithoutPrepared(@)]
       ELSE UNCHANGED <<budgetVars, reserved>>
    /\ wpc' = [wpc EXCEPT ![w] = "admit"]
    /\ UNCHANGED <<plan, tokenVars, windowVars, result, dispatcherVars,
                   workQueue, witem, resultQueue, coordinatorVars>>

\* ResourceBudget::acquire on the worker's side: its tests, then its wait.
WorkerAdmit(w) ==
    /\ wpc[w] = "admit" /\ ~cancelled
    /\ Fits(NoWeights, Missing(witem[w]), Limit)
    /\ wpc' = [wpc EXCEPT ![w] = "wait"]
    /\ UNCHANGED <<plan, tokenVars, budgetVars, windowVars, itemVars,
                   dispatcherVars, workQueue, witem, resultQueue,
                   coordinatorVars>>

WorkerAcquire(w) ==
    LET i == witem[w] IN
    /\ wpc[w] = "wait" /\ Fits(used, Missing(i), Limit)
    /\ TakeBytes(Missing(i))
    /\ extra' = [extra EXCEPT ![i] = Missing(i)]
    /\ reserved' = [reserved EXCEPT ![i] = MaxWeights(@, plan[i].required)]
    /\ wpc' = [wpc EXCEPT ![w] = "operate"]
    /\ UNCHANGED <<plan, tokenVars, permit, windowVars, result,
                   dispatcherVars, workQueue, witem, resultQueue,
                   coordinatorVars>>

\* The operation itself.  When it succeeds only the prepared bytes of the
\* addition outlive it; when it fails the whole addition is given back.  The
\* saved value of reserved equals the permit of the dispatch at this point.
WorkerOperate(w) ==
    LET i == witem[w] IN
    /\ wpc[w] = "operate"
    /\ \/ /\ plan[i].prepare = "ok"
          /\ result' = [result EXCEPT ![i] = "ok"]
          /\ ShrinkPermits(i, permit[i], PreparedPart(extra[i]))
          /\ reserved' = [reserved EXCEPT ![i] =
                [permit[i] EXCEPT !["prepared"] = reserved[i]["prepared"]]]
       \/ \E e \in {plan[i].prepare} \cup {"cancelled"} :
             /\ e # "ok" /\ (e = "cancelled" => cancelled)
             /\ result' = [result EXCEPT ![i] = e]
             /\ ShrinkPermits(i, permit[i], NoWeights)
             /\ reserved' = [reserved EXCEPT ![i] = permit[i]]
    /\ wpc' = [wpc EXCEPT ![w] = "finish"]
    /\ UNCHANGED <<plan, tokenVars, windowVars, dispatcherVars, workQueue,
                   witem, resultQueue, coordinatorVars>>

\* Mutant of WorkerRefuse: the wait for bytes does not poll the token.
WorkerRefuseUnpolled(w) ==
    /\ wpc[w] \in {"check", "admit"} /\ cancelled
    /\ result' = [result EXCEPT ![witem[w]] = "cancelled"]
    /\ wpc' = [wpc EXCEPT ![w] = "finish"]
    /\ UNCHANGED <<plan, tokenVars, budgetVars, windowVars, reserved,
                   dispatcherVars, workQueue, witem, resultQueue,
                   coordinatorVars>>

\* The ways a preparation ends without its operation having run.
WorkerRefuse(w) ==
    LET i == witem[w] IN
    /\ \/ /\ \/ wpc[w] \in {"check", "admit"}
             \/ wpc[w] = "wait" /\ ~Fits(used, Missing(i), Limit)
          /\ cancelled
          /\ result' = [result EXCEPT ![i] = "cancelled"]
       \/ /\ wpc[w] = "admit" /\ ~cancelled
          /\ ~Fits(NoWeights, Missing(i), Limit)
          /\ result' = [result EXCEPT ![i] = "limit"]
    /\ wpc' = [wpc EXCEPT ![w] = "finish"]
    /\ UNCHANGED <<plan, tokenVars, budgetVars, windowVars, reserved,
                   dispatcherVars, workQueue, witem, resultQueue,
                   coordinatorVars>>

\* The actual size is compared with the reservation; a good output keeps
\* exactly its own bytes, from the first permit and then from the addition,
\* and a bad one keeps none.  The window permit stays with the output.
WorkerFinish(w) ==
    LET i == witem[w]
        kept == RetainPrepared(permit[i], plan[i].bytes)
    IN
    /\ wpc[w] = "finish"
    /\ IF result[i] = "ok" /\ plan[i].bytes <= reserved[i]["prepared"]
       THEN /\ ShrinkPermits(i, kept,
                  RetainPrepared(extra[i], plan[i].bytes - kept["prepared"]))
            /\ UNCHANGED result
       ELSE /\ ShrinkPermits(i, NoWeights, NoWeights)
            /\ result' = [result EXCEPT ![i] = IF @ = "ok" THEN "limit" ELSE @]
    /\ wpc' = [wpc EXCEPT ![w] = "send"]
    /\ UNCHANGED <<plan, tokenVars, windowVars, reserved, dispatcherVars,
                   workQueue, witem, resultQueue, coordinatorVars>>

WorkerSend(w) ==
    /\ wpc[w] = "send" /\ ~ReceiverGone /\ Len(resultQueue) < Depth
    /\ resultQueue' = Append(resultQueue, witem[w])
    /\ wpc' = [wpc EXCEPT ![w] = "receive"]
    /\ UNCHANGED <<plan, tokenVars, budgetVars, windowVars, itemVars,
                   dispatcherVars, workQueue, witem, coordinatorVars>>

\* send fails: the output comes back, is dropped, and the worker leaves.
WorkerAbandon(w) ==
    /\ wpc[w] = "send" /\ ReceiverGone
    /\ DropItem(witem[w])
    /\ wpc' = [wpc EXCEPT ![w] = "done"]
    /\ UNCHANGED <<plan, tokenVars, itemVars, dispatcherVars, workQueue, witem,
                   resultQueue, coordinatorVars>>

Worker(w) ==
    \/ WorkerReceive(w) \/ WorkerExit(w) \/ WorkerCheck(w) \/ WorkerDefer(w)
    \/ WorkerAdmit(w) \/ WorkerAcquire(w) \/ WorkerOperate(w)
    \/ WorkerRefuse(w) \/ WorkerFinish(w) \/ WorkerSend(w)
    \/ WorkerAbandon(w)

\* Work still queued when the last receiver goes is dropped with the channel.
DiscardWork ==
    /\ WorkersGone /\ workQueue # << >>
    /\ DropItem(Head(workQueue))
    /\ workQueue' = Tail(workQueue)
    /\ UNCHANGED <<plan, tokenVars, itemVars, dispatcherVars, workerVars,
                   resultQueue, coordinatorVars>>

-----------------------------------------------------------------------------
(* The coordinator: coordinate_results, deliver_output *)

\* Mutant of CoordinatorReceive: an error stops everybody as soon as it
\* arrives, before the items ahead of it have been delivered.
CoordinatorReceiveFailFast ==
    /\ cpc = "receive" /\ next <= N /\ resultQueue # << >>
    /\ pending' = pending \cup {Head(resultQueue)}
    /\ cancelled' = (cancelled \/ result[Head(resultQueue)] # "ok")
    /\ resultQueue' = Tail(resultQueue)
    /\ cpc' = "drain"
    /\ UNCHANGED <<plan, requested, budgetVars, windowVars, itemVars,
                   dispatcherVars, workQueue, workerVars, next, terminal,
                   delivered, outcome>>

\* An output is put in the reorder buffer.  The coordinator treats a second
\* output of one ordinal as an error; here the set would only absorb it, and
\* DeterministicOutcome and PermitsConserved exclude it.
CoordinatorReceive ==
    /\ cpc = "receive" /\ next <= N /\ resultQueue # << >>
    /\ pending' = pending \cup {Head(resultQueue)}
    /\ resultQueue' = Tail(resultQueue)
    /\ cpc' = "drain"
    /\ UNCHANGED <<plan, tokenVars, budgetVars, windowVars, itemVars,
                   dispatcherVars, workQueue, workerVars, next, terminal,
                   delivered, outcome>>

\* The loop ends: everything was delivered, or every worker is gone.
CoordinatorLeave ==
    /\ cpc = "receive"
    /\ next > N \/ (resultQueue = << >> /\ WorkersGone)
    /\ cpc' = "close"
    /\ UNCHANGED <<plan, tokenVars, budgetVars, windowVars, itemVars,
                   dispatcherVars, workQueue, workerVars, resultQueue, next,
                   pending, terminal, delivered, outcome>>

\* Mutant of CoordinatorDrain: the sink is called whatever the result is.
CoordinatorDrainUnchecked ==
    /\ cpc = "drain"
    /\ IF next \in pending
       THEN pending' = pending \ {next} /\ cpc' = "sink"
       ELSE cpc' = "receive" /\ UNCHANGED pending
    /\ UNCHANGED <<plan, tokenVars, budgetVars, windowVars, itemVars,
                   dispatcherVars, workQueue, workerVars, resultQueue, next,
                   terminal, delivered, outcome>>

\* The next output in ordinal order, if it has arrived.
CoordinatorDrain ==
    /\ cpc = "drain"
    /\ IF next \in pending
       THEN /\ pending' = pending \ {next}
            /\ cpc' = IF result[next] = "ok" THEN "sink" ELSE "error"
       ELSE /\ cpc' = "receive"
            /\ UNCHANGED pending
    /\ UNCHANGED <<plan, tokenVars, budgetVars, windowVars, itemVars,
                   dispatcherVars, workQueue, workerVars, resultQueue, next,
                   terminal, delivered, outcome>>

\* The sink accepts the item; only now are its bytes and its place released.
CoordinatorDeliver ==
    /\ cpc = "sink" /\ plan[next].deliver = "ok"
    /\ delivered' = Append(delivered, next)
    /\ DropItem(next)
    /\ next' = next + 1
    /\ cpc' = "drain"
    /\ UNCHANGED <<plan, tokenVars, itemVars, dispatcherVars, workQueue,
                   workerVars, resultQueue, pending, terminal, outcome>>

\* The output holds an error, or the sink returns one; the sink is given the
\* token and may answer a cancellation with the cancellation error.
CoordinatorFail ==
    /\ \/ cpc = "error" /\ terminal' = result[next]
       \/ /\ cpc = "sink" /\ plan[next].deliver # "ok"
          /\ terminal' = plan[next].deliver
       \/ cpc = "sink" /\ cancelled /\ terminal' = "cancelled"
    /\ DropItem(next)
    /\ cpc' = "cancel"
    /\ UNCHANGED <<plan, tokenVars, itemVars, dispatcherVars, workQueue,
                   workerVars, resultQueue, next, pending, delivered, outcome>>

CoordinatorCancel ==
    /\ cpc = "cancel"
    /\ cancelled' = TRUE
    /\ cpc' = "close"
    /\ UNCHANGED <<plan, requested, budgetVars, windowVars, itemVars,
                   dispatcherVars, workQueue, workerVars, resultQueue, next,
                   pending, terminal, delivered, outcome>>

\* drop(pending), one output after the other.
CoordinatorDropPending ==
    /\ cpc = "close"
    /\ \E i \in pending :
         /\ \A j \in pending : i <= j
         /\ pending' = pending \ {i}
         /\ DropItem(i)
    /\ UNCHANGED <<plan, tokenVars, itemVars, dispatcherVars, workQueue,
                   workerVars, resultQueue, cpc, next, terminal, delivered,
                   outcome>>

\* Mutant of CoordinatorClose: the reorder buffer is not dropped.
CoordinatorCloseEarly ==
    /\ cpc = "close"
    /\ IF terminal = "none" /\ next <= N
       THEN cancelled' = TRUE /\ terminal' = "cancelled"
       ELSE UNCHANGED <<cancelled, terminal>>
    /\ cpc' = "discard"
    /\ UNCHANGED <<plan, requested, budgetVars, windowVars, itemVars,
                   dispatcherVars, workQueue, workerVars, resultQueue, next,
                   pending, delivered, outcome>>

\* Without an error of its own an incomplete execution was cancelled; then
\* the result receiver is dropped.
CoordinatorClose ==
    /\ cpc = "close" /\ pending = {}
    /\ IF terminal = "none" /\ next <= N
       THEN cancelled' = TRUE /\ terminal' = "cancelled"
       ELSE UNCHANGED <<cancelled, terminal>>
    /\ cpc' = "discard"
    /\ UNCHANGED <<plan, requested, budgetVars, windowVars, itemVars,
                   dispatcherVars, workQueue, workerVars, resultQueue, next,
                   pending, delivered, outcome>>

CoordinatorDiscardResult ==
    /\ cpc = "discard" /\ resultQueue # << >>
    /\ DropItem(Head(resultQueue))
    /\ resultQueue' = Tail(resultQueue)
    /\ UNCHANGED <<plan, tokenVars, itemVars, dispatcherVars, workQueue,
                   workerVars, coordinatorVars>>

\* Mutant of CoordinatorReturn: a cancelled token hides the error behind it.
CoordinatorReturnToken ==
    /\ cpc = "discard" /\ resultQueue = << >>
    /\ dpc = "done" /\ WorkersGone /\ workQueue = << >>
    /\ outcome' = IF next > N THEN "ok"
                  ELSE IF cancelled THEN "cancelled" ELSE terminal
    /\ cpc' = "returned"
    /\ UNCHANGED <<plan, tokenVars, budgetVars, windowVars, itemVars,
                   dispatcherVars, workQueue, workerVars, resultQueue, next,
                   pending, terminal, delivered>>

\* thread::scope joins every thread before execute returns.
CoordinatorReturn ==
    /\ cpc = "discard" /\ resultQueue = << >>
    /\ dpc = "done" /\ WorkersGone /\ workQueue = << >>
    /\ outcome' = IF next > N THEN "ok" ELSE terminal
    /\ cpc' = "returned"
    /\ UNCHANGED <<plan, tokenVars, budgetVars, windowVars, itemVars,
                   dispatcherVars, workQueue, workerVars, resultQueue, next,
                   pending, terminal, delivered>>

Coordinator ==
    \/ CoordinatorReceive \/ CoordinatorLeave \/ CoordinatorDrain
    \/ CoordinatorDeliver \/ CoordinatorFail \/ CoordinatorCancel
    \/ CoordinatorDropPending \/ CoordinatorClose
    \/ CoordinatorDiscardResult \/ CoordinatorReturn

-----------------------------------------------------------------------------
(* The token and the whole system *)

\* CancellationToken::cancel by the caller, the sink or a preparation.
Cancel ==
    /\ MayCancel /\ cpc # "returned" /\ ~requested
    /\ cancelled' = TRUE
    /\ requested' = TRUE
    /\ UNCHANGED <<plan, budgetVars, windowVars, itemVars, dispatcherVars,
                   workQueue, workerVars, resultQueue, coordinatorVars>>

Init ==
    /\ plan \in Plans
    /\ cancelled = FALSE /\ requested = FALSE
    /\ used = NoWeights /\ peaks = NoWeights
    /\ windowUsed = 0 /\ window = {}
    /\ permit = [i \in Items |-> NoWeights]
    /\ extra = [i \in Items |-> NoWeights]
    /\ reserved = [i \in Items |-> NoWeights]
    /\ result = [i \in Items |-> "none"]
    /\ dpc = "next" /\ dnext = 1
    /\ workQueue = << >> /\ resultQueue = << >>
    /\ wpc = [w \in WorkerIds |-> "receive"]
    /\ witem = [w \in WorkerIds |-> 1]
    /\ cpc = "receive" /\ next = 1 /\ pending = {}
    /\ terminal = "none" /\ delivered = << >> /\ outcome = "running"

\* A finished execution stutters.
Terminated == cpc = "returned" /\ UNCHANGED vars

Next ==
    \/ Dispatcher
    \/ \E w \in WorkerIds : Worker(w)
    \/ DiscardWork
    \/ Coordinator
    \/ Cancel
    \/ Terminated

Spec == Init /\ [][Next]_vars

\* The operating system runs every thread that can run.  Nothing obliges
\* anybody to cancel.
Fairness ==
    /\ WF_vars(Dispatcher)
    /\ \A w \in WorkerIds : WF_vars(Worker(w))
    /\ WF_vars(DiscardWork)
    /\ WF_vars(Coordinator)

FairSpec == Spec /\ Fairness

-----------------------------------------------------------------------------
(* What the execution promises: its properties *)

\* The threads are still exchanging work: the coordinator has not left its
\* loop.
Flowing == cpc \in {"receive", "drain", "sink", "error"}

\* What becomes of item i when nobody cancels, from its plan alone: the first
\* of the tests of with_resources, the preparation, the size check and the
\* sink that it does not pass.
Verdict(i) ==
    LET p == plan[i]
        short == SubtractWeights(p.required, p.weights)
        asked == IF short["prepared"] > 0
                 THEN SubtractWeights(p.required, WithoutPrepared(p.weights))
                 ELSE short
    IN  IF short # NoWeights /\ ~Fits(NoWeights, asked, Limit) THEN "limit"
        ELSE IF p.prepare # "ok" THEN p.prepare
        ELSE IF p.bytes > MaxWeights(p.weights, p.required)["prepared"] THEN "limit"
        ELSE p.deliver

\* Every variable of the execution has its type.
TypeOK ==
    /\ plan \in Plans
    /\ cancelled \in BOOLEAN /\ requested \in BOOLEAN
    /\ used \in Weights /\ peaks \in Weights
    /\ windowUsed \in Nat /\ window \subseteq Items
    /\ permit \in [Items -> Weights] /\ extra \in [Items -> Weights]
    /\ reserved \in [Items -> Weights]
    /\ result \in [Items -> Results]
    /\ dpc \in {"next", "window", "check", "resources", "send", "done"}
    /\ dnext \in 1 .. N + 1 /\ (dnext = N + 1 => dpc \in {"next", "done"})
    /\ workQueue \in Seq(Items) /\ resultQueue \in Seq(Items)
    /\ wpc \in [WorkerIds -> WorkerSteps]
    /\ witem \in [WorkerIds -> Items]
    /\ cpc \in {"receive", "drain", "sink", "error", "cancel", "close",
                "discard", "returned"}
    /\ next \in 1 .. N + 1 /\ (next = N + 1 => cpc \notin {"sink", "error"})
    /\ pending \subseteq Items
    /\ terminal \in Results \cup {"delivery"}
    /\ delivered \in Seq(Items)
    /\ outcome \in Results \cup {"delivery", "running"}

\* No interleaving of dispatcher and workers takes the budget above a limit,
\* so that `limit - used' in fits never underflows, and the reported peaks
\* are bytes that were in use at once.
WithinLimits ==
    \A d \in Dims : used[d] <= peaks[d] /\ peaks[d] <= Limit[d]

\* The bytes of one dimension that live permits hold, one by one.
HeldBytes(d) == UNION {{i} \X (1 .. permit[i][d] + extra[i][d]) : i \in Items}

\* The budget is exactly what the live permits hold: no release is lost,
\* repeated or swallowed by a saturating subtraction, and the window counter
\* is the number of permits.
PermitsConserved ==
    /\ \A d \in Dims : used[d] = Cardinality(HeldBytes(d))
    /\ windowUsed = Cardinality(window)

\* ExecutionLimits.dispatch_lookahead: while the coordinator waits for an
\* ordinal, no item that many places ahead of it has been admitted.
SpeculationBounded ==
    Flowing => \A i \in window : next <= i /\ i < next + Lookahead

\* DeliveryQueueDepth reports `pending.len()' against dispatch_lookahead - 1:
\* once the coordinator has drained what it can, the reorder buffer is never
\* fuller than that.
PendingBounded == cpc # "drain" => Cardinality(pending) <= Lookahead - 1

\* An output on its way to the sink, or inside it, owns a place in the window
\* and exactly its own prepared bytes: the debug assertion of
\* OutputReservation::retain_prepared, and "maximum prepared bytes retained
\* before delivery completes" of ExecutionLimits.
OnTheWay(i) ==
    \/ \E k \in 1 .. Len(resultQueue) : resultQueue[k] = i
    \/ i \in pending
    \/ cpc = "sink" /\ i = next

OutputsCharged ==
    \A i \in Items : OnTheWay(i) =>
        /\ i \in window
        /\ AddWeights(permit[i], extra[i]) =
             [NoWeights EXCEPT !["prepared"] =
                 IF result[i] = "ok" THEN plan[i].bytes ELSE 0]

\* Whatever way an execution ends, the threads have given back every byte
\* and every place in the window when execute returns.
ReleasedOnReturn ==
    cpc = "returned" => used = NoWeights /\ windowUsed = 0 /\ window = {}

\* Unless somebody cancels, what execute returns and what the sink has seen
\* depend on the work alone, never on the scheduling: the items before the
\* first one that fails, and that item's error.
DeterministicOutcome ==
    outcome # "running" /\ ~requested =>
        /\ delivered = [i \in 1 .. next - 1 |-> i]
        /\ \A i \in 1 .. next - 1 : Verdict(i) = "ok"
        /\ outcome = IF next > N THEN "ok" ELSE Verdict(next)

\* A cancellation error is returned only if a cancellation was asked for: the
\* token the coordinator cancels to stop its own threads is never mistaken
\* for the caller's.
CancelledOnlyIfRequested == outcome = "cancelled" => requested

\* No preparation asks for bytes beyond those it was scheduled with, and none
\* asks for more prepared bytes.
NothingDeferred ==
    \A i \in Items :
        SubtractWeights(plan[i].required, plan[i].weights) = NoWeights
PreparedFixed ==
    \A i \in Items :
        plan[i].required["prepared"] <= plan[i].weights["prepared"]

\* execute returns on every schedule, although threads wait for bytes, for
\* the window and for two channels at once, when preparations do not grow
\* their prepared bytes: the ones the materializer schedules.
Terminates == PreparedFixed => <>(cpc = "returned")

\* When preparations have all their bytes from the start, execute returns
\* whatever dispatch_lookahead is, also with more items admitted than there
\* are workers.
PlainTerminates == NothingDeferred => <>(cpc = "returned")

\* Once the token is cancelled, execute returns: no thread keeps waiting for
\* bytes, for the window or for a channel.
CancelReturns == cancelled ~> (cpc = "returned")

\* The execution is a sequential delivery, as far as the caller can see.
Sequential == INSTANCE Delivery WITH verdict <- [i \in Items |-> Verdict(i)]

SequentialDelivery == Sequential!DeliverySafety
=============================================================================
