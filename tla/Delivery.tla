------------------------------ MODULE Delivery ------------------------------
(***************************************************************************)
(* What Pipeline::execute promises its caller, with every thread, queue    *)
(* and budget left out: the work items are handed to the sink one after    *)
(* the other in ordinal order, and the first item that cannot be prepared  *)
(* or delivered decides the error that is returned.  The scheduling of the *)
(* workers cannot be seen.  Only a cancellation requested from outside can *)
(* end the execution early, and then the returned error says so.           *)
(***************************************************************************)
EXTENDS Naturals, Sequences

CONSTANT N          \* the number of work items, in ordinal order 1 .. N

VARIABLES
    verdict,    \* verdict[i]: what becomes of item i when nobody cancels
    delivered,  \* the items the sink has accepted, in the order it saw them
    requested,  \* the caller has cancelled the token
    outcome     \* "running", or what execute returned

deliveryVars == <<verdict, delivered, requested, outcome>>

Verdicts == {"ok", "prepare", "limit", "delivery"}

DeliveryInit ==
    /\ verdict \in [1 .. N -> Verdicts]
    /\ delivered = << >>
    /\ requested = FALSE
    /\ outcome = "running"

\* The sink accepts the next item.
DeliverNext ==
    /\ outcome = "running"
    /\ Len(delivered) < N
    /\ verdict[Len(delivered) + 1] = "ok"
    /\ delivered' = Append(delivered, Len(delivered) + 1)
    /\ UNCHANGED <<verdict, requested, outcome>>

\* Every item was delivered.
ReturnOk ==
    /\ outcome = "running"
    /\ Len(delivered) = N
    /\ outcome' = "ok"
    /\ UNCHANGED <<verdict, delivered, requested>>

\* The next item fails: its own error is returned.
ReturnError ==
    /\ outcome = "running"
    /\ Len(delivered) < N
    /\ verdict[Len(delivered) + 1] # "ok"
    /\ outcome' = verdict[Len(delivered) + 1]
    /\ UNCHANGED <<verdict, delivered, requested>>

\* The caller asks for cancellation; it takes effect at some later time.
RequestCancel ==
    /\ outcome = "running"
    /\ ~requested
    /\ requested' = TRUE
    /\ UNCHANGED <<verdict, delivered, outcome>>

ReturnCancelled ==
    /\ outcome = "running"
    /\ requested
    /\ Len(delivered) < N
    /\ outcome' = "cancelled"
    /\ UNCHANGED <<verdict, delivered, requested>>

DeliveryNext ==
    \/ DeliverNext
    \/ ReturnOk
    \/ ReturnError
    \/ RequestCancel
    \/ ReturnCancelled

DeliverySafety == DeliveryInit /\ [][DeliveryNext]_deliveryVars
=============================================================================
