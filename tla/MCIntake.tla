------------------------------ MODULE MCIntake ------------------------------
(***************************************************************************)
(* Every submission of up to four small items for TLC.                    *)
(***************************************************************************)
EXTENDS Intake

SmallItems == [ordinal : {0, 5, 9}, weight : {0, 3, 4}]

SmallSubmissions == UNION {[1 .. n -> SmallItems] : n \in 0 .. 4}
=============================================================================
