------------------------------- MODULE MCCache -------------------------------
(***************************************************************************)
(* Small caches for TLC: two contracts, payloads of equal length.          *)
(***************************************************************************)
EXTENDS Cache

CONSTANTS w1, w2, w3, r1, e1, c1, c2, old

\* Old and w2 are of contract "a", like the readers; w1 and w3 of "b".
TwoContracts ==
    [p \in Lookers \cup {Old} |-> IF p \in {w1, w3} THEN "b" ELSE "a"]

EqualLengths == [g \in Generations |-> 8]
=============================================================================
