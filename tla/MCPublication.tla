--------------------------- MODULE MCPublication ----------------------------
(* TLC instances of Publication. *)
EXTENDS Publication

CONSTANTS p1, p2, e1, e2

Sorts == [r \in 1..MaxRuns |-> IF r = 1 THEN e1 ELSE e2]
Stores == [p \in Publishers |-> IF p = p1 THEN {1, 2} ELSE {1}]
=============================================================================
