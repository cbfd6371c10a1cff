----------------------------- MODULE MCJobQueue -----------------------------
(* TLC instances of JobQueue. *)
EXTENDS JobQueue

CONSTANTS w1, w2, r1
=============================================================================
