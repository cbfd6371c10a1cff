-------------------------- MODULE MCLocalExecution --------------------------
(* TLC instances of LocalExecution. *)
EXTENDS LocalExecution

CONSTANTS w1, r1
=============================================================================
