---------------------------- MODULE MCRunReading ----------------------------
(* TLC instances of RunReading. *)
EXTENDS RunReading
=============================================================================
