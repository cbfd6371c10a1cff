--------------------------- MODULE MCRunProtocol ----------------------------
(* TLC instances of RunProtocol. *)
EXTENDS RunProtocol

CONSTANTS c1, c2

(* The emitters of one result are interchangeable; sound without liveness. *)
EmitterSymmetry == Permutations(Clients)
=============================================================================
