-------------------------- MODULE MCSessionRequests --------------------------
(* Instances of SessionRequests for TLC. *)
EXTENDS SessionRequests, TLC

Symmetry == Permutations(Request)
=============================================================================
