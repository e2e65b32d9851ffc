------------------------------ MODULE MCLiveness ------------------------------
(* Instances of Liveness for TLC. *)
EXTENDS Liveness, TLC

Symmetry == Permutations(Request)
=============================================================================
