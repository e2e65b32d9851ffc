---------------------------- MODULE MCCookieSession ----------------------------
(* Instances of CookieSession for TLC. *)
EXTENDS CookieSession, TLC

Symmetry == Permutations(Request)
=============================================================================
