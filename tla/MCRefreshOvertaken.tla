------------------------- MODULE MCRefreshOvertaken -------------------------
(* An instance of RefreshTiming alone. *)
EXTENDS RefreshTiming, TLC

Symmetry == Permutations(Request)
=============================================================================
