------------------------------ MODULE Requests ------------------------------
(***************************************************************************)
(* The requests a server works on at once: the constant that Lifetime,     *)
(* RefreshTiming and ResponseGuards share, so that one instance may hold   *)
(* all three.                                                              *)
(***************************************************************************)
CONSTANT Request        \* the slots; each serves many requests in turn
=============================================================================
