----------------------------- MODULE MCRequests -----------------------------
(***************************************************************************)
(* Instances of the three modules about a request with a session.  They    *)
(* share no state, so TLC takes them one after the other: part says which  *)
(* one moves, and the others stay as they began.                           *)
(***************************************************************************)
EXTENDS Lifetime, RefreshTiming, ResponseGuards, TLC

VARIABLE part

Parts == {"lifetime", "refresh", "guards"}

Symmetry == Permutations(Request)

\* Each node is named by the reading of its clock at time 0.
Clocks == [n \in Node |-> n]

MCInit ==
    /\ part \in Parts
    /\ Init /\ RefreshInit /\ GuardsInit
    /\ part # "lifetime" => cap = [n \in Node |-> {}] /\ session.node = Min(Node)
    /\ part # "refresh" =>
        /\ margin = Min(Margins) /\ lifetime = Min(Lifetimes)
        /\ credentials.expiry = lifetime /\ ~credentials.refreshable

MCNext ==
    /\ UNCHANGED part
    /\ \/ part = "lifetime" /\ Next /\ UNCHANGED <<refreshVars, guardVars>>
       \/ part = "refresh" /\ RefreshNext /\ UNCHANGED <<vars, guardVars>>
       \/ part = "guards" /\ GuardsNext /\ UNCHANGED <<vars, refreshVars>>

MCSpec == MCInit /\ [][MCNext]_<<part, vars, refreshVars, guardVars>>
=============================================================================
