----------------------------- MODULE MCLoginFlow -----------------------------
(***************************************************************************)
(* Two instances of LoginFlow: overlapping requests and flows while time   *)
(* stands still, and one login on nodes whose clocks differ while it       *)
(* passes.  part says which one a behaviour belongs to.                    *)
(***************************************************************************)
EXTENDS LoginFlow, TLC

VARIABLE part

Symmetry ==
    Permutations(Request) \cup Permutations(Flow) \cup Permutations(Session)

\* Each node is named by the reading of its clock at time 0: one behind, one
\* ahead within the tolerance, one ahead of it.
Clocks == [n \in Node |-> n]

Standing == now = 0 /\ \A f \in Flow : flow[f].node = 0

Alone ==
    /\ Cardinality({r \in Request : req[r].pc # "idle"}) <= 1
    /\ Cardinality({f \in Flow : flow[f].stage # "unused"}) <= 1
    /\ Cardinality({s \in Session : record[s] # "unused"}) <= 2

MCInit ==
    /\ part \in {"tabs", "clocks"}
    /\ Init
    /\ part = "tabs" => Standing

MCNext ==
    /\ Next /\ UNCHANGED part
    /\ part = "tabs" => Standing'
    /\ part = "clocks" => Alone'

MCSpec == MCInit /\ [][MCNext]_<<part, vars>>
=============================================================================
