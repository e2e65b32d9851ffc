---------------------------- MODULE MCDeployment ----------------------------
(***************************************************************************)
(* Instances of the three modules about what a deployment is configured    *)
(* with: its keys, its routes, and its rules for requests.  They share no  *)
(* state, so TLC takes them one after the other: part says which one       *)
(* moves, and the others stay as they began.                               *)
(***************************************************************************)
EXTENDS SealingKeys, Routes, RequestRules

VARIABLE part

MCPath ==
    {<<"/">>, <<"/", "a">>, <<"/", "a", "/">>, <<"/", "a", "a">>, <<"/", "a", "/", "b">>}

MCPage == {<<"/">>, <<"/", "b">>}

Origin(scheme, host, port) == [scheme |-> scheme, host |-> host, port |-> port]

MCDeployments ==
    {Origin("https", "app", {}), Origin("https", "App", {443}), Origin("http", "app", {8080})}

\* The deployment's own pages, pages at other ports, of the other scheme and of
\* a sibling host, another site's, and an opaque origin.
MCOrigins ==
    {Origin("https", "app", {}), Origin("https", "app", {8443}), Origin("http", "app", {}),
     Origin("http", "app", {8080}), Origin("https", "sibling", {}),
     Origin("https", "elsewhere", {}), Origin("null", "", {})}

MCLower(host) == IF host = "App" THEN "app" ELSE host

MCSite(host) == IF host = "sibling" THEN "app" ELSE host

MCInit ==
    /\ part \in {"keys", "routes", "rules"}
    /\ Init /\ RoutesInit /\ RulesInit
    /\ part # "rules" => base = Origin("https", "app", {}) /\ policy = "AllRequests"
                         /\ logout = [endpoint |-> {}, keepsIdToken |-> FALSE]

MCNext ==
    /\ UNCHANGED part
    /\ \/ part = "keys" /\ Next /\ UNCHANGED <<routesVars, rulesVars>>
       \/ part = "routes" /\ RoutesNext /\ UNCHANGED <<vars, rulesVars>>
       \/ part = "rules" /\ RulesNext /\ UNCHANGED <<vars, routesVars>>

MCSpec == MCInit /\ [][MCNext]_<<part, vars, routesVars, rulesVars>>

\* The variables of all three modules keep their types: browser paths start
\* with a slash, and a logout leads to the page or to the provider.
TypesOK == TypeOK /\ RoutesTypeOK /\ RulesTypeOK
=============================================================================
