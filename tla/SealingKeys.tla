----------------------------- MODULE SealingKeys -----------------------------
(***************************************************************************)
(* The keys under the session cookies.  A CookieSealer seals with one key  *)
(* and opens with several; the identity of the sealing key (its kid) goes  *)
(* into a sidecar cookie beside the value, as a hint.  The keys are rotated *)
(* by the procedure of docs/how_to/cookie_keys.md, one replica at a time,  *)
(* while requests and responses are on their way and the browser may lose  *)
(* or change the sidecar.                                                  *)
(*                                                                         *)
(* Key k is replaced by key k + 1.  An Option is a set of at most one      *)
(* element.                                                                *)
(***************************************************************************)
EXTENDS Integers

CONSTANTS
    Request,        \* requests in flight at once
    Node,           \* the replicas
    Named,          \* the keys that have an identity
    MaxDeploy       \* bound: deployments

ASSUME NamedAssumption == Named \subseteq Nat \ {0}
ASSUME DeployAssumption == MaxDeploy \in Nat

VARIABLES
    target,     \* the deployment being rolled out
    node,       \* the deployment each replica runs
    jar,        \* the browser's session cookie and its sidecar
    meddled,    \* observed: the sidecar changed since the last response
    req         \* requests and their responses

vars == <<target, node, jar, meddled, req>>

Key == 1..(MaxDeploy + 2)
NoIdentity == 0                     \* a hint that names no key of ours

\* The value is known by the key that sealed it.
Jar == [value: SUBSET Key, kid: SUBSET (Named \cup {NoIdentity})]
EmptyJar == [value |-> {}, kid |-> {}]

RequestState == [pc: {"idle", "sent", "answered"}, shown: Jar, answer: Jar]
Idle == [pc |-> "idle", shown |-> EmptyJar, answer |-> EmptyJar]

TypeOK ==
    /\ target \in 0..MaxDeploy
    /\ node \in [Node -> 0..MaxDeploy]
    /\ jar \in Jar
    /\ meddled \in BOOLEAN
    /\ req \in [Request -> RequestState]

---------------------------------------------------------------------------
(* Deployments: a new key is first read, then written, then the old retired *)

Round(d) == 1 + (d \div 3)

Writer(d) == IF d % 3 = 2 THEN Round(d) + 1 ELSE Round(d)

Readers(d) == IF d % 3 = 0 THEN {Round(d)} ELSE {Round(d), Round(d) + 1}

---------------------------------------------------------------------------
(* The sealer *)

\* build_kid_header: the identity of the key that sealed, or a clear.
KidHeader(key) == {key} \cap Named

\* Mistake: the hint is a filter.
UnsealFiltered(value, kid, readers) ==
    IF kid = {} THEN value \subseteq readers ELSE value \subseteq readers \cap kid

\* unseal_with_kid_fallback: the hinted key first, then all of them.
Unseal(value, kid, readers) ==
    \/ kid # {} /\ value \subseteq readers \cap kid
    \/ value \subseteq readers

\* A response that stores a value sealed by deployment d.
Sealed(d) == [value |-> {Writer(d)}, kid |-> KidHeader(Writer(d))]

---------------------------------------------------------------------------

Become(r, q) == req' = [req EXCEPT ![r] = q]

Init ==
    /\ target = 0
    /\ node = [n \in Node |-> 0]
    /\ jar = EmptyJar
    /\ meddled = FALSE
    /\ req = [r \in Request |-> Idle]

Send(r) ==
    /\ req[r].pc = "idle"
    /\ Become(r, [Idle EXCEPT !.pc = "sent", !.shown = jar])
    /\ UNCHANGED <<target, node, jar, meddled>>

\* A callback: the session is sealed and set, whatever was shown.
Login(r, n) ==
    /\ req[r].pc = "sent"
    /\ Become(r, [Idle EXCEPT !.pc = "answered", !.answer = Sealed(node[n])])
    /\ UNCHANGED <<target, node, jar, meddled>>

\* read_pointer_cookie, CookieSessionStore::load_session
Load(r, n) ==
    LET q == req[r] IN
    /\ q.pc = "sent" /\ q.shown.value # {}
    /\ IF Unseal(q.shown.value, q.shown.kid, Readers(node[n]))
       THEN \/ Become(r, Idle)
            \/ Become(r, [Idle EXCEPT !.pc = "answered", !.answer = Sealed(node[n])])
       ELSE Become(r, [Idle EXCEPT !.pc = "answered"])
    /\ UNCHANGED <<target, node, jar, meddled>>

Deliver(r) ==
    /\ req[r].pc = "answered"
    /\ jar' = req[r].answer
    /\ meddled' = FALSE
    /\ Become(r, Idle)
    /\ UNCHANGED <<target, node>>

Lose(r) ==
    /\ req[r].pc # "idle"
    /\ Become(r, Idle)
    /\ UNCHANGED <<target, node, jar, meddled>>

\* The browser drops the sidecar, or shows another.
Meddle ==
    /\ jar.value # {}
    /\ \E kid \in {{}} \cup {{k} : k \in Named \cup {NoIdentity}} :
        jar' = [jar EXCEPT !.kid = kid]
    /\ meddled' = TRUE
    /\ UNCHANGED <<target, node, req>>

\* Max-Age
Expire ==
    /\ jar' = EmptyJar /\ meddled' = FALSE
    /\ UNCHANGED <<target, node, req>>

\* A replica is rebuilt with the configuration that is being rolled out.
Deploy(n) ==
    /\ node' = [node EXCEPT ![n] = target]
    /\ UNCHANGED <<target, jar, meddled, req>>

InUse(key) ==
    \/ key \in jar.value
    \/ \E r \in Request : key \in req[r].shown.value \cup req[r].answer.value

\* The next stage starts when every replica has the last one; the old key is
\* retired when nothing it sealed is to be read any more.
Advance ==
    /\ target < MaxDeploy
    /\ \A n \in Node : node[n] = target
    /\ target % 3 = 2 => ~InUse(Round(target))
    /\ target' = target + 1
    /\ UNCHANGED <<node, jar, meddled, req>>

Next ==
    \/ \E r \in Request :
        \/ Send(r) \/ Deliver(r) \/ Lose(r)
        \/ \E n \in Node : Login(r, n) \/ Load(r, n)
    \/ \E n \in Node : Deploy(n)
    \/ Meddle \/ Expire \/ Advance

Spec == Init /\ [][Next]_vars

---------------------------------------------------------------------------
(* Correctness *)

\* A rotation that follows the procedure logs nobody out: whatever a replica
\* sealed, every replica opens, at every stage of the rollout and whatever the
\* sidecar says (unseal_with_kid_fallback: "A stale or tampered hint must not
\* lock out an otherwise-authentic session").
CookiesStayReadable ==
    [][\A r \in Request : (\E n \in Node : Load(r, n)) =>
          req'[r].pc = "idle" \/ req'[r].answer # EmptyJar]_vars

\* The sidecar describes the value beside it, also after a key without an
\* identity took over from one that has it, and in whatever order responses
\* arrive (build_kid_header_with_attrs: set or cleared with every value).
SidecarNamesItsKey ==
    ~meddled => jar.kid = jar.value \cap Named
=============================================================================
