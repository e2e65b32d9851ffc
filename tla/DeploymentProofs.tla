-------------------------- MODULE DeploymentProofs --------------------------
(***************************************************************************)
(* Theorems about what a deployment is configured with: its keys, its      *)
(* routes and its rules for requests (SealingKeys, Routes, RequestRules).  *)
(*                                                                         *)
(* Keys: for any number of replicas, requests and rotations and any choice *)
(* of which keys have an identity.  The replicas are never more than one   *)
(* deployment apart, and two deployments in a row open what either seals.  *)
(*                                                                         *)
(* Rules: for any set of origins and deployments, each header of a request *)
(* by what the browser meant.                                              *)
(*                                                                         *)
(* Routes: for paths of any length over any characters.  A path is put     *)
(* together of a prefix without trailing slashes and what is behind it;    *)
(* strip_from, the mapping and the proxy are each shown to exchange the    *)
(* first and keep the second.                                              *)
(***************************************************************************)
EXTENDS MCDeployment, SequenceTheorems, WellFoundedInduction, TLAPS

-----------------------------------------------------------------------------
(* Keys *)

\* Every replica runs the deployment being rolled out or the one before.
Close == \A n \in Node : node[n] = target \/ node[n] + 1 = target

\* What is in use is opened by every replica, now and once it is redeployed.
Openable == \A key \in Key : InUse(key) =>
    /\ key \in Readers(target)
    /\ \A n \in Node : key \in Readers(node[n])

\* A response tells the identity of the key of its value.
AnswersNamed == \A r \in Request :
    req[r].answer.kid = req[r].answer.value \cap Named

KeysInv == TypeOK /\ Close /\ Openable /\ AnswersNamed /\ SidecarNamesItsKey

-----------------------------------------------------------------------------
(* Keys: deployments *)

LEMMA Thirds ==
    ASSUME NEW d \in Nat
    PROVE  \E k \in Nat : d = 3 * k \/ d = 3 * k + 1 \/ d = 3 * k + 2
<1>1. d \div 3 \in Int /\ d % 3 \in 0..2
  OBVIOUS
<1>2. d = (d \div 3) * 3 + (d % 3)
  OBVIOUS
<1> DEFINE k == d \div 3
           m == d % 3
<1>3. k \in Int /\ m \in 0..2 /\ d = k * 3 + m
  BY <1>1, <1>2
<1> HIDE DEF k, m
<1>4. k \in Nat /\ (m = 0 \/ m = 1 \/ m = 2)
  BY <1>3
<1> QED
  BY <1>3, <1>4

LEMMA WritersAreRead ==
    ASSUME NEW d \in Nat
    PROVE  /\ Writer(d) \in Readers(d)
           /\ Writer(d) \in Readers(d + 1)
           /\ Writer(d + 1) \in Readers(d)
<1>1. PICK k \in Nat : d = 3 * k \/ d = 3 * k + 1 \/ d = 3 * k + 2
  BY Thirds
<1>2. CASE d = 3 * k
  <2>1. d % 3 = 0 /\ d \div 3 = k /\ (d + 1) % 3 = 1 /\ (d + 1) \div 3 = k
    BY <1>2
  <2> QED
    BY <2>1 DEF Writer, Readers, Round
<1>3. CASE d = 3 * k + 1
  <2>1. d % 3 = 1 /\ d \div 3 = k /\ (d + 1) % 3 = 2 /\ (d + 1) \div 3 = k
    BY <1>3
  <2> QED
    BY <2>1 DEF Writer, Readers, Round
<1>4. CASE d = 3 * k + 2
  <2>1. d % 3 = 2 /\ d \div 3 = k /\ (d + 1) % 3 = 0 /\ (d + 1) \div 3 = k + 1
    BY <1>4
  <2> QED
    BY <2>1 DEF Writer, Readers, Round
<1> QED
  BY <1>1, <1>2, <1>3, <1>4

LEMMA ReadersStay ==
    ASSUME NEW d \in Nat, NEW key \in Readers(d), d % 3 = 2 => key # Round(d)
    PROVE  key \in Readers(d + 1)
<1>1. PICK k \in Nat : d = 3 * k \/ d = 3 * k + 1 \/ d = 3 * k + 2
  BY Thirds
<1>2. CASE d = 3 * k
  <2>1. d % 3 = 0 /\ d \div 3 = k /\ (d + 1) % 3 = 1 /\ (d + 1) \div 3 = k
    BY <1>2
  <2> QED
    BY <2>1 DEF Readers, Round
<1>3. CASE d = 3 * k + 1
  <2>1. d % 3 = 1 /\ d \div 3 = k /\ (d + 1) % 3 = 2 /\ (d + 1) \div 3 = k
    BY <1>3
  <2> QED
    BY <2>1 DEF Readers, Round
<1>4. CASE d = 3 * k + 2
  <2>1. d % 3 = 2 /\ d \div 3 = k /\ (d + 1) % 3 = 0 /\ (d + 1) \div 3 = k + 1
    BY <1>4
  <2> QED
    BY <2>1 DEF Readers, Round
<1> QED
  BY <1>1, <1>2, <1>3, <1>4

LEMMA WriterType ==
    ASSUME NEW d \in 0..MaxDeploy
    PROVE  Writer(d) \in Key /\ Sealed(d) \in Jar
<1>1. Round(d) \in 1..(MaxDeploy + 1)
  BY DeployAssumption DEF Round
<1>2. Writer(d) \in Key
  BY <1>1, DeployAssumption DEF Writer, Key
<1> QED
  BY <1>2 DEF Sealed, KidHeader, Jar

-----------------------------------------------------------------------------
(* Keys: steps *)

LEMMA Become1 ==
    ASSUME TypeOK, NEW r \in Request, NEW q, Become(r, q)
    PROVE  /\ req'[r] = q
           /\ \A x \in Request \ {r} : req'[x] = req[x]
           /\ q \in RequestState => req' \in [Request -> RequestState]
BY DEF TypeOK, Become

LEMMA EmptyType == EmptyJar \in Jar /\ EmptyJar.value = {} /\ EmptyJar.kid = {}
BY DEF EmptyJar, Jar

LEMMA IdleFields ==
    Idle \in RequestState /\ Idle.shown.value = {} /\ Idle.answer.value = {} /\ Idle.answer.kid = {}
BY EmptyType DEF Idle, RequestState, EmptyJar

\* A step of one request, whose parts hold only keys that are in use already or
\* that a replica writes.
LEMMA RequestStep ==
    ASSUME KeysInv, NEW r \in Request, NEW q \in RequestState, Become(r, q),
           UNCHANGED <<target, node, jar, meddled>>,
           q.answer.kid = q.answer.value \cap Named,
           \A key \in Key : key \in q.shown.value \cup q.answer.value =>
               InUse(key) \/ \E n \in Node : key = Writer(node[n])
    PROVE  KeysInv'
<1>1. /\ req'[r] = q /\ req' \in [Request -> RequestState]
      /\ \A x \in Request \ {r} : req'[x] = req[x]
  BY Become1 DEF KeysInv
<1>2. TypeOK' /\ Close' /\ AnswersNamed' /\ SidecarNamesItsKey'
  BY <1>1 DEF KeysInv, TypeOK, Close, AnswersNamed, SidecarNamesItsKey
<1>3. ASSUME NEW key \in Key, InUse(key)'
      PROVE  key \in Readers(target) /\ \A n \in Node : key \in Readers(node[n])
  <2>1. InUse(key) \/ \E n \in Node : key = Writer(node[n])
    BY <1>1, <1>3 DEF InUse
  <2>2. ASSUME NEW n \in Node, key = Writer(node[n])
        PROVE  key \in Readers(target) /\ \A m \in Node : key \in Readers(node[m])
    <3>1. target \in Nat /\ \A m \in Node : node[m] \in Nat
      BY DEF KeysInv, TypeOK
    <3>2. ASSUME NEW d \in Nat,
                 d = node[n] \/ d = node[n] + 1 \/ d + 1 = node[n]
          PROVE  key \in Readers(d)
      BY <2>2, <3>1, <3>2, WritersAreRead
    <3>3. target = node[n] \/ target = node[n] + 1
      BY <3>1 DEF KeysInv, Close
    <3>4. \A m \in Node :
             node[m] = node[n] \/ node[m] = node[n] + 1 \/ node[m] + 1 = node[n]
      BY <3>1 DEF KeysInv, Close
    <3> QED
      BY <3>1, <3>2, <3>3, <3>4
  <2> QED
    BY <2>1, <2>2 DEF KeysInv, Openable
<1> QED
  BY <1>2, <1>3 DEF KeysInv, Openable

LEMMA SendStep ==
    ASSUME KeysInv, NEW r \in Request, Send(r) PROVE KeysInv'
<1> DEFINE q == [Idle EXCEPT !.pc = "sent", !.shown = jar]
<1>1. /\ q \in RequestState /\ q.shown = jar /\ q.answer = EmptyJar
  BY EmptyType DEF KeysInv, TypeOK, Idle, RequestState
<1>2. /\ Become(r, q) /\ UNCHANGED <<target, node, jar, meddled>>
  BY DEF Send
<1>3. \A key \in Key : key \in q.shown.value \cup q.answer.value => InUse(key)
  BY <1>1, EmptyType DEF InUse
<1> HIDE DEF q
<1> QED
  BY <1>1, <1>2, <1>3, RequestStep, EmptyType

\* The response with the value that replica n seals.
LEMMA SealedStep ==
    ASSUME KeysInv, NEW r \in Request, NEW n \in Node,
           Become(r, [Idle EXCEPT !.pc = "answered", !.answer = Sealed(node[n])]),
           UNCHANGED <<target, node, jar, meddled>>
    PROVE  KeysInv'
<1> DEFINE q == [Idle EXCEPT !.pc = "answered", !.answer = Sealed(node[n])]
<1>1. Sealed(node[n]) \in Jar
  BY WriterType DEF KeysInv, TypeOK
<1>2. q \in RequestState /\ q.shown = EmptyJar /\ q.answer = Sealed(node[n])
  BY <1>1, EmptyType DEF Idle, RequestState
<1>3. q.answer.kid = q.answer.value \cap Named /\ q.answer.value = {Writer(node[n])}
  BY <1>2 DEF Sealed, KidHeader
<1> HIDE DEF q
<1>4. Become(r, q)
  BY DEF q
<1>5. \A key \in Key : key \in q.shown.value \cup q.answer.value =>
         \E m \in Node : key = Writer(node[m])
  BY <1>2, <1>3, EmptyType
<1> QED
  BY <1>2, <1>3, <1>4, <1>5, RequestStep

\* A response without a value, or none.
LEMMA EmptyStep ==
    ASSUME KeysInv, NEW r \in Request, NEW q \in {Idle, [Idle EXCEPT !.pc = "answered"]},
           Become(r, q), UNCHANGED <<target, node, jar, meddled>>
    PROVE  KeysInv'
<1>1. q \in RequestState /\ q.shown = EmptyJar /\ q.answer = EmptyJar
  BY EmptyType DEF Idle, RequestState
<1>2. \A key \in Key : key \notin q.shown.value \cup q.answer.value
  BY <1>1, EmptyType
<1> QED
  BY <1>1, <1>2, EmptyType, RequestStep

LEMMA LoadStep ==
    ASSUME KeysInv, NEW r \in Request, NEW n \in Node, Load(r, n) PROVE KeysInv'
<1>1. UNCHANGED <<target, node, jar, meddled>>
  BY DEF Load
<1>2. \/ Become(r, [Idle EXCEPT !.pc = "answered", !.answer = Sealed(node[n])])
      \/ \E q \in {Idle, [Idle EXCEPT !.pc = "answered"]} : Become(r, q)
  BY DEF Load
<1> QED
  BY <1>1, <1>2, SealedStep, EmptyStep

\* Steps after which no other key is in use, and no replica has changed.
LEMMA JarStep ==
    ASSUME KeysInv, UNCHANGED <<target, node>>, TypeOK', AnswersNamed', SidecarNamesItsKey',
           \A key \in Key : InUse(key)' => InUse(key)
    PROVE  KeysInv'
BY DEF KeysInv, Close, Openable

LEMMA DeliverStep ==
    ASSUME KeysInv, NEW r \in Request, Deliver(r) PROVE KeysInv'
<1>1. /\ jar' = req[r].answer /\ meddled' = FALSE /\ Become(r, Idle)
      /\ UNCHANGED <<target, node>> /\ req[r].answer \in Jar
  BY DEF Deliver, KeysInv, TypeOK, RequestState
<1>2. /\ req'[r] = Idle /\ req' \in [Request -> RequestState]
      /\ \A x \in Request \ {r} : req'[x] = req[x]
  BY <1>1, Become1, IdleFields DEF KeysInv
<1>3. TypeOK'
  BY <1>1, <1>2 DEF KeysInv, TypeOK
<1>4. AnswersNamed' /\ SidecarNamesItsKey'
  BY <1>1, <1>2, IdleFields DEF KeysInv, AnswersNamed, SidecarNamesItsKey
<1>5. ASSUME NEW key \in Key, InUse(key)' PROVE InUse(key)
  <2>1. CASE key \in jar'.value
    BY <1>1, <2>1 DEF InUse
  <2>2. ASSUME NEW x \in Request, key \in req'[x].shown.value \cup req'[x].answer.value
        PROVE  InUse(key)
    BY <1>2, <2>2, IdleFields DEF InUse
  <2> QED
    BY <1>5, <2>1, <2>2 DEF InUse
<1> QED
  BY <1>1, <1>3, <1>4, <1>5, JarStep

LEMMA MeddleStep ==
    ASSUME KeysInv, Meddle PROVE KeysInv'
<1>1. /\ jar' \in Jar /\ jar'.value = jar.value /\ meddled' = TRUE
      /\ UNCHANGED <<target, node, req>>
  BY DEF Meddle, KeysInv, TypeOK, Jar
<1>2. TypeOK' /\ AnswersNamed' /\ SidecarNamesItsKey'
  BY <1>1 DEF KeysInv, TypeOK, AnswersNamed, SidecarNamesItsKey
<1>3. \A key \in Key : InUse(key)' => InUse(key)
  BY <1>1 DEF InUse
<1> QED
  BY <1>1, <1>2, <1>3, JarStep

LEMMA ExpireStep ==
    ASSUME KeysInv, Expire PROVE KeysInv'
<1>1. jar' = EmptyJar /\ meddled' = FALSE /\ UNCHANGED <<target, node, req>>
  BY DEF Expire
<1>2. TypeOK' /\ AnswersNamed' /\ SidecarNamesItsKey'
  BY <1>1, EmptyType DEF KeysInv, TypeOK, AnswersNamed, SidecarNamesItsKey
<1>3. \A key \in Key : InUse(key)' => InUse(key)
  BY <1>1, EmptyType DEF InUse
<1> QED
  BY <1>1, <1>2, <1>3, JarStep

LEMMA DeployStep ==
    ASSUME KeysInv, NEW n \in Node, Deploy(n) PROVE KeysInv'
<1>1. /\ node' = [node EXCEPT ![n] = target]
      /\ UNCHANGED <<target, jar, meddled, req>>
  BY DEF Deploy
<1>2. TypeOK' /\ AnswersNamed' /\ SidecarNamesItsKey'
  BY <1>1 DEF KeysInv, TypeOK, AnswersNamed, SidecarNamesItsKey
<1>3. \A m \in Node : node'[m] = node[m] \/ node'[m] = target
  BY <1>1 DEF KeysInv, TypeOK
<1>4. Close' /\ Openable'
  BY <1>1, <1>3 DEF KeysInv, Close, Openable, InUse
<1> QED
  BY <1>2, <1>4 DEF KeysInv

LEMMA AdvanceStep ==
    ASSUME KeysInv, Advance PROVE KeysInv'
<1>1. /\ target < MaxDeploy /\ \A n \in Node : node[n] = target
      /\ target % 3 = 2 => ~InUse(Round(target))
      /\ target' = target + 1 /\ UNCHANGED <<node, jar, meddled, req>>
      /\ target \in Nat
  BY DEF Advance, KeysInv, TypeOK
<1>2. TypeOK' /\ AnswersNamed' /\ SidecarNamesItsKey' /\ Close'
  BY <1>1, DeployAssumption DEF KeysInv, TypeOK, AnswersNamed, SidecarNamesItsKey, Close
<1>3. ASSUME NEW key \in Key, InUse(key) PROVE key \in Readers(target + 1)
  <2>1. key \in Readers(target)
    BY <1>3 DEF KeysInv, Openable
  <2>2. target % 3 = 2 => key # Round(target)
    BY <1>1, <1>3
  <2> QED
    BY <1>1, <2>1, <2>2, ReadersStay
<1>4. Openable'
  BY <1>1, <1>3 DEF KeysInv, Openable, InUse
<1> QED
  BY <1>2, <1>4 DEF KeysInv

-----------------------------------------------------------------------------
(* Keys: the theorems *)

LEMMA KeysStart == Init => KeysInv
<1> SUFFICES ASSUME Init PROVE KeysInv
  OBVIOUS
<1>1. TypeOK
  <2>1. target \in 0..MaxDeploy /\ node \in [Node -> 0..MaxDeploy]
    BY DeployAssumption DEF Init
  <2>2. jar \in Jar /\ meddled \in BOOLEAN /\ req \in [Request -> RequestState]
    BY EmptyType, IdleFields DEF Init
  <2> QED
    BY <2>1, <2>2 DEF TypeOK
<1>2. Close /\ Openable /\ AnswersNamed /\ SidecarNamesItsKey
  BY EmptyType, IdleFields
     DEF Init, Close, Openable, InUse, AnswersNamed, SidecarNamesItsKey
<1> QED
  BY <1>1, <1>2 DEF KeysInv

LEMMA KeysStep == KeysInv /\ [Next]_vars => KeysInv'
<1> SUFFICES ASSUME KeysInv, [Next]_vars PROVE KeysInv'
  OBVIOUS
<1>1. CASE UNCHANGED vars
  BY <1>1 DEF vars, KeysInv, TypeOK, Close, Openable, InUse, AnswersNamed, SidecarNamesItsKey
<1>2. ASSUME NEW r \in Request, NEW n \in Node, Login(r, n) PROVE KeysInv'
  BY <1>2, SealedStep DEF Login
<1>3. ASSUME NEW r \in Request, Lose(r) PROVE KeysInv'
  BY <1>3, EmptyStep DEF Lose
<1> QED
  BY <1>1, <1>2, <1>3, SendStep, LoadStep, DeliverStep, DeployStep, MeddleStep, ExpireStep,
     AdvanceStep DEF Next

\* KeysInv holds in every state of every behaviour of SealingKeys.
THEOREM KeysInvariance == Spec => []KeysInv
BY KeysStart, KeysStep, PTL DEF Spec

\* Every variable keeps its type, for any number of requests, nodes and keys.
THEOREM KeysTypeCorrect == Spec => []TypeOK
BY KeysInvariance, PTL DEF KeysInv

\* The sidecar of a value names the key that sealed it, or is absent if that
\* key has no identity (build_kid_header).
THEOREM SidecarsAreTrue == Spec => []SidecarNamesItsKey
<1>1. KeysInv => SidecarNamesItsKey
  BY DEF KeysInv
<1> QED
  BY <1>1, KeysInvariance, PTL

\* No load of a rollout that follows the procedure fails to open its cookie,
\* whatever the sidecar says (unseal_with_kid_fallback).
THEOREM RotationsLogNobodyOut == Spec => CookiesStayReadable
<1>1. ASSUME KeysInv, NEW r \in Request, NEW n \in Node, Load(r, n)
      PROVE  req'[r].pc = "idle" \/ req'[r].answer # EmptyJar
  <2>1. req[r] \in RequestState /\ req[r].shown.value \subseteq Key
    BY <1>1 DEF KeysInv, TypeOK, RequestState, Jar
  <2>2. \A key \in req[r].shown.value : key \in Readers(node[n])
    BY <1>1, <2>1 DEF KeysInv, Openable, InUse
  <2>3. Unseal(req[r].shown.value, req[r].shown.kid, Readers(node[n]))
    BY <2>2 DEF Unseal
  <2>4. \/ Become(r, Idle)
        \/ Become(r, [Idle EXCEPT !.pc = "answered", !.answer = Sealed(node[n])])
    BY <1>1, <2>3 DEF Load
  <2>5. Idle.pc = "idle" /\ [Idle EXCEPT !.pc = "answered", !.answer = Sealed(node[n])].answer
                               = Sealed(node[n])
    BY DEF Idle
  <2>6. Sealed(node[n]) # EmptyJar
    <3>1. Sealed(node[n]).value = {Writer(node[n])}
      BY DEF Sealed
    <3> QED
      BY <3>1, EmptyType
  <2> QED
    BY <1>1, <2>4, <2>5, <2>6, Become1 DEF KeysInv
<1>2. KeysInv /\ [Next]_vars =>
         [\A r \in Request : (\E n \in Node : Load(r, n)) =>
             req'[r].pc = "idle" \/ req'[r].answer # EmptyJar]_vars
  BY <1>1
<1> QED
  BY <1>2, KeysInvariance, PTL DEF Spec, CookiesStayReadable

-----------------------------------------------------------------------------
(* Rules for requests *)

RulesInv == RulesTypeOK /\ LoginsAreTheUsers /\ ActivityIsTheUsers /\ LogoutsAreTheUsers

\* What a browser's request shows the rules.
LEMMA HeadersShow ==
    ASSUME NEW r \in BrowserRequest
    PROVE  LET h == Headers(r) IN
           /\ h.xhr = (r.kind = "fetch" /\ ~r.modern)
           /\ h.purpose = (r.kind = "prefetch")
           /\ h.mode = Mode(r) /\ h.dest = Dest(r)
           /\ h.user = (Sends(r, "user") /\ TopLevel(r))
           /\ h.html = (r.kind \in {"navigation", "form", "frame", "prefetch"}
                        \/ (r.kind = "fetch" /\ ~r.modern))
           /\ h.crossSite = (Sends(r, "site") /\ CrossSite(r))
           /\ h.origin = {o \in {r.from} : r.post /\ "origin" \notin r.dropped}
BY DEF Headers

LEMMA RequestFields ==
    ASSUME NEW r \in BrowserRequest
    PROVE  /\ r.kind \in Kind /\ r.from \in Origins /\ r.modern \in BOOLEAN
           /\ r.post \in BOOLEAN /\ r.dropped \in SUBSET Droppable
           /\ r.post => r.kind \in {"form", "fetch"}
           /\ r.kind = "form" => r.post
           /\ "origin" \in r.dropped => r.post
           /\ "user" \in r.dropped => TopLevel(r)
           /\ ~r.modern => r.dropped \subseteq {"origin"}
BY DEF BrowserRequest

LEMMA ModeAndDest ==
    ASSUME NEW r \in BrowserRequest
    PROVE  /\ Mode(r) = IF Sends(r, "mode")
                        THEN {CASE r.kind \in {"fetch", "preflight"} -> "cors"
                                [] r.kind = "image" -> "no-cors"
                                [] OTHER -> "navigate"}
                        ELSE {}
           /\ Dest(r) = IF Sends(r, "dest")
                        THEN {CASE r.kind \in {"fetch", "preflight"} -> "empty"
                                [] r.kind = "image" -> "image"
                                [] r.kind = "frame" -> "iframe"
                                [] OTHER -> "document"}
                        ELSE {}
BY RequestFields DEF Mode, Dest, ModeOf, DestOf

\* A page the user opens is a navigation to the rule, whatever was removed.
LEMMA UsersNavigate ==
    ASSUME NEW r \in BrowserRequest, TopLevel(r)
    PROVE  IsNavigation(Headers(r))
<1> DEFINE h == Headers(r)
<1>1. r.kind \in {"navigation", "form"}
  BY DEF TopLevel
<1>2. /\ h.mode \in {{}, {"navigate"}} /\ h.dest \in {{}, {"document"}}
      /\ ~h.xhr /\ ~h.purpose /\ h.html
  BY <1>1, HeadersShow, ModeAndDest
<1> HIDE DEF h
<1> QED BY <1>2 DEF IsNavigation, h

\* What passes for a navigation is the user's, or a frame nobody calls one.
LEMMA NavigationsAreTheUsers ==
    ASSUME NEW r \in BrowserRequest, r.kind # "preflight", IsNavigation(Headers(r))
    PROVE  TopLevel(r) \/ (r.kind = "frame" /\ ~FrameShown(r))
<1> DEFINE h == Headers(r)
<1>1. /\ ~h.xhr /\ ~h.purpose
      /\ IF h.mode # {} THEN h.mode = {"navigate"} /\ h.dest \subseteq {"document"}
         ELSE IF h.dest # {} THEN h.dest = {"document"}
         ELSE h.user \/ h.html
  BY DEF IsNavigation
<1>2. r.kind \in Kind /\ r.modern \in BOOLEAN
  BY RequestFields
<1>3. CASE r.kind = "prefetch"
  BY <1>1, <1>3, HeadersShow
<1>4. CASE r.kind \in {"fetch", "image"}
  <2>1. ~h.html /\ ~h.user
    BY <1>1, <1>4, HeadersShow DEF TopLevel
  <2>2. h.mode \in {{}, {"cors"}, {"no-cors"}} /\ h.dest \in {{}, {"empty"}, {"image"}}
    BY <1>4, HeadersShow, ModeAndDest
  <2> HIDE DEF h
  <2> QED BY <1>1, <2>1, <2>2
<1>5. CASE r.kind = "frame" /\ FrameShown(r)
  <2>1. h.dest = {"iframe"}
    BY <1>5, HeadersShow, ModeAndDest DEF FrameShown
  <2> HIDE DEF h
  <2> QED BY <1>1, <2>1
<1> QED BY <1>2, <1>3, <1>4, <1>5 DEF Kind, TopLevel

\* An accepted origin is the engine's own.
LEMMA AcceptedIsOwn ==
    ASSUME NEW r \in BrowserRequest, OriginAccepted(Headers(r))
    PROVE  OriginOf(r.from) = OriginOf(base)
<1>1. PICK origin \in Headers(r).origin : SameOrigin(origin, base)
  BY DEF OriginAccepted
<1>2. origin = r.from
  BY <1>1, HeadersShow
<1> QED BY <1>1, <1>2 DEF SameOrigin, OriginOf

\* A page of the engine's origin is turned away only when the proof is missing.
LEMMA OwnIsAccepted ==
    ASSUME NEW r \in BrowserRequest, r.post, base \in Deployments,
           OriginOf(r.from) = OriginOf(base), "origin" \notin r.dropped
    PROVE  OriginAccepted(Headers(r))
<1>1. /\ r.from.scheme = base.scheme /\ Lower(r.from.host) = Lower(base.host)
      /\ EffectivePort(r.from) = EffectivePort(base)
  BY DEF OriginOf
<1>2. EffectivePort(base) # {}
  BY DeploymentsAssumption DEF EffectivePort, DefaultPort
<1>3. ~Headers(r).crossSite
  BY <1>1, HeadersShow DEF CrossSite
<1>4. r.from \in Headers(r).origin
  BY HeadersShow
<1> QED BY <1>1, <1>2, <1>3, <1>4 DEF OriginAccepted, SameOrigin

LEMMA Statuses ==
    \A status \in Status :
        Says(status) \in [status : Status, counted : BOOLEAN, location : SUBSET Redirect]
BY DEF Says

LEMMA AskOK ==
    ASSUME RulesTypeOK, NEW r \in BrowserRequest, Ask(r)
    PROVE  RulesInv'
<1>1. /\ request' = {r} /\ UNCHANGED <<base, policy, logout>> /\ session' \in BOOLEAN
  BY DEF Ask, RulesTypeOK
<1>2. \/ r.kind = "preflight" /\ answer' = Says("passed")
      \/ r.kind # "preflight" /\ answer' = RedirectToLogin(r)
      \/ r.kind # "preflight"
         /\ answer' = [Says("served") EXCEPT !.counted = CountsAsActivity(Headers(r))]
      \/ answer' = Says("unavailable")
  BY DEF Ask, ShowsSession
<1>3. CountsAsActivity(Headers(r)) \in BOOLEAN
  BY HeadersShow, RequestFields DEF CountsAsActivity, IsNavigation, RulesTypeOK
<1>4. CASE answer' = Says("passed") /\ r.kind = "preflight"
  <2>1. answer'.status = "passed" /\ answer'.location = {} /\ ~TopLevel(r)
    BY <1>4 DEF Says, TopLevel
  <2>2. RulesTypeOK'
    BY <1>1, <1>4, Statuses DEF RulesTypeOK, Status
  <2> QED BY <1>1, <2>1, <2>2
          DEF RulesInv, LoginsAreTheUsers, ActivityIsTheUsers, LogoutsAreTheUsers
<1>5. CASE answer' = Says("unavailable")
  <2>1. answer'.status = "unavailable" /\ answer'.location = {}
    BY <1>5 DEF Says
  <2>2. RulesTypeOK'
    BY <1>1, <1>5, Statuses DEF RulesTypeOK, Status
  <2> QED BY <1>1, <2>1, <2>2
          DEF RulesInv, LoginsAreTheUsers, ActivityIsTheUsers, LogoutsAreTheUsers
<1>6. CASE r.kind # "preflight" /\ answer' = RedirectToLogin(r)
  <2>1. /\ answer' \in {Says("login"), Says("unauthorized")}
        /\ answer'.location = {} /\ answer'.status \in {"login", "unauthorized"}
        /\ answer'.status = "login" <=> IsNavigation(Headers(r))
    BY <1>6 DEF RedirectToLogin, Says
  <2>2. RulesTypeOK'
    BY <1>1, <2>1, Statuses DEF RulesTypeOK, Status
  <2>3. LoginsAreTheUsers'
    BY <1>1, <1>6, <2>1, UsersNavigate, NavigationsAreTheUsers DEF LoginsAreTheUsers
  <2> QED BY <1>1, <2>1, <2>2, <2>3
          DEF RulesInv, ActivityIsTheUsers, LogoutsAreTheUsers
<1>7. CASE r.kind # "preflight"
           /\ answer' = [Says("served") EXCEPT !.counted = CountsAsActivity(Headers(r))]
  <2>1. /\ answer'.status = "served" /\ answer'.location = {}
        /\ answer'.counted = CountsAsActivity(Headers(r))
    BY <1>7 DEF Says
  <2>2. RulesTypeOK'
    BY <1>1, <1>3, <1>7 DEF RulesTypeOK, Says, Status
  <2>3. /\ IsNavigation(Headers(r)) => CountsAsActivity(Headers(r))
        /\ policy = "NavigationsOnly" /\ CountsAsActivity(Headers(r))
              => IsNavigation(Headers(r))
    BY DEF CountsAsActivity, RulesTypeOK
  <2>4. ActivityIsTheUsers'
    BY <1>1, <1>7, <2>1, <2>3, UsersNavigate, NavigationsAreTheUsers DEF ActivityIsTheUsers
  <2> QED BY <1>1, <2>1, <2>2, <2>4 DEF RulesInv, LoginsAreTheUsers, LogoutsAreTheUsers
<1> QED BY <1>2, <1>4, <1>5, <1>6, <1>7

\* Where a logout leads.
LEMMA LogoutLeads ==
    ASSUME RulesTypeOK, NEW hint \in SUBSET {"id_token_hint"}
    PROVE  LET l == LogoutRedirect(hint) IN
           /\ l \in Redirect
           /\ l.to = "provider" => /\ l.params \cap {"client_id", "id_token_hint"} # {}
                                   /\ \A e \in logout.endpoint : e.hasQuery <=> l.joined = "next"
<1>1. logout.endpoint = {} \/ \E e \in [hasQuery : BOOLEAN] : logout.endpoint = {e}
  BY DEF RulesTypeOK, LogoutConfig
<1>2. CASE logout.endpoint = {}
  BY <1>2 DEF LogoutRedirect, Redirect
<1>3. ASSUME NEW e \in [hasQuery : BOOLEAN], logout.endpoint = {e}
      PROVE  LET l == LogoutRedirect(hint) IN
             /\ l \in Redirect
             /\ l.params \cap {"client_id", "id_token_hint"} # {}
             /\ e.hasQuery <=> l.joined = "next"
  <2>1. (CHOOSE x \in logout.endpoint : TRUE) = e /\ logout.endpoint # {}
    BY <1>3
  <2>2. LogoutRedirect(hint) = [to |-> "provider", joined |-> Joined(e),
                                params |-> EndSessionParameters(hint)]
    BY <2>1 DEF LogoutRedirect
  <2>3. Joined(e) \in {"first", "next"} /\ (e.hasQuery <=> Joined(e) = "next")
    BY DEF Joined
  <2>4. /\ "client_id" \in EndSessionParameters(hint)
        /\ EndSessionParameters(hint) \subseteq
              {"id_token_hint", "client_id", "post_logout_redirect_uri"}
    BY DEF EndSessionParameters
  <2> QED BY <2>2, <2>3, <2>4 DEF Redirect
<1> QED BY <1>1, <1>2, <1>3

LEMMA AskToLogOutOK ==
    ASSUME RulesTypeOK, NEW r \in BrowserRequest, AskToLogOut(r)
    PROVE  RulesInv'
<1>1. /\ request' = {r} /\ UNCHANGED <<base, policy, logout>> /\ session' \in BOOLEAN
  BY RequestFields DEF AskToLogOut, RulesTypeOK
<1>2. \/ r.kind = "preflight" /\ answer' = Says("passed")
      \/ r.kind # "preflight" /\ ~r.post /\ answer' = Says("not allowed")
      \/ r.post /\ ~OriginAccepted(Headers(r)) /\ answer' = Says("rejected")
      \/ /\ r.post /\ OriginAccepted(Headers(r))
         /\ \E hint \in SUBSET {"id_token_hint"} :
               answer' = [Says("logged out") EXCEPT !.location = {LogoutRedirect(hint)}]
  BY RequestFields DEF AskToLogOut
<1>3. ASSUME NEW status \in {"passed", "not allowed"}, answer' = Says(status)
      PROVE  RulesInv'
  <2>1. answer'.status = status /\ answer'.location = {}
    BY <1>3 DEF Says
  <2>2. RulesTypeOK'
    BY <1>1, <1>3, Statuses DEF RulesTypeOK, Status
  <2> QED BY <1>1, <2>1, <2>2
          DEF RulesInv, LoginsAreTheUsers, ActivityIsTheUsers, LogoutsAreTheUsers
<1>4. CASE r.post /\ ~OriginAccepted(Headers(r)) /\ answer' = Says("rejected")
  <2>1. answer'.status = "rejected" /\ answer'.location = {}
    BY <1>4 DEF Says
  <2>2. RulesTypeOK'
    BY <1>1, <1>4, Statuses DEF RulesTypeOK, Status
  <2>3. OriginOf(r.from) # OriginOf(base) \/ "origin" \in r.dropped
    BY <1>4, OwnIsAccepted DEF RulesTypeOK
  <2>4. OriginOf(base)' = OriginOf(base)
    BY <1>1 DEF OriginOf, EffectivePort
  <2> QED BY <1>1, <2>1, <2>2, <2>3, <2>4
          DEF RulesInv, LoginsAreTheUsers, ActivityIsTheUsers, LogoutsAreTheUsers
<1>5. ASSUME r.post, OriginAccepted(Headers(r)), NEW hint \in SUBSET {"id_token_hint"},
             answer' = [Says("logged out") EXCEPT !.location = {LogoutRedirect(hint)}]
      PROVE  RulesInv'
  <2>1. /\ answer'.status = "logged out" /\ answer'.location = {LogoutRedirect(hint)}
        /\ answer'.counted = FALSE
    BY <1>5 DEF Says
  <2>2. RulesTypeOK'
    BY <1>1, <1>5, LogoutLeads DEF RulesTypeOK, Says, Status
  <2>3. OriginOf(r.from) = OriginOf(base) /\ OriginOf(base)' = OriginOf(base)
    BY <1>1, <1>5, AcceptedIsOwn DEF OriginOf, EffectivePort
  <2>4. LogoutsAreTheUsers'
    BY <1>1, <2>1, <2>3, LogoutLeads DEF LogoutsAreTheUsers
  <2> QED BY <1>1, <2>1, <2>2, <2>4 DEF RulesInv, LoginsAreTheUsers, ActivityIsTheUsers
<1> QED BY <1>2, <1>3, <1>4, <1>5

LEMMA RulesStart ==
    ASSUME RulesInit
    PROVE  RulesInv
<1>1. RulesTypeOK
  BY Statuses DEF RulesInit, RulesTypeOK, Status
<1> QED BY <1>1 DEF RulesInit, RulesInv, LoginsAreTheUsers, ActivityIsTheUsers, LogoutsAreTheUsers

LEMMA RulesStep ==
    ASSUME RulesInv, [RulesNext]_rulesVars
    PROVE  RulesInv'
<1>1. RulesTypeOK
  BY DEF RulesInv
<1>2. CASE UNCHANGED rulesVars
  <2>1. OriginOf(base)' = OriginOf(base)
    BY <1>2 DEF OriginOf, EffectivePort, rulesVars
  <2> QED BY <1>2, <2>1 DEF rulesVars, RulesInv, RulesTypeOK, LoginsAreTheUsers,
             ActivityIsTheUsers, LogoutsAreTheUsers
<1>3. CASE Proceed
  <2>1. request' = {} /\ session' \in BOOLEAN /\ answer' = Says("passed")
        /\ UNCHANGED <<base, policy, logout>>
    BY <1>1, <1>3 DEF Proceed, RulesTypeOK
  <2>2. RulesTypeOK'
    BY <1>1, <2>1, Statuses DEF RulesTypeOK, Status
  <2> QED BY <2>1, <2>2 DEF RulesInv, LoginsAreTheUsers, ActivityIsTheUsers, LogoutsAreTheUsers
<1> QED BY <1>1, <1>2, <1>3, AskOK, AskToLogOutOK DEF RulesNext

\* RulesInv holds in every state of every behaviour of RequestRules.
THEOREM RulesInvariance == RulesSpec => []RulesInv
BY RulesStart, RulesStep, PTL DEF RulesSpec

\* Whatever headers were removed on the way, a user who opens a page without a
\* session is sent to log in, and scripts, images and prefetches are not
\* (is_navigation_request).
THEOREM LoginRules == RulesSpec => []LoginsAreTheUsers
<1>1. RulesInv => LoginsAreTheUsers
  BY DEF RulesInv
<1> QED BY <1>1, RulesInvariance, PTL

\* What the user opens counts as activity under every policy, and under
\* NavigationsOnly nothing else does (ActivityPolicy).
THEOREM ActivityRules == RulesSpec => []ActivityIsTheUsers
<1>1. RulesInv => ActivityIsTheUsers
  BY DEF RulesInv
<1> QED BY <1>1, RulesInvariance, PTL

\* For any set of origins a logout is accepted of the engine's own origin and of
\* no other, and its redirect names the client (handle_logout).
THEOREM LogoutRules == RulesSpec => []LogoutsAreTheUsers
<1>1. RulesInv => LogoutsAreTheUsers
  BY DEF RulesInv
<1> QED BY <1>1, RulesInvariance, PTL

-----------------------------------------------------------------------------
(* Routes: paths *)

Text == Seq(Character)

\* A path starts with a slash; a prefix without trailing slashes may be empty.
Route == {path \in Text : path # <<>> /\ path[1] = "/"}
Plain == {path \in Text : path = <<>> \/ (path[1] = "/" /\ path[Len(path)] # "/")}

LEMMA RootType ==
    Root \in Route /\ Len(Root) = 1 /\ Root[1] = "/" /\ Last(Root) = "/" /\ Root \notin Plain
<1>1. Root \in Text /\ Len(Root) = 1 /\ Root[1] = "/"
  <2>1. "/" \in Character
    BY PathAssumption
  <2>2. Root \in Seq(Character)
    BY <2>1 DEF Root
  <2>3. Len(Root) = 1
    BY DEF Root
  <2>4. Root[1] = "/"
    BY DEF Root
  <2> QED BY <2>2, <2>3, <2>4 DEF Text
<1>2. Root # <<>>
  BY DEF Root
<1> QED BY <1>1, <1>2 DEF Route, Plain, Last

LEMMA TextFacts ==
    ASSUME NEW t \in Text
    PROVE  /\ Len(t) \in Nat /\ \A i \in 1 .. Len(t) : t[i] \in Character
           /\ t = <<>> <=> Len(t) = 0
<1>1. t \in Seq(Character)
  BY DEF Text
<1>2. Len(t) \in Nat /\ \A i \in 1 .. Len(t) : t[i] \in Character
  BY <1>1, LenProperties, ElementOfSeq
<1> QED BY <1>1, <1>2, EmptySeq

LEMMA SameText ==
    ASSUME NEW s \in Text, NEW t \in Text, Len(s) = Len(t), \A i \in 1 .. Len(s) : s[i] = t[i]
    PROVE  s = t
BY SeqEqual DEF Text

LEMMA Associates ==
    ASSUME NEW s \in Text, NEW t \in Text, NEW u \in Text
    PROVE  (s \o t) \o u = s \o (t \o u)
BY ConcatAssociative DEF Text

LEMMA Piece ==
    ASSUME NEW t \in Text, NEW m \in Nat \ {0}, NEW n \in Nat, m <= n + 1, n <= Len(t)
    PROVE  /\ SubSeq(t, m, n) \in Text /\ Len(SubSeq(t, m, n)) = n - m + 1
           /\ \A i \in 1 .. n - m + 1 : SubSeq(t, m, n)[i] = t[m + i - 1]
<1>1. m \in Int /\ n \in Int /\ \A i \in m .. n : t[i] \in Character
  BY TextFacts
<1>2. /\ SubSeq(t, m, n) \in Seq(Character)
      /\ Len(SubSeq(t, m, n)) = IF m <= n THEN n - m + 1 ELSE 0
      /\ \A i \in 1 .. n - m + 1 : SubSeq(t, m, n)[i] = t[m + i - 1]
  BY <1>1, SubSeqProperties
<1> QED BY <1>2 DEF Text

LEMMA PrefixSplits ==
    ASSUME NEW s \in Text, NEW t \in Text, IsPrefix(s, t)
    PROVE  Suffix(s, t) \in Text /\ t = s \o Suffix(s, t)
<1>1. Len(s) \in Nat /\ Len(t) \in Nat /\ Len(s) <= Len(t)
  BY LenProperties DEF Text, IsPrefix
<1>2. SubSeq(s, 1, Len(s)) = SubSeq(t, 1, Len(s)) /\ SubSeq(s, 1, Len(s)) = s
  BY SubSeqFull DEF Text, IsPrefix
<1>3. Suffix(s, t) \in Text
  <2>1. Len(s) + 1 \in Nat \ {0} /\ Len(s) + 1 <= Len(t) + 1
    BY <1>1
  <2> QED BY <1>1, <2>1, Piece DEF Suffix
<1>4. SubSeq(t, 1, Len(s)) \o SubSeq(t, Len(s) + 1, Len(t)) = SubSeq(t, 1, Len(t))
  <2>1. /\ t \in Seq(Character) /\ 1 \in 1 .. Len(t) + 1
        /\ Len(s) \in (1 - 1) .. Len(t) /\ Len(t) \in Len(s) .. Len(t)
    BY <1>1 DEF Text
  <2> QED BY <2>1, ConcatAdjacentSubSeq
<1>5. SubSeq(t, 1, Len(t)) = t
  BY SubSeqFull DEF Text
<1> QED BY <1>2, <1>3, <1>4, <1>5 DEF Suffix

LEMMA PrefixOfConcat ==
    ASSUME NEW s \in Text, NEW u \in Text
    PROVE  s \o u \in Text /\ IsPrefix(s, s \o u) /\ Suffix(s, s \o u) = u
<1> DEFINE t == s \o u
<1>1. /\ t \in Text /\ Len(s) \in Nat /\ Len(u) \in Nat /\ Len(t) = Len(s) + Len(u)
      /\ \A i \in 1 .. Len(s) + Len(u) : t[i] = IF i <= Len(s) THEN s[i] ELSE u[i - Len(s)]
  BY LenProperties, ConcatProperties DEF Text
<1> HIDE DEF t
<1>2. SubSeq(s, 1, Len(s)) = s
  BY SubSeqFull DEF Text
<1>3. SubSeq(t, 1, Len(s)) = s
  <2>1. \A i \in 1 .. Len(s) : t[i] = s[i] /\ t[i] \in Character
    BY <1>1, ElementOfSeq DEF Text
  <2>2. /\ SubSeq(t, 1, Len(s)) \in Text /\ Len(SubSeq(t, 1, Len(s))) = Len(s) - 1 + 1
        /\ \A i \in 1 .. Len(s) - 1 + 1 : SubSeq(t, 1, Len(s))[i] = t[1 + i - 1]
    BY <1>1, Piece
  <2>3. /\ Len(SubSeq(t, 1, Len(s))) = Len(s)
        /\ \A i \in 1 .. Len(s) : SubSeq(t, 1, Len(s))[i] = s[i]
    BY <1>1, <2>1, <2>2
  <2> QED BY <2>2, <2>3, SameText
<1>4. Suffix(s, t) = u
  <2>1. \A i \in 1 .. Len(u) : t[Len(s) + i] = u[i]
    BY <1>1
  <2>2. Len(s) + 1 \in Nat \ {0} /\ Len(s) + 1 <= Len(t) + 1 /\ Len(t) \in Nat
    BY <1>1
  <2>3. /\ Suffix(s, t) \in Text /\ Len(Suffix(s, t)) = Len(t) - (Len(s) + 1) + 1
        /\ \A i \in 1 .. Len(t) - (Len(s) + 1) + 1 : Suffix(s, t)[i] = t[(Len(s) + 1) + i - 1]
    BY <1>1, <2>2, Piece DEF Suffix
  <2>4. Len(Suffix(s, t)) = Len(u)
    BY <1>1, <2>3
  <2>5. ASSUME NEW i \in 1 .. Len(u) PROVE Suffix(s, t)[i] = u[i]
    <3>1. i \in 1 .. Len(t) - (Len(s) + 1) + 1 /\ (Len(s) + 1) + i - 1 = Len(s) + i
      BY <1>1
    <3> QED BY <2>1, <2>3, <3>1
  <2> QED BY <2>3, <2>4, <2>5, SameText
<1>5. IsPrefix(s, t)
  BY <1>1, <1>2, <1>3 DEF IsPrefix
<1> QED BY <1>1, <1>4, <1>5 DEF t

LEMMA RootPrefix ==
    ASSUME NEW t \in Text
    PROVE  IsPrefix(Root, t) <=> t \in Route
<1>1. CASE IsPrefix(Root, t)
  <2>1. Suffix(Root, t) \in Text /\ t = Root \o Suffix(Root, t)
    BY <1>1, PrefixSplits, RootType DEF Route
  <2>2. Len(t) = 1 + Len(Suffix(Root, t)) /\ t[1] = "/" /\ Len(Suffix(Root, t)) \in Nat
    <3>1. Root \in Seq(Character) /\ Suffix(Root, t) \in Seq(Character)
      BY <2>1, RootType DEF Text, Route
    <3>2. Len(Suffix(Root, t)) \in Nat
      BY <3>1, LenProperties
    <3>3. /\ Len(t) = Len(Root) + Len(Suffix(Root, t))
          /\ \A i \in 1 .. Len(Root) + Len(Suffix(Root, t)) :
                t[i] = IF i <= Len(Root) THEN Root[i] ELSE Suffix(Root, t)[i - Len(Root)]
      BY <2>1, <3>1, ConcatProperties
    <3> QED BY <3>2, <3>3, RootType
  <2>3. t # <<>>
    BY <2>2, EmptySeq
  <2> QED BY <1>1, <2>2, <2>3 DEF Route
<1>2. CASE t \in Route
  <2>1. Len(t) \in Nat /\ Len(t) >= 1
    BY <1>2, EmptySeq, LenProperties DEF Route, Text
  <2>2. SubSeq(Root, 1, 1) = Root
    BY RootType, SubSeqFull DEF Route, Text
  <2>3. /\ SubSeq(t, 1, 1) \in Text /\ Len(SubSeq(t, 1, 1)) = 1 - 1 + 1
        /\ \A i \in 1 .. 1 - 1 + 1 : SubSeq(t, 1, 1)[i] = t[1 + i - 1]
    BY <1>2, <2>1, Piece DEF Route
  <2>4. Len(SubSeq(t, 1, 1)) = 1 /\ SubSeq(t, 1, 1)[1] = "/"
    BY <1>2, <2>3 DEF Route
  <2>5. SubSeq(t, 1, 1) = Root
    <3>1. Root \in Text /\ Len(Root) = 1 /\ Root[1] = "/"
      BY RootType DEF Route
    <3>2. \A i \in 1 .. Len(SubSeq(t, 1, 1)) : SubSeq(t, 1, 1)[i] = Root[i]
      BY <2>4, <3>1
    <3> QED BY <2>3, <2>4, <3>1, <3>2, SameText
  <2>6. Len(Root) <= Len(t) /\ SubSeq(Root, 1, Len(Root)) = SubSeq(t, 1, Len(Root))
    BY <2>1, <2>2, <2>5, RootType
  <2> QED BY <1>2, <2>6 DEF IsPrefix
<1> QED BY <1>1, <1>2

\* Paths behind one another.
LEMMA Behind ==
    ASSUME NEW p \in Route \cup Plain, NEW x \in Route
    PROVE  /\ p \o x \in Route /\ Last(p \o x) = Last(x)
           /\ p \o x # p
           /\ p = <<>> => p \o x = x
<1>1. p \in Text /\ x \in Text /\ p \o x \in Text
  BY PrefixOfConcat DEF Route, Plain
<1>2. /\ Len(p) \in Nat /\ Len(x) \in Nat /\ Len(x) >= 1
      /\ Len(p \o x) = Len(p) + Len(x)
      /\ \A i \in 1 .. Len(p) + Len(x) : (p \o x)[i] = IF i <= Len(p) THEN p[i] ELSE x[i - Len(p)]
  BY <1>1, EmptySeq, LenProperties, ConcatProperties DEF Route, Text
<1>3. (p \o x)[Len(p) + Len(x)] = x[Len(x)]
  BY <1>2
<1>4. p \o x # <<>> /\ p \o x # p
  BY <1>2, EmptySeq
<1>5. (p \o x)[1] = "/"
  <2>1. CASE p = <<>>
    BY <1>1, <2>1, ConcatEmptySeq DEF Text, Route
  <2>2. CASE p # <<>>
    <3>1. Len(p) >= 1 /\ p[1] = "/"
      BY <1>1, <1>2, <2>2, EmptySeq DEF Text, Route, Plain
    <3> QED BY <1>2, <3>1
  <2> QED BY <2>1, <2>2
<1>6. p = <<>> => p \o x = x
  BY <1>1, ConcatEmptySeq DEF Text
<1> QED BY <1>1, <1>2, <1>3, <1>4, <1>5, <1>6 DEF Route, Last

-----------------------------------------------------------------------------
(* Routes: prefixes without their trailing slashes *)

\* A set of naturals has a least element.
LEMMA LeastElement ==
    ASSUME NEW S \in SUBSET Nat, S # {}
    PROVE  \E m \in S : \A n \in S : m <= n
<1> DEFINE R == {p \in Nat \X Nat : p[1] < p[2]}
<1>1. IsWellFoundedOn(R, Nat)
  BY NatLessThanWellFounded DEF OpToRel
<1>2. PICK x \in S : \A y \in S : <<y, x>> \notin R
  <2> HIDE DEF R
  <2> QED BY <1>1, WFMin, Zenon
<1>3. ASSUME NEW y \in S PROVE x <= y
  <2>1. <<y, x>> \notin R /\ <<y, x>> \in Nat \X Nat
    BY <1>2
  <2>2. ~(<<y, x>>[1] < <<y, x>>[2])
    BY <2>1
  <2>3. ~(y < x)
    BY <2>2
  <2> QED BY <2>3
<1> QED BY <1>3

\* A bounded set of naturals has a greatest.
LEMMA MaxIs ==
    ASSUME NEW n \in Nat, NEW S \in SUBSET (0 .. n), S # {}
    PROVE  Max(S) \in S /\ \A y \in S : Max(S) >= y
<1> DEFINE T == {n - y : y \in S}
<1>1. T \in SUBSET Nat /\ T # {}
  <2>1. \A y \in S : y \in Nat /\ y <= n
    OBVIOUS
  <2>2. \A y \in S : n - y \in Nat
    BY <2>1
  <2> QED BY <2>2
<1>2. PICK m \in T : \A k \in T : m <= k
  BY <1>1, LeastElement
<1>3. PICK x \in S : m = n - x
  BY <1>2
<1>4. \A y \in S : x >= y
  <2> TAKE y \in S
  <2>1. n - y \in T /\ x \in Nat /\ y \in Nat
    OBVIOUS
  <2>2. n - x <= n - y
    BY <1>2, <1>3, <2>1
  <2> QED BY <2>1, <2>2
<1> QED BY <1>4 DEF Max

\* What is left of a path when its trailing slashes are removed.
LEMMA TrailingIs ==
    ASSUME NEW p \in Route
    PROVE  /\ WithoutTrailing(p) \in Plain
           /\ Last(p) # "/" => WithoutTrailing(p) = p
<1> DEFINE S == {0} \cup {i \in DOMAIN p : p[i] # "/"}
           k == Max(S)
           w == WithoutTrailing(p)
<1>1. p \in Text /\ Len(p) \in Nat /\ Len(p) >= 1 /\ DOMAIN p = 1 .. Len(p) /\ p[1] = "/"
  BY TextFacts, LenProperties DEF Route, Text
<1>2. S \in SUBSET (0 .. Len(p)) /\ S # {} /\ 0 \in S
  BY <1>1
<1>3. k \in S /\ \A y \in S : k >= y
  <2> HIDE DEF S
  <2> QED BY <1>1, <1>2, MaxIs
<1>4. w = SubSeq(p, 1, k)
  BY DEF WithoutTrailing
<1>5. k \in 0 .. Len(p) /\ (k # 0 => p[k] # "/")
  BY <1>2, <1>3
<1> HIDE DEF k, w
<1>6. /\ w \in Text /\ Len(w) = k - 1 + 1
      /\ \A i \in 1 .. k - 1 + 1 : w[i] = p[1 + i - 1]
  BY <1>1, <1>4, <1>5, Piece
<1>7. Len(w) = k /\ k \in Nat /\ \A i \in 1 .. k : w[i] = p[i]
  BY <1>5, <1>6
<1>8. w \in Plain
  <2>1. CASE k = 0
    BY <1>6, <1>7, <2>1, TextFacts DEF Plain
  <2>2. CASE k # 0
    BY <1>1, <1>5, <1>6, <1>7, <2>2 DEF Plain
  <2> QED BY <2>1, <2>2
<1>9. ASSUME Last(p) # "/" PROVE w = p
  <2>1. Len(p) \in S
    BY <1>1, <1>9 DEF Last
  <2>2. k = Len(p)
    <3>1. k >= Len(p)
      <4> HIDE DEF S
      <4> QED BY <1>3, <2>1
    <3>2. k \in 0 .. Len(p) /\ Len(p) \in Nat
      BY <1>1, <1>5
    <3> QED BY <3>1, <3>2
  <2> QED BY <1>1, <1>6, <1>7, <2>2, SameText
<1> QED BY <1>8, <1>9 DEF w

LEMMA PlainOrRoute ==
    ASSUME NEW w \in Plain, w # <<>>
    PROVE  w \in Route /\ Last(w) # "/" /\ WithoutTrailing(w) = w
<1>1. w \in Route /\ Last(w) # "/"
  BY DEF Plain, Route, Last
<1> QED BY <1>1, TrailingIs

\* A setting ends in at most one slash.
Tidy(p) == p = WithoutTrailing(p) \/ p = WithoutTrailing(p) \o Root

-----------------------------------------------------------------------------
(* Routes: what is stripped, strip_from *)
LEMMA StripType ==
    ASSUME NEW prefix \in Route, NEW path \in Route
    PROVE  /\ StripFrom(prefix, path) \in SUBSET Route
           /\ \A a, b \in StripFrom(prefix, path) : a = b
<1>1. CASE ~IsPrefix(prefix, path)
  BY <1>1 DEF StripFrom
<1>2. CASE IsPrefix(prefix, path)
  <2>1. Suffix(prefix, path) \in Text
    BY <1>2, PrefixSplits DEF Route
  <2>2. Root \o Suffix(prefix, path) \in Route
    <3>1. Root \o Suffix(prefix, path) \in Text /\ IsPrefix(Root, Root \o Suffix(prefix, path))
      BY <2>1, RootType, PrefixOfConcat DEF Route
    <3> QED BY <3>1, RootPrefix
  <2>3. \A rest \in {Suffix(prefix, path)} : IsPrefix(Root, rest) => rest \in Route
    BY <2>1, RootPrefix
  <2>4. \/ StripFrom(prefix, path) = {Root \o Suffix(prefix, path)}
        \/ StripFrom(prefix, path) = {Root}
        \/ StripFrom(prefix, path) = {rest \in {Suffix(prefix, path)} : IsPrefix(Root, rest)}
    BY <1>2 DEF StripFrom
  <2> QED BY <2>2, <2>3, <2>4, RootType
<1> QED BY <1>1, <1>2

\* Of a prefix that ends in a slash the slash stays.
LEMMA StripSlash ==
    ASSUME NEW w \in Plain, NEW x \in Route
    PROVE  w \o x \in Route /\ StripFrom(w \o Root, w \o x) = {x}
<1>1. w \in Text /\ x \in Text /\ Root \in Text
  BY RootType DEF Plain, Route
<1>2. PICK u \in Text : x = Root \o u
  <2>1. Suffix(Root, x) \in Text /\ x = Root \o Suffix(Root, x)
    BY <1>1, PrefixSplits, RootPrefix
  <2> QED BY <2>1, Zenon
<1> DEFINE p == w \o Root
<1>3. p \in Text /\ Last(p) = "/"
  BY <1>1, Behind, RootType DEF Route
<1>4. w \o x = p \o u
  <2>1. (w \o Root) \o u = w \o (Root \o u)
    BY <1>1, Associates
  <2> QED BY <1>2, <2>1
<1>5. IsPrefix(p, p \o u) /\ Suffix(p, p \o u) = u
  <2> HIDE DEF p
  <2> QED BY <1>2, <1>3, PrefixOfConcat
<1>6. StripFrom(p, w \o x) = {x}
  <2> HIDE DEF p
  <2> QED BY <1>2, <1>3, <1>4, <1>5 DEF StripFrom
<1>7. w \o x \in Route
  BY Behind
<1> QED BY <1>6, <1>7

\* Of a prefix that ends a segment nothing stays, or what follows.
LEMMA StripSegment ==
    ASSUME NEW w \in Plain, w # <<>>
    PROVE  /\ StripFrom(w, w) = {Root}
           /\ \A x \in Route : w \o x \in Route /\ StripFrom(w, w \o x) = {x} /\ w \o x # w
<1>1. w \in Text /\ w \in Route /\ Last(w) # "/"
  BY PlainOrRoute DEF Plain
<1>2. IsPrefix(w, w)
  BY <1>1, TextFacts DEF IsPrefix
<1>3. StripFrom(w, w) = {Root}
  BY <1>1, <1>2 DEF StripFrom
<1>4. ASSUME NEW x \in Route
      PROVE  w \o x \in Route /\ StripFrom(w, w \o x) = {x} /\ w \o x # w
  <2>1. w \o x \in Route /\ w \o x # w
    BY Behind
  <2>2. IsPrefix(w, w \o x) /\ Suffix(w, w \o x) = x
    BY <1>1, PrefixOfConcat DEF Route
  <2>3. IsPrefix(Root, x)
    BY RootPrefix DEF Route
  <2> QED BY <1>1, <2>1, <2>2, <2>3 DEF StripFrom
<1> QED BY <1>3, <1>4

\* And nothing else is stripped.
LEMMA StripCases ==
    ASSUME NEW prefix \in Route, Tidy(prefix), NEW path \in Route, StripFrom(prefix, path) # {}
    PROVE  LET w == WithoutTrailing(prefix) IN
           /\ w \in Plain
           /\ \/ prefix = w \o Root /\ \E x \in Route : path = w \o x
              \/ prefix = w /\ w # <<>> /\ path = w
              \/ prefix = w /\ w # <<>> /\ \E x \in Route : path = w \o x
<1> DEFINE w == WithoutTrailing(prefix)
<1>1. w \in Plain /\ prefix \in Text /\ path \in Text /\ prefix # <<>>
  BY TrailingIs DEF Route
<1>2. PICK u \in Text : path = prefix \o u /\ u = Suffix(prefix, path) /\ IsPrefix(prefix, path)
  <2>1. IsPrefix(prefix, path)
    BY DEF StripFrom
  <2>2. Suffix(prefix, path) \in Text /\ path = prefix \o Suffix(prefix, path)
    BY <1>1, <2>1, PrefixSplits
  <2> QED BY <2>1, <2>2, Zenon
<1>3. CASE prefix = w \o Root
  <2>1. w \in Text /\ Root \in Text
    BY <1>1, RootType DEF Plain, Route
  <2>2. path = w \o (Root \o u)
    <3>1. (w \o Root) \o u = w \o (Root \o u)
      BY <1>2, <2>1, Associates
    <3> QED BY <1>2, <1>3, <3>1
  <2>3. Root \o u \in Text /\ IsPrefix(Root, Root \o u)
    BY <1>2, <2>1, PrefixOfConcat
  <2>4. Root \o u \in Route
    BY <2>3, RootPrefix
  <2> QED BY <1>1, <1>3, <2>2, <2>4
<1>4. CASE prefix = w
  <2>1. Last(prefix) # "/"
    BY <1>1, <1>4, PlainOrRoute
  <2>2. CASE path # prefix
    <3>1. IsPrefix(Root, u)
      BY <1>2, <2>1, <2>2 DEF StripFrom
    <3>2. u \in Route
      BY <1>2, <3>1, RootPrefix
    <3> QED BY <1>1, <1>2, <1>4, <3>2
  <2> QED BY <1>1, <1>4, <2>2
<1> QED BY <1>3, <1>4 DEF Tidy

\* Where a prefix is stripped a cookie with that path is shown.
LEMMA StripMatches ==
    ASSUME NEW prefix \in Route, NEW path \in Route, StripFrom(prefix, path) # {}
    PROVE  PathMatches(prefix, path)
<1>1. IsPrefix(prefix, path)
  BY DEF StripFrom
<1>2. CASE path # prefix /\ Last(prefix) # "/"
  <2> DEFINE u == Suffix(prefix, path)
  <2>1. u \in Text /\ path = prefix \o u /\ prefix \in Text
    BY <1>1, PrefixSplits DEF Route
  <2>2. IsPrefix(Root, u)
    BY <1>1, <1>2 DEF StripFrom
  <2>3. u \in Route
    BY <2>1, <2>2, RootPrefix
  <2> HIDE DEF u
  <2>4. Len(u) \in Nat /\ Len(u) >= 1 /\ u[1] = "/" /\ Len(prefix) \in Nat
    BY <2>1, <2>3, TextFacts DEF Route
  <2>5. \A i \in 1 .. Len(prefix) + Len(u) :
            path[i] = IF i <= Len(prefix) THEN prefix[i] ELSE u[i - Len(prefix)]
    BY <2>1, ConcatProperties DEF Text
  <2>6. path[Len(prefix) + 1] = "/"
    <3>1. Len(prefix) + 1 \in 1 .. Len(prefix) + Len(u) /\ (Len(prefix) + 1) - Len(prefix) = 1
          /\ ~(Len(prefix) + 1 <= Len(prefix))
      BY <2>4
    <3> QED BY <2>4, <2>5, <3>1
  <2> QED BY <1>1, <2>6 DEF PathMatches
<1> QED BY <1>1, <1>2 DEF PathMatches

-----------------------------------------------------------------------------
(* Routes: public and ingress paths *)

LEMMA TheIs == \A x : The({x}) = x
BY DEF The

LEMMA OptionIs ==
    ASSUME NEW S, NEW option \in Option(S)
    PROVE  option = {} \/ \E x \in S : option = {x}
BY DEF Option

LEMMA BaseIs ==
    /\ Base({}) = <<>> /\ <<>> \in Plain
    /\ \A p : Base({p}) = WithoutTrailing(p)
    /\ \A option \in Option(Route) : Base(option) \in Plain
<1>1. Base({}) = <<>> /\ \A p : Base({p}) = WithoutTrailing(p)
  BY TheIs DEF Base
<1>2. <<>> \in Plain
  BY EmptySeq DEF Plain, Text
<1>3. ASSUME NEW option \in Option(Route) PROVE Base(option) \in Plain
  <2>1. CASE option = {}
    BY <1>1, <1>2, <2>1
  <2>2. ASSUME NEW x \in Route, option = {x} PROVE Base(option) \in Plain
    BY <1>1, <2>2, TrailingIs
  <2> QED BY <2>1, <2>2, OptionIs
<1> QED BY <1>1, <1>2, <1>3

LEMMA PlainText == \A w \in Plain : w \in Text /\ w \o <<>> = w
BY ConcatEmptySeq DEF Plain, Text

\* What is left of a route behind the prefix that is stripped, if it is there.
Rests(strip, route) == UNION {StripFrom(prefix, route) : prefix \in strip}

LEMMA RestsAre ==
    ASSUME NEW route
    PROVE  Rests({}, route) = {} /\ \A P : Rests({P}, route) = StripFrom(P, route)
BY DEF Rests

\* The public path of a route, by what is stripped of it.
LEMMA BrowserPathOf ==
    ASSUME NEW mount \in Option(Route), NEW strip, NEW route, NEW stripped \in Text,
           stripped = IF strip = {route} /\ Last(route) # "/" THEN <<>>
                      ELSE IF Rests(strip, route) = {} THEN route ELSE The(Rests(strip, route))
    PROVE  /\ stripped \in Route => BrowserPath(route, strip, mount) = Base(mount) \o stripped
           /\ stripped = <<>> => BrowserPath(route, strip, mount) =
                                     IF Base(mount) = <<>> THEN Root ELSE Base(mount)
<1> DEFINE B == Base(mount)
           path == B \o stripped
<1>1. B \in Plain
  BY BaseIs
<1>2. BrowserPath(route, strip, mount) = IF path = <<>> THEN Root ELSE path
  BY DEF BrowserPath, Rests
<1>3. stripped \in Route => path # <<>>
  <2>1. stripped \in Route => path \in Route
    BY <1>1, Behind
  <2> QED BY <2>1 DEF Route
<1>4. stripped = <<>> => path = B
  BY <1>1, PlainText
<1> QED BY <1>2, <1>3, <1>4

LEMMA BrowserPathUnstripped ==
    ASSUME NEW mount \in Option(Route), NEW route \in Route
    PROVE  BrowserPath(route, {}, mount) = Base(mount) \o route
<1> DEFINE rests == Rests({}, route)
<1>1. rests = {} /\ route \in Text
  BY RestsAre DEF Route
<1>2. route = IF {} = {route} /\ Last(route) # "/" THEN <<>>
              ELSE IF rests = {} THEN route ELSE The(rests)
  <2> HIDE DEF rests
  <2> QED BY <1>1
<1> QED BY <1>1, <1>2, BrowserPathOf

LEMMA BrowserPathStripped ==
    ASSUME NEW mount \in Option(Route), NEW route \in Route, NEW P \in Route, NEW x \in Route,
           StripFrom(P, route) = {x}, ~(P = route /\ Last(route) # "/")
    PROVE  BrowserPath(route, {P}, mount) = Base(mount) \o x
<1> DEFINE rests == Rests({P}, route)
<1>1. rests = {x} /\ x \in Text
  BY RestsAre DEF Route
<1>2. x = IF {P} = {route} /\ Last(route) # "/" THEN <<>>
          ELSE IF rests = {} THEN route ELSE The(rests)
  <2>1. ~({P} = {route} /\ Last(route) # "/")
    OBVIOUS
  <2>2. rests # {} /\ The(rests) = x
    BY <1>1, TheIs
  <2> HIDE DEF rests
  <2> QED BY <2>1, <2>2
<1> QED BY <1>1, <1>2, BrowserPathOf

LEMMA BrowserPathElsewhere ==
    ASSUME NEW mount \in Option(Route), NEW route \in Route, NEW P \in Route,
           StripFrom(P, route) = {}
    PROVE  BrowserPath(route, {P}, mount) = Base(mount) \o route
<1> DEFINE rests == Rests({P}, route)
<1>1. rests = {} /\ route \in Text
  BY RestsAre DEF Route
<1>2. ~({P} = {route} /\ Last(route) # "/")
  <2>1. ASSUME P = route, Last(route) # "/" PROVE FALSE
    <3>1. route \in Plain /\ route # <<>>
      BY <2>1, TrailingIs DEF Route
    <3> QED BY <2>1, <3>1, StripSegment
  <2> QED BY <2>1
<1>3. route = IF {P} = {route} /\ Last(route) # "/" THEN <<>>
              ELSE IF rests = {} THEN route ELSE The(rests)
  <2> HIDE DEF rests
  <2> QED BY <1>1, <1>2
<1> QED BY <1>1, <1>3, BrowserPathOf

LEMMA BrowserPathWhole ==
    ASSUME NEW mount \in Option(Route), NEW route \in Route, Last(route) # "/"
    PROVE  BrowserPath(route, {route}, mount) = IF Base(mount) = <<>> THEN Root ELSE Base(mount)
<1>1. <<>> \in Text
  BY EmptySeq DEF Text
<1> QED BY <1>1, BrowserPathOf

LEMMA BrowserPathType ==
    ASSUME NEW mount \in Option(Route), NEW strip \in Option(Route), NEW route \in Route
    PROVE  BrowserPath(route, strip, mount) \in Route
<1>1. Base(mount) \in Plain /\ \A x \in Route : Base(mount) \o x \in Route
  BY BaseIs, Behind
<1>2. CASE strip = {}
  BY <1>1, <1>2, BrowserPathUnstripped
<1>3. ASSUME NEW P \in Route, strip = {P} PROVE BrowserPath(route, strip, mount) \in Route
  <2>1. CASE StripFrom(P, route) = {}
    BY <1>1, <1>3, <2>1, BrowserPathElsewhere
  <2>2. CASE P = route /\ Last(route) # "/"
    BY <1>1, <1>3, <2>2, BrowserPathWhole, RootType, PlainOrRoute
  <2>3. CASE StripFrom(P, route) # {} /\ ~(P = route /\ Last(route) # "/")
    <3>1. PICK x \in Route : StripFrom(P, route) = {x}
      BY <2>3, StripType
    <3>2. BrowserPath(route, {P}, mount) = Base(mount) \o x
      BY <2>3, <3>1, BrowserPathStripped
    <3> QED BY <1>1, <1>3, <3>2
  <2> QED BY <2>1, <2>2, <2>3
<1> QED BY <1>2, <1>3, OptionIs

\* Only the root itself is the root.
LEMMA OnlyRoot ==
    ASSUME NEW w \in Plain, NEW x \in Route, w \o x = Root
    PROVE  w = <<>> /\ x = Root
<1>1. w \in Text /\ x \in Text /\ Len(w) \in Nat /\ Len(x) \in Nat /\ Len(x) >= 1
  BY TextFacts DEF Plain, Route
<1>2. Len(Root) = Len(w) + Len(x)
  <2>1. Len(w \o x) = Len(w) + Len(x)
    BY <1>1, ConcatProperties DEF Text
  <2> QED BY <2>1
<1>3. Len(w) = 0
  <2>1. 1 = Len(w) + Len(x)
    BY <1>2, RootType
  <2>2. \A m, n \in Nat : n >= 1 /\ 1 = m + n => m = 0
    OBVIOUS
  <2> QED BY <1>1, <2>1, <2>2
<1>4. w = <<>>
  BY <1>1, <1>3, TextFacts
<1> QED BY <1>4, Behind

\* What a proxy forwards a page to: the page behind its own prefix.
LEMMA IngressIs ==
    ASSUME NEW c, c.base \in Option(Route), c.strip \in Option(Route), NEW x \in Route
    PROVE  LET w == Base(c.strip)
               public == Base(c.base) \o x
           IN  /\ w \o x \in Ingress(c, public) /\ Ingress(c, public) \in SUBSET Route
               /\ \A uri \in Ingress(c, public) : uri # w \o x =>
                     uri = w /\ w # <<>> /\ Base(c.base) = <<>> /\ x = Root
<1> DEFINE w == Base(c.strip)
           B == Base(c.base)
<1>1. w \in Plain /\ B \in Plain /\ w \o x \in Route
  BY BaseIs, Behind
<1>2. Suffix(B, B \o x) = x
  BY <1>1, PlainText, PrefixOfConcat DEF Route
<1> HIDE DEF w, B
<1>3. w \o x # <<>>
  BY <1>1 DEF Route
<1>4. Ingress(c, B \o x) = IF B \o x = Root /\ w # <<>> THEN {w \o x, w} ELSE {w \o x}
  BY <1>2, <1>3 DEF Ingress, w, B
<1>5. w # <<>> => w \in Route
  BY <1>1, PlainOrRoute
<1> QED BY <1>1, <1>4, <1>5, OnlyRoot DEF w, B

\* What it forwards its own public prefix to.
LEMMA IngressOfBase ==
    ASSUME NEW c, c.base \in Option(Route), c.strip \in Option(Route), Base(c.base) # <<>>
    PROVE  /\ Base(c.strip) # <<>> => Base(c.strip) \in Ingress(c, Base(c.base))
           /\ Ingress(c, Base(c.base)) \in SUBSET Route
<1> DEFINE w == Base(c.strip)
           B == Base(c.base)
<1>1. w \in Plain /\ B \in Plain
  BY BaseIs
<1>2. Suffix(B, B) = <<>> /\ w \o <<>> = w
  <2>1. <<>> \in Text /\ B \in Text /\ B \o <<>> = B
    BY <1>1, PlainText, EmptySeq DEF Text
  <2>2. Suffix(B, B \o <<>>) = <<>>
    BY <2>1, PrefixOfConcat
  <2> QED BY <1>1, <2>1, <2>2, PlainText
<1>3. B # Root
  BY <1>1, RootType
<1> HIDE DEF w, B
<1>4. Ingress(c, B) = IF w = <<>> THEN {Root} ELSE {w}
  BY <1>2, <1>3 DEF Ingress, w, B
<1>5. w # <<>> => w \in Route
  BY <1>1, PlainOrRoute
<1> QED BY <1>4, <1>5, RootType DEF w, B

\* A route is what its own public path may be forwarded to.
LEMMA RouteIngress ==
    ASSUME NEW c, c.base \in Option(Route), c.strip \in Option(Route),
           \A P \in c.strip : Tidy(P), NEW route \in Route,
           \A P \in c.strip : StripFrom(P, route) # {}
    PROVE  route \in Ingress(c, BrowserPath(route, c.strip, c.base))
<1> DEFINE B == Base(c.base)
<1>1. CASE c.strip = {}
  <2>1. Base(c.strip) \o route = route
    BY <1>1, BaseIs, Behind
  <2>2. BrowserPath(route, c.strip, c.base) = B \o route
    BY <1>1, BrowserPathUnstripped
  <2> QED BY <2>1, <2>2, IngressIs
<1>2. ASSUME NEW P \in Route, c.strip = {P}
      PROVE  route \in Ingress(c, BrowserPath(route, c.strip, c.base))
  <2> DEFINE w == WithoutTrailing(P)
  <2>1. Base(c.strip) = w /\ w \in Plain
    BY <1>2, BaseIs, TrailingIs
  <2>2. \/ P = w \o Root /\ \E x \in Route : route = w \o x
        \/ P = w /\ w # <<>> /\ route = w
        \/ P = w /\ w # <<>> /\ \E x \in Route : route = w \o x
    BY <1>2, StripCases
  <2> HIDE DEF w
  <2>3. ASSUME P = w \o Root, NEW x \in Route, route = w \o x
        PROVE  route \in Ingress(c, BrowserPath(route, c.strip, c.base))
    <3>1. StripFrom(P, route) = {x}
      BY <2>1, <2>3, StripSlash
    <3>2. Last(P) = "/"
      BY <2>1, <2>3, Behind, RootType
    <3>3. BrowserPath(route, c.strip, c.base) = B \o x
      <4>1. ~(P = route /\ Last(route) # "/")
        BY <3>2
      <4> QED BY <1>2, <3>1, <4>1, BrowserPathStripped
    <3> QED BY <2>1, <2>3, <3>3, IngressIs
  <2>4. ASSUME P = w, w # <<>>, NEW x \in Route, route = w \o x
        PROVE  route \in Ingress(c, BrowserPath(route, c.strip, c.base))
    <3>1. StripFrom(P, route) = {x} /\ P # route
      BY <2>1, <2>4, StripSegment
    <3>2. BrowserPath(route, c.strip, c.base) = B \o x
      BY <1>2, <3>1, BrowserPathStripped
    <3> QED BY <2>1, <2>4, <3>2, IngressIs
  <2>5. ASSUME P = w, w # <<>>, route = w
        PROVE  route \in Ingress(c, BrowserPath(route, c.strip, c.base))
    <3>1. Last(route) # "/"
      BY <2>1, <2>5, PlainOrRoute
    <3>2. BrowserPath(route, c.strip, c.base) = IF B = <<>> THEN Root ELSE B
      BY <1>2, <2>5, <3>1, BrowserPathWhole
    <3>3. CASE B = <<>>
      <4>1. Suffix(B, Root) = Root
        <5>1. <<>> \in Text /\ Root \in Text /\ <<>> \o Root = Root
          BY BaseIs, PlainText, RootType, Behind DEF Route
        <5> QED BY <3>3, <5>1, PrefixOfConcat
      <4>2. w \o Root # <<>>
        BY <2>1, Behind, RootType DEF Route
      <4>3. Ingress(c, Root) = {w \o Root, w}
        BY <2>1, <2>5, <4>1, <4>2 DEF Ingress
      <4> QED BY <2>5, <3>2, <3>3, <4>3
    <3>4. CASE B # <<>>
      BY <2>1, <2>5, <3>2, <3>4, IngressOfBase
    <3> QED BY <3>3, <3>4
  <2> QED BY <2>2, <2>3, <2>4, <2>5
<1> QED BY <1>1, <1>2, OptionIs

-----------------------------------------------------------------------------
(* Routes: back to the page *)

LEMMA PublicUrlIs ==
    ASSUME NEW mount, NEW prefix, NEW path
    PROVE  /\ StripFrom(prefix, path) = {} => PublicUrl(mount, prefix, path) = {}
           /\ StripFrom(prefix, path) # {} =>
                 PublicUrl(mount, prefix, path) = {BrowserPath(path, {prefix}, mount)}
BY DEF PublicUrl

LEMMA PublicUrlType ==
    ASSUME NEW mount \in Option(Route), NEW prefix \in Route, NEW path \in Route
    PROVE  PublicUrl(mount, prefix, path) \in SUBSET Route
<1>1. {prefix} \in Option(Route)
  BY DEF Option
<1>2. BrowserPath(path, {prefix}, mount) \in Route
  BY <1>1, BrowserPathType
<1> QED BY <1>2, PublicUrlIs

LEMMA OriginalUrlType ==
    ASSUME NEW mount \in Option(Route), NEW strip \in Option(Route), NEW path \in Route
    PROVE  OriginalUrl(mount, strip, path) \in SUBSET Route
<1>1. strip # {} => The(strip) \in Route
  <2>1. strip = {} \/ \E x \in Route : strip = {x}
    BY OptionIs
  <2> QED BY <2>1, TheIs
<1>2. CASE strip # {} /\ Last(The(strip)) = "/"
  <2>1. \A rest \in StripFrom(The(strip), path) : PublicUrl(mount, Root, rest) \in SUBSET Route
    BY <1>1, <1>2, StripType, PublicUrlType, RootType
  <2> QED BY <1>2, <2>1 DEF OriginalUrl
<1>3. CASE ~(strip # {} /\ Last(The(strip)) = "/")
  <2>1. (IF strip = {} THEN Root ELSE The(strip)) \in Route
    BY <1>1, RootType
  <2>2. PublicUrl(mount, IF strip = {} THEN Root ELSE The(strip), path) \in SUBSET Route
    BY <2>1, PublicUrlType
  <2> QED BY <1>3, <2>2 DEF OriginalUrl
<1> QED BY <1>2, <1>3

\* Behind the root of the ingress a page is itself.
LEMMA PageUrl ==
    ASSUME NEW mount \in Option(Route), NEW x \in Route
    PROVE  PublicUrl(mount, Root, x) = {Base(mount) \o x}
<1>1. <<>> \o Root = Root /\ <<>> \o x = x /\ <<>> \in Plain
  BY BaseIs, Behind, RootType
<1>2. StripFrom(Root, x) = {x}
  BY <1>1, StripSlash
<1>3. ~(Root = x /\ Last(x) # "/")
  BY RootType
<1>4. BrowserPath(x, {Root}, mount) = Base(mount) \o x
  BY <1>2, <1>3, RootType, BrowserPathStripped
<1> QED BY <1>2, <1>4, PublicUrlIs

\* Whatever the proxy forwards a page to, its public path is found again.
LEMMA OriginalIs ==
    ASSUME NEW c, c.base \in Option(Route), c.strip \in Option(Route),
           \A P \in c.base \cup c.strip : Tidy(P), NEW x \in Route,
           NEW uri \in Ingress(c, Base(c.base) \o x)
    PROVE  LET url == OriginalUrl(c.base, c.strip, uri)
               mount == IF c.base = {} THEN Root ELSE The(c.base)
           IN  (IF url = {} THEN mount ELSE The(url)) = Base(c.base) \o x
<1> DEFINE B == Base(c.base)
           w == Base(c.strip)
           url == OriginalUrl(c.base, c.strip, uri)
           mount == IF c.base = {} THEN Root ELSE The(c.base)
<1>1. B \in Plain /\ w \in Plain /\ B \o x \in Route
  BY BaseIs, Behind
<1>2. uri \in Route /\ (uri = w \o x \/ (uri = w /\ w # <<>> /\ B = <<>> /\ x = Root))
  BY IngressIs
<1>3. SUFFICES url = {B \o x} \/ (url = {} /\ mount = B \o x)
  BY TheIs
<1>4. CASE c.strip = {}
  <2>1. w = <<>> /\ uri = x
    BY <1>2, <1>4, BaseIs, Behind
  <2>2. url = PublicUrl(c.base, Root, uri)
    BY <1>4 DEF OriginalUrl
  <2> QED BY <2>1, <2>2, PageUrl
<1>5. ASSUME NEW P \in Route, c.strip = {P} PROVE url = {B \o x} \/ (url = {} /\ mount = B \o x)
  <2>1. w = WithoutTrailing(P) /\ The(c.strip) = P /\ c.strip # {} /\ (P = w \/ P = w \o Root)
    BY <1>5, BaseIs, TheIs DEF Tidy
  <2>2. CASE P = w \o Root
    <3>1. Last(P) = "/"
      BY <1>1, <2>2, Behind, RootType
    <3>2. url = UNION {PublicUrl(c.base, Root, rest) : rest \in StripFrom(P, uri)}
      BY <2>1, <3>1 DEF OriginalUrl
    <3>3. CASE uri = w \o x
      <4>1. StripFrom(P, uri) = {x}
        BY <1>1, <2>2, <3>3, StripSlash
      <4>2. url = PublicUrl(c.base, Root, x)
        BY <3>2, <4>1
      <4> QED BY <4>2, PageUrl
    <3>4. CASE uri = w /\ w # <<>> /\ B = <<>> /\ x = Root
      <4>1. StripFrom(P, uri) = {}
        <5>1. ASSUME IsPrefix(P, w) PROVE FALSE
          <6>1. /\ Len(P) <= Len(w) /\ Len(w) \in Nat /\ Len(P) = Len(w) + 1
            <7>1. w \in Text /\ Root \in Text
              BY <1>1, RootType DEF Plain, Route
            <7>2. Len(P) = Len(w) + Len(Root)
              BY <2>2, <7>1, ConcatProperties DEF Text
            <7> QED BY <5>1, <7>1, <7>2, RootType, TextFacts DEF IsPrefix
          <6> QED BY <6>1
        <5> QED BY <3>4, <5>1 DEF StripFrom
      <4>2. url = {}
        BY <3>2, <4>1
      <4>3. B \o x = Root
        BY <1>1, <3>4, Behind, RootType
      <4>4. mount = Root
        <5>1. CASE c.base = {}
          BY <5>1
        <5>2. ASSUME NEW b \in Route, c.base = {b} PROVE mount = Root
          <6>1. mount = b /\ B = WithoutTrailing(b) /\ (b = B \/ b = B \o Root)
            BY <5>2, BaseIs, TheIs DEF Tidy
          <6> QED BY <3>4, <4>3, <6>1 DEF Route
        <5> QED BY <5>1, <5>2, OptionIs
      <4> QED BY <4>2, <4>3, <4>4
    <3> QED BY <1>2, <3>3, <3>4
  <2>3. CASE P = w
    <3>1. w # <<>> /\ Last(P) # "/"
      BY <1>1, <1>5, <2>3, PlainOrRoute DEF Route
    <3>2. url = PublicUrl(c.base, P, uri)
      BY <2>1, <3>1 DEF OriginalUrl
    <3>3. CASE uri = w \o x
      <4>1. StripFrom(P, uri) = {x} /\ P # uri
        BY <1>1, <2>3, <3>1, <3>3, StripSegment
      <4>2. BrowserPath(uri, {P}, c.base) = B \o x
        BY <1>2, <1>5, <4>1, BrowserPathStripped
      <4> QED BY <3>2, <4>1, <4>2, PublicUrlIs
    <3>4. CASE uri = w /\ w # <<>> /\ B = <<>> /\ x = Root
      <4>1. StripFrom(P, uri) # {}
        BY <1>1, <2>3, <3>4, StripSegment
      <4>2. BrowserPath(uri, {P}, c.base) = Root
        BY <1>5, <2>3, <3>1, <3>4, BrowserPathWhole
      <4>3. B \o x = Root
        BY <1>1, <3>4, Behind, RootType
      <4> QED BY <3>2, <4>1, <4>2, <4>3, PublicUrlIs
    <3> QED BY <1>2, <3>3, <3>4
  <2> QED BY <2>1, <2>2, <2>3
<1> QED BY <1>4, <1>5, OptionIs

-----------------------------------------------------------------------------
(* Routes: types of the settings *)

Config ==
    [callback : Route, logout : Option(Route), base : Option(Route), strip : Option(Route),
     mapping : SUBSET [base : Option(Route), strip : Option(Route)],
     browserCallback : Route, browserLogout : Option(Route)]

Engine == [cookiePath : Path, store : BOOLEAN, secure : BOOLEAN]

RoutesTyped ==
    /\ config \in Option(Config)
    /\ edits \in 0..MaxEdits
    /\ engine \in Option(Engine)
    /\ config = {} => engine = {}
    /\ engine = {} => browser.pc # "provider"
    /\ \A k \in cookies : k.kind \in {"login", "session"} /\ k.path \in Route
    /\ browser \in [pc : {"idle", "provider", "returned", "lost"}, wanted : Route,
                    original : Route, sees : SUBSET {"login", "session"}]

LEMMA TypedIsTyped == RoutesTyped => RoutesTypeOK
<1> SUFFICES ASSUME RoutesTyped PROVE RoutesTypeOK
  OBVIOUS
<1>1. \A path \in Route : IsRoute(path)
  <2> TAKE path \in Route
  <2>1. path # <<>> /\ path[1] = "/" /\ path \in Seq(Character)
    BY DEF Route, Text
  <2>2. Head(path) = path[1]
    BY <2>1
  <2> QED BY <2>1, <2>2 DEF IsRoute
<1>2. ASSUME NEW c \in config,
             NEW path \in {c.callback, c.browserCallback} \cup c.logout \cup c.browserLogout
                              \cup c.base \cup c.strip
      PROVE  path \in Route
  <2>1. c \in Config
    BY <1>2, OptionIs DEF RoutesTyped
  <2>2. \A option \in Option(Route) : option \in SUBSET Route
    BY DEF Option
  <2> QED BY <1>2, <2>1, <2>2 DEF Config
<1>3. browser.pc \in {"idle", "provider", "returned", "lost"}
      /\ browser.sees \subseteq {"login", "session"}
  BY DEF RoutesTyped
<1> QED BY <1>1, <1>2, <1>3 DEF RoutesTyped, RoutesTypeOK, Engine

LEMMA SettingsAreRoutes ==
    /\ \A path \in Path \cup Page : path \in Route
    /\ \A option \in Option(Path) : option \in Option(Route)
<1>1. \A path \in Path \cup Page : path \in Route
  BY PathAssumption, RootPrefix DEF Text
<1> QED BY <1>1 DEF Option

\* What validate_and_recompute fills in.
LEMMA DerivedIs ==
    ASSUME NEW c \in Config
    PROVE  LET d == Derived(c) IN
           /\ d \in Config
           /\ d.callback = c.callback /\ d.logout = c.logout
           /\ d.base = c.base /\ d.strip = c.strip
           /\ d.browserCallback = BrowserPath(d.callback, d.strip, d.base)
           /\ d.browserLogout = {BrowserPath(route, d.strip, d.base) : route \in d.logout}
<1> DEFINE d == Derived(c)
           front == BrowserPath(c.callback, c.strip, c.base)
           fronts == {BrowserPath(route, c.strip, c.base) : route \in c.logout}
<1>1. /\ c.callback \in Route /\ c.logout \in Option(Route) /\ c.base \in Option(Route)
      /\ c.strip \in Option(Route)
  BY DEF Config
<1>2. front \in Route
  BY <1>1, BrowserPathType
<1>3. fronts \in Option(Route)
  <2>1. CASE c.logout = {}
    BY <2>1 DEF Option
  <2>2. ASSUME NEW x \in Route, c.logout = {x} PROVE fronts \in Option(Route)
    <3>1. BrowserPath(x, c.strip, c.base) \in Route
      BY <1>1, BrowserPathType
    <3>2. fronts = {BrowserPath(x, c.strip, c.base)}
      BY <2>2
    <3> QED BY <3>1, <3>2 DEF Option
  <2>3. c.logout = {} \/ \E x \in Route : c.logout = {x}
    BY <1>1, OptionIs
  <2> QED BY <2>1, <2>2, <2>3
<1>4. d = [c EXCEPT !.browserCallback = front, !.browserLogout = fronts]
  BY DEF Derived
<1> HIDE DEF d, front, fronts
<1>5. d \in Config
  BY <1>2, <1>3, <1>4 DEF Config
<1>6. /\ d.callback = c.callback /\ d.logout = c.logout /\ d.base = c.base /\ d.strip = c.strip
      /\ d.browserCallback = front /\ d.browserLogout = fronts
  BY <1>4 DEF Config
<1> QED BY <1>5, <1>6 DEF d, front, fronts

LEMMA LoginConfigIs ==
    ASSUME NEW callback \in Route, NEW exit \in Option(Route), NEW mount \in Option(Route),
           NEW strip \in Option(Route),
           NEW mapping \in SUBSET [base : Option(Route), strip : Option(Route)]
    PROVE  LET c == LoginConfig(callback, exit, mount, strip, mapping) IN
           c \in Config /\ c.base = mount /\ c.strip = strip
<1>1. Root \in Route /\ {} \in Option(Route)
  BY RootType DEF Option
<1> QED BY <1>1 DEF LoginConfig, Config

\* The paths of a mapping are settings without trailing slashes.
LEMMA MappingIs ==
    ASSUME NEW mount \in Option(Route), NEW strip \in Option(Route)
    PROVE  LET m == MappingPaths(mount, strip) IN
           /\ m \in [base : Option(Route), strip : Option(Route)]
           /\ Base(m.base) = Base(mount) /\ m.strip \subseteq strip
           /\ \A p \in m.base : Tidy(p)
<1> DEFINE B == Base(mount)
           m == MappingPaths(mount, strip)
<1>1. B \in Plain /\ Base({}) = <<>>
  BY BaseIs
<1>2. m.base = (IF B = <<>> THEN {} ELSE {B}) /\ m.strip = strip \ {Root}
  BY DEF MappingPaths
<1>3. m.base \in Option(Route) /\ Base(m.base) = B /\ \A p \in m.base : Tidy(p)
  <2>1. CASE B = <<>>
    BY <1>1, <1>2, <2>1 DEF Option
  <2>2. CASE B # <<>>
    <3>1. B \in Route /\ WithoutTrailing(B) = B
      BY <1>1, <2>2, PlainOrRoute
    <3>2. m.base = {B}
      BY <1>2, <2>2
    <3>3. Base({B}) = B
      BY <3>1, BaseIs
    <3> QED BY <3>1, <3>2, <3>3 DEF Option, Tidy
  <2> QED BY <2>1, <2>2
<1>4. strip \ {Root} \in Option(Route)
  <2>1. strip = {} \/ \E x \in Route : strip = {x}
    BY OptionIs
  <2> QED BY <2>1 DEF Option
<1>5. m \in [base : Option(Route), strip : Option(Route)]
  BY <1>2, <1>3, <1>4 DEF MappingPaths
<1> QED BY <1>2, <1>3, <1>5

LEMMA CallbackPathsType ==
    ASSUME NEW mount \in Option(Route), NEW strip \in Option(Route), NEW rest \in Page \cup {<<>>},
           Base(mount) \o rest # <<>>
    PROVE  CallbackPaths(MappingPaths(mount, strip), Base(mount) \o rest) \in SUBSET Route
<1> DEFINE B == Base(mount)
           m == MappingPaths(mount, strip)
<1>1. m.base \in Option(Route) /\ m.strip \in Option(Route) /\ Base(m.base) = B /\ B \in Plain
  BY MappingIs, BaseIs
<1> HIDE DEF m, B
<1>2. Ingress(m, B \o rest) \in SUBSET Route
  <2>1. CASE rest \in Page
    BY <1>1, <2>1, SettingsAreRoutes, IngressIs
  <2>2. CASE rest = <<>>
    <3>1. B \o rest = B
      BY <1>1, <2>2, PlainText
    <3> QED BY <1>1, <3>1, IngressOfBase DEF B
  <2> QED BY <2>1, <2>2
<1>3. CallbackPaths(m, B \o rest) \in SUBSET (Ingress(m, B \o rest) \cup Path)
  BY DEF CallbackPaths
<1> QED BY <1>2, <1>3, SettingsAreRoutes DEF m, B

-----------------------------------------------------------------------------
(* Routes: what a step does *)

\* A browser accepts the cookies: their prefixes agree with their attributes.
LEMMA CookieIs ==
    ASSUME engine \in Option(Engine), engine # {}, NEW kind, NEW path
    PROVE  LET k == Cookie(kind, path) IN k.kind = kind /\ k.path = path /\ Accepts(k)
<1>1. The(engine) \in Engine
  <2>1. \E e \in Engine : engine = {e}
    BY OptionIs
  <2> QED BY <2>1, TheIs
<1>2. The(engine).secure \in BOOLEAN
  BY <1>1 DEF Engine
<1> QED BY <1>2 DEF Cookie, SecurityPrefix, Accepts

\* The config is replaced by d before an engine is made of it.
Configured(d) ==
    /\ engine = {} /\ config' = {d} /\ edits' \in 0..MaxEdits
    /\ UNCHANGED <<engine, cookies, browser>>

LEMMA BuildIs ==
    ASSUME RoutesTyped, NEW callback \in Path, NEW exit \in Option(Path),
           NEW mount \in Option(Path), NEW strip \in Option(Path),
           config = {}, Build(callback, exit, mount, strip)
    PROVE  \E d \in Config : Configured(d) /\ d.base \subseteq mount /\ d.strip \subseteq strip
<1> DEFINE c == LoginConfig(callback, exit, mount, strip, {})
<1>1. c \in Config /\ c.base = mount /\ c.strip = strip
  BY LoginConfigIs, SettingsAreRoutes
<1>2. Configured(Derived(c))
  BY DEF Build, Configured, RoutesTyped
<1> HIDE DEF c
<1> QED BY <1>1, <1>2, DerivedIs

LEMMA BuildMappedIs ==
    ASSUME RoutesTyped, NEW exit \in Option(Path), NEW mount \in Option(Path),
           NEW strip \in Option(Path), NEW rest \in Page \cup {<<>>},
           config = {}, BuildMapped(exit, mount, strip, Base(mount) \o rest)
    PROVE  \E d \in Config : /\ Configured(d) /\ d.strip \subseteq strip
                             /\ \A p \in d.base : Tidy(p)
<1> DEFINE m == MappingPaths(mount, strip)
<1>1. mount \in Option(Route) /\ strip \in Option(Route) /\ exit \in Option(Route)
  BY SettingsAreRoutes
<1>2. /\ m \in [base : Option(Route), strip : Option(Route)]
      /\ m.strip \subseteq strip /\ \A p \in m.base : Tidy(p)
  BY <1>1, MappingIs
<1>3. PICK callback \in CallbackPaths(m, Base(mount) \o rest) :
          config' = {Derived(LoginConfig(callback, exit, m.base, m.strip, {m}))}
  BY DEF BuildMapped
<1>4. callback \in Route
  BY <1>1, CallbackPathsType DEF BuildMapped
<1>5. UNCHANGED <<edits, engine, cookies, browser>>
  BY DEF BuildMapped
<1> HIDE DEF m
<1> DEFINE c == LoginConfig(callback, exit, m.base, m.strip, {m})
<1>6. m.base \in Option(Route) /\ m.strip \in Option(Route)
  BY <1>2
<1>7. c \in Config /\ c.base = m.base /\ c.strip = m.strip
  BY <1>1, <1>2, <1>4, <1>6, LoginConfigIs
<1>8. Configured(Derived(c))
  BY <1>3, <1>5 DEF Configured, RoutesTyped
<1> HIDE DEF c
<1> QED BY <1>2, <1>7, <1>8, DerivedIs

LEMMA EditIs ==
    ASSUME RoutesTyped, NEW c \in config, NEW path \in Path, EditAny(c, path)
    PROVE  \E d \in Config : /\ Configured(d) /\ d.base \subseteq c.base \cup {path}
                             /\ d.strip \subseteq c.strip \cup {path}
<1>1. c \in Config /\ path \in Route /\ {path} \in Option(Route)
  <2>1. \E x \in Config : config = {x}
    BY OptionIs DEF RoutesTyped
  <2>2. path \in Route
    BY SettingsAreRoutes
  <2> QED BY <2>1, <2>2 DEF Option
<1>2. ASSUME NEW d, Edit(c, d) PROVE Configured(d)
  <2>1. edits \in 0..MaxEdits /\ edits < MaxEdits /\ edits' = edits + 1 /\ MaxEdits \in Nat
    BY <1>2, EditsAssumption DEF Edit, RoutesTyped
  <2>2. edits' \in 0..MaxEdits
    BY <2>1
  <2> QED BY <1>2, <2>2 DEF Edit, Configured
<1>3. CASE Edit(c, [c EXCEPT !.callback = path])
  <2> DEFINE d == [c EXCEPT !.callback = path]
  <2>1. d \in Config /\ d.base = c.base /\ d.strip = c.strip
    BY <1>1 DEF Config
  <2> QED BY <1>2, <1>3, <2>1
<1>4. CASE Edit(c, [c EXCEPT !.logout = {path}])
  <2> DEFINE d == [c EXCEPT !.logout = {path}]
  <2>1. d \in Config /\ d.base = c.base /\ d.strip = c.strip
    BY <1>1 DEF Config
  <2> QED BY <1>2, <1>4, <2>1
<1>5. CASE Edit(c, [c EXCEPT !.base = {path}])
  <2> DEFINE d == [c EXCEPT !.base = {path}]
  <2>1. d \in Config /\ d.base = {path} /\ d.strip = c.strip
    BY <1>1 DEF Config
  <2> QED BY <1>2, <1>5, <2>1
<1>6. CASE Edit(c, [c EXCEPT !.strip = {path}])
  <2> DEFINE d == [c EXCEPT !.strip = {path}]
  <2>1. d \in Config /\ d.base = c.base /\ d.strip = {path}
    BY <1>1 DEF Config
  <2> QED BY <1>2, <1>6, <2>1
<1> QED BY <1>3, <1>4, <1>5, <1>6 DEF EditAny

\* The paths that an engine was made with.
Mounted(c, e) ==
    /\ c.browserCallback = BrowserPath(c.callback, c.strip, c.base)
    /\ c.browserLogout = {BrowserPath(route, c.strip, c.base) : route \in c.logout}
    /\ RoutesWithin(c)
    /\ CookiePathAccepted(e.cookiePath, e.store, c)

LEMMA NewEngineIs ==
    ASSUME RoutesTyped, NEW built \in config, NEW path \in Path, NEW store \in BOOLEAN,
           NEW secure \in BOOLEAN, NewEngine(built, path, store, secure)
    PROVE  \E c \in Config, e \in Engine :
              /\ config' = {c} /\ engine = {} /\ engine' = {e} /\ edits' = 0
              /\ c.base = built.base /\ c.strip = built.strip /\ Mounted(c, e)
              /\ UNCHANGED <<cookies, browser>>
<1> DEFINE c == Derived(built)
           e == [cookiePath |-> path, store |-> store, secure |-> secure]
<1>1. built \in Config
  <2>1. \E x \in Config : config = {x}
    BY OptionIs DEF RoutesTyped
  <2> QED BY <2>1
<1>2. e \in Engine /\ e.cookiePath = path /\ e.store = store
  BY DEF Engine
<1>3. /\ config' = {c} /\ engine = {} /\ engine' = {e} /\ edits' = 0
      /\ RoutesWithin(c) /\ CookiePathAccepted(path, store, c) /\ UNCHANGED <<cookies, browser>>
  BY DEF NewEngine, Recomputed
<1>4. /\ c \in Config /\ c.base = built.base /\ c.strip = built.strip
      /\ c.browserCallback = BrowserPath(c.callback, c.strip, c.base)
      /\ c.browserLogout = {BrowserPath(route, c.strip, c.base) : route \in c.logout}
  BY <1>1, DerivedIs
<1> HIDE DEF c, e
<1>5. Mounted(c, e)
  BY <1>2, <1>3, <1>4 DEF Mounted
<1> QED BY <1>2, <1>3, <1>4, <1>5

LEMMA OneConfig ==
    ASSUME RoutesTyped, NEW c \in config
    PROVE  /\ c \in Config /\ config = {c}
           /\ c.callback \in Route /\ c.browserCallback \in Route
           /\ c.logout \in Option(Route) /\ c.browserLogout \in Option(Route)
           /\ c.base \in Option(Route) /\ c.strip \in Option(Route)
<1>1. c \in Config /\ config = {c}
  <2>1. \E x \in Config : config = {x}
    BY OptionIs DEF RoutesTyped
  <2> QED BY <2>1
<1> QED BY <1>1 DEF Config

LEMMA SetCookieIs ==
    ASSUME NEW held, NEW k, Accepts(k)
    PROVE  SetCookie(held, k) = {h \in held : h.kind # k.kind \/ h.path # k.path} \cup {k}
BY DEF SetCookie

LEMMA VisitIs ==
    ASSUME RoutesTyped, NEW c \in config, NEW page \in Page, Visit(c, page)
    PROVE  /\ engine # {} /\ browser.pc = "idle" /\ UNCHANGED <<config, edits, engine>>
           /\ \E k : /\ k.kind = "login" /\ k.path = c.browserCallback
                     /\ cookies' = {h \in cookies : h.kind # "login" \/ h.path # k.path} \cup {k}
           /\ \E original \in Route :
                 /\ browser' = [pc |-> "provider", wanted |-> Base(c.base) \o page, sees |-> {},
                                original |-> original]
                 /\ (\A P \in c.base \cup c.strip : Tidy(P)) => original = Base(c.base) \o page
<1> DEFINE public == Base(c.base) \o page
           k == Cookie("login", c.browserCallback)
<1>1. c \in Config /\ c.base \in Option(Route) /\ c.strip \in Option(Route) /\ page \in Route
  BY OneConfig, SettingsAreRoutes
<1>2. engine # {} /\ browser.pc = "idle" /\ UNCHANGED <<config, edits, engine>>
      /\ cookies' = SetCookie(cookies, k)
  BY DEF Visit
<1>3. k.kind = "login" /\ k.path = c.browserCallback /\ Accepts(k)
  BY <1>2, CookieIs DEF RoutesTyped
<1>4. cookies' = {h \in cookies : h.kind # "login" \/ h.path # k.path} \cup {k}
  <2> HIDE DEF k
  <2> QED BY <1>2, <1>3, SetCookieIs
<1>5. PICK uri \in Ingress(c, public) :
          browser' = [pc |-> "provider", wanted |-> public, sees |-> {},
                      original |-> LET url == OriginalUrl(c.base, c.strip, uri)
                                       mount == IF c.base = {} THEN Root ELSE The(c.base)
                                   IN  IF url = {} THEN mount ELSE The(url)]
  BY DEF Visit
<1> DEFINE url == OriginalUrl(c.base, c.strip, uri)
           mount == IF c.base = {} THEN Root ELSE The(c.base)
           original == IF url = {} THEN mount ELSE The(url)
<1>6. original \in Route
  <2>1. uri \in Route
    BY <1>1, IngressIs
  <2>2. url \in SUBSET Route
    BY <1>1, <2>1, OriginalUrlType
  <2>3. mount \in Route
    <3>1. c.base = {} \/ \E x \in Route : c.base = {x}
      BY <1>1, OptionIs
    <3> QED BY <3>1, TheIs, RootType
  <2>4. url # {} => The(url) \in url
    BY DEF The
  <2> HIDE DEF url, mount
  <2> QED BY <2>2, <2>3, <2>4
<1>7. (\A P \in c.base \cup c.strip : Tidy(P)) => original = public
  BY <1>1, OriginalIs
<1>8. browser' = [pc |-> "provider", wanted |-> public, sees |-> {}, original |-> original]
  BY <1>5
<1> HIDE DEF public, k, url, mount, original
<1> QED BY <1>2, <1>3, <1>4, <1>6, <1>7, <1>8 DEF public

LEMMA KindsType ==
    ASSUME RoutesTyped, NEW path
    PROVE  Kinds(Shown(path)) \in SUBSET {"login", "session"}
BY DEF Kinds, Shown, RoutesTyped

LEMMA ReturnIs ==
    ASSUME RoutesTyped, NEW c \in config, Return(c)
    PROVE  /\ browser.pc = "provider" /\ UNCHANGED <<config, edits, engine>>
           /\ \/ /\ browser' = [browser EXCEPT !.pc = "returned",
                                               !.sees = Kinds(Shown(c.browserCallback))]
                 /\ engine # {} =>
                       \E k : /\ k.kind = "session" /\ \A e \in engine : k.path = e.cookiePath
                              /\ k.path \in Route
                              /\ cookies' \in SUBSET (cookies \cup {k})
              \/ /\ browser' = [browser EXCEPT !.pc = "lost"] /\ cookies' = cookies
                 /\ ~(/\ c.callback \in Ingress(c, c.browserCallback)
                      /\ "login" \in Kinds(Shown(c.browserCallback)))
<1> DEFINE shown == Shown(c.browserCallback)
           k == Cookie("session", The(engine).cookiePath)
<1>1. browser.pc = "provider" /\ UNCHANGED <<config, edits, engine>>
  BY DEF Return
<1>2. PICK uri \in Forwarded(c, c.browserCallback, c.callback) :
        IF uri = c.callback /\ "login" \in Kinds(shown)
        THEN /\ browser' = [browser EXCEPT !.pc = "returned", !.sees = Kinds(shown)]
             /\ cookies' = SetCookie({h \in cookies : h.kind # "login"}, k)
        ELSE browser' = [browser EXCEPT !.pc = "lost"] /\ cookies' = cookies
  BY DEF Return
<1>3. CASE uri = c.callback /\ "login" \in Kinds(shown)
  <2>1. /\ browser' = [browser EXCEPT !.pc = "returned", !.sees = Kinds(shown)]
        /\ cookies' = SetCookie({h \in cookies : h.kind # "login"}, k)
    BY <1>2, <1>3
  <2>2. ASSUME engine # {}
        PROVE  /\ k.kind = "session" /\ \A e \in engine : k.path = e.cookiePath
               /\ k.path \in Route /\ cookies' \in SUBSET (cookies \cup {k})
    <3>1. k.kind = "session" /\ k.path = The(engine).cookiePath /\ Accepts(k)
      BY <2>2, CookieIs DEF RoutesTyped
    <3>2. PICK e \in Engine : engine = {e}
      BY <2>2, OptionIs DEF RoutesTyped
    <3>3. The(engine) = e /\ e.cookiePath \in Route
      BY <3>2, TheIs, SettingsAreRoutes DEF Engine
    <3> HIDE DEF k
    <3>4. cookies' \in SUBSET (cookies \cup {k})
      BY <2>1, <3>1, SetCookieIs
    <3> QED BY <3>1, <3>2, <3>3, <3>4
  <2> HIDE DEF k, shown
  <2> QED BY <1>1, <2>1, <2>2 DEF shown
<1>4. CASE ~(uri = c.callback /\ "login" \in Kinds(shown))
  <2>1. browser' = [browser EXCEPT !.pc = "lost"] /\ cookies' = cookies
    BY <1>2, <1>4
  <2>2. ~(c.callback \in Ingress(c, c.browserCallback) /\ "login" \in Kinds(shown))
    BY <1>2, <1>4 DEF Forwarded
  <2> QED BY <1>1, <2>1, <2>2
<1> QED BY <1>3, <1>4

LEMMA LogOutIs ==
    ASSUME RoutesTyped, NEW c \in config, LogOut(c)
    PROVE  /\ engine # {} /\ browser.pc = "idle" /\ UNCHANGED <<config, edits, engine>>
           /\ cookies' \in SUBSET cookies
           /\ \E route \in c.logout, path \in c.browserLogout :
              \/ browser' = [browser EXCEPT !.pc = "returned", !.sees = Kinds(Shown(path))]
              \/ browser' = [browser EXCEPT !.pc = "lost"] /\ route \notin Ingress(c, path)
<1>1. engine # {} /\ browser.pc = "idle" /\ UNCHANGED <<config, edits, engine>>
  BY DEF LogOut
<1>2. PICK route \in c.logout, path \in c.browserLogout :
        \E uri \in Forwarded(c, path, route) :
            IF uri = route
            THEN /\ cookies' = {k \in cookies : k.kind # "session"}
                 /\ browser' = [browser EXCEPT !.pc = "returned", !.sees = Kinds(Shown(path))]
            ELSE browser' = [browser EXCEPT !.pc = "lost"] /\ cookies' = cookies
  BY DEF LogOut
<1>3. PICK uri \in Forwarded(c, path, route) :
            IF uri = route
            THEN /\ cookies' = {k \in cookies : k.kind # "session"}
                 /\ browser' = [browser EXCEPT !.pc = "returned", !.sees = Kinds(Shown(path))]
            ELSE browser' = [browser EXCEPT !.pc = "lost"] /\ cookies' = cookies
  BY <1>2
<1>4. uri # route => route \notin Ingress(c, path)
  BY DEF Forwarded
<1>5. cookies' \in SUBSET cookies
  BY <1>3
<1>6. \/ browser' = [browser EXCEPT !.pc = "returned", !.sees = Kinds(Shown(path))]
      \/ browser' = [browser EXCEPT !.pc = "lost"] /\ route \notin Ingress(c, path)
  BY <1>3, <1>4
<1> QED BY <1>1, <1>5, <1>6

\* RoutesNext by what its steps do.
LEMMA RoutesSteps ==
    ASSUME RoutesTyped, RoutesNext
    PROVE  \/ \E exit, mount, strip \in Option(Path) :
                \/ \E callback \in Path :
                      config = {} /\ Build(callback, exit, mount, strip)
                \/ \E rest \in Page \cup {<<>>} :
                      /\ strip \subseteq {WithoutTrailing(path) : path \in Path}
                      /\ config = {} /\ BuildMapped(exit, mount, strip, Base(mount) \o rest)
           \/ \E c \in config, path \in Path : EditAny(c, path)
           \/ \E c \in config, path \in Path, store, secure \in BOOLEAN :
                NewEngine(c, path, store, secure)
           \/ \E c \in config, page \in Page : Visit(c, page)
           \/ \E c \in config : Return(c) \/ LogOut(c)
           \/ Redeploy \/ Settle
<1>1. CASE config = {} /\ \E exit, mount, strip \in Option(Path) :
             \/ \E callback \in Path : Build(callback, exit, mount, strip)
             \/ \E rest \in Page \cup {<<>>} :
                 /\ strip \subseteq {WithoutTrailing(path) : path \in Path}
                 /\ BuildMapped(exit, mount, strip, Base(mount) \o rest)
  BY <1>1
<1>2. CASE \E c \in config :
             \/ \E path \in Path : EditAny(c, path)
             \/ \E path \in Path, store, secure \in BOOLEAN : NewEngine(c, path, store, secure)
             \/ \E page \in Page : Visit(c, page)
             \/ Return(c) \/ LogOut(c)
  BY <1>2
<1> QED BY <1>1, <1>2 DEF RoutesNext

LEMMA BrowsingType ==
    /\ Browsing \in [pc : {"idle", "provider", "returned", "lost"}, wanted : Route,
                     original : Route, sees : SUBSET {"login", "session"}]
    /\ Browsing.pc = "idle" /\ Browsing.original = Browsing.wanted
BY RootType DEF Browsing

LEMMA TypedStarts ==
    ASSUME RoutesInit
    PROVE  RoutesTyped
<1>1. {} \in Option(Config) /\ {} \in Option(Engine) /\ 0 \in 0..MaxEdits
  BY EditsAssumption DEF Option
<1> QED BY <1>1, BrowsingType DEF RoutesInit, RoutesTyped

LEMMA TypedConfigured ==
    ASSUME RoutesTyped, NEW d \in Config, Configured(d)
    PROVE  RoutesTyped'
<1>1. {d} \in Option(Config)
  BY DEF Option
<1> QED BY <1>1 DEF Configured, RoutesTyped

LEMMA TypedStep ==
    ASSUME RoutesTyped, [RoutesNext]_routesVars
    PROVE  RoutesTyped'
<1>1. CASE UNCHANGED routesVars
  BY <1>1 DEF routesVars, RoutesTyped
<1>2. ASSUME NEW callback \in Path, NEW exit \in Option(Path), NEW mount \in Option(Path),
             NEW strip \in Option(Path), config = {}, Build(callback, exit, mount, strip)
      PROVE  RoutesTyped'
  <2>1. \E d \in Config : Configured(d)
    BY <1>2, BuildIs
  <2> QED BY <2>1, TypedConfigured
<1>3. ASSUME NEW exit \in Option(Path), NEW mount \in Option(Path), NEW strip \in Option(Path),
             NEW rest \in Page \cup {<<>>},
             config = {}, BuildMapped(exit, mount, strip, Base(mount) \o rest)
      PROVE  RoutesTyped'
  <2>1. \E d \in Config : Configured(d)
    BY <1>3, BuildMappedIs
  <2> QED BY <2>1, TypedConfigured
<1>4. ASSUME NEW c \in config, NEW path \in Path, EditAny(c, path) PROVE RoutesTyped'
  <2>1. \E d \in Config : Configured(d)
    BY <1>4, EditIs
  <2> QED BY <2>1, TypedConfigured
<1>5. ASSUME NEW c \in config, NEW path \in Path, NEW store \in BOOLEAN, NEW secure \in BOOLEAN,
             NewEngine(c, path, store, secure)
      PROVE  RoutesTyped'
  <2>1. PICK d \in Config, e \in Engine :
            config' = {d} /\ engine' = {e} /\ edits' = 0 /\ UNCHANGED <<cookies, browser>>
    BY <1>5, NewEngineIs
  <2>2. {d} \in Option(Config) /\ {e} \in Option(Engine) /\ 0 \in 0..MaxEdits
    BY EditsAssumption DEF Option
  <2> QED BY <2>1, <2>2 DEF RoutesTyped
<1>6. ASSUME NEW c \in config, NEW page \in Page, Visit(c, page) PROVE RoutesTyped'
  <2>0. engine # {}
    BY <1>6, VisitIs
  <2>1. c.browserCallback \in Route /\ Base(c.base) \o page \in Route
    BY OneConfig, BaseIs, Behind, SettingsAreRoutes
  <2>2. UNCHANGED <<config, edits, engine>>
    BY <1>6, VisitIs
  <2>3. PICK k : /\ k.kind = "login" /\ k.path = c.browserCallback
                 /\ cookies' = {h \in cookies : h.kind # "login" \/ h.path # k.path} \cup {k}
    BY <1>6, VisitIs
  <2>4. \E original \in Route :
            browser' = [pc |-> "provider", wanted |-> Base(c.base) \o page, sees |-> {},
                        original |-> original]
    BY <1>6, VisitIs
  <2>5. browser' \in [pc : {"idle", "provider", "returned", "lost"}, wanted : Route,
                      original : Route, sees : SUBSET {"login", "session"}]
    BY <2>1, <2>4
  <2>6. ASSUME NEW h \in cookies' PROVE h.kind \in {"login", "session"} /\ h.path \in Route
    <3>1. CASE h = k
      BY <2>1, <2>3, <3>1
    <3>2. CASE h \in cookies
      BY <3>2 DEF RoutesTyped
    <3> QED BY <2>3, <3>1, <3>2
  <2> QED BY <2>0, <2>2, <2>5, <2>6 DEF RoutesTyped
<1>7. ASSUME NEW c \in config, Return(c) PROVE RoutesTyped'
  <2>1. UNCHANGED <<config, edits, engine>>
    BY <1>7, ReturnIs
  <2>2. CASE browser' = [browser EXCEPT !.pc = "lost"] /\ cookies' = cookies
    BY <2>1, <2>2 DEF RoutesTyped
  <2>3. CASE /\ browser' = [browser EXCEPT !.pc = "returned",
                                           !.sees = Kinds(Shown(c.browserCallback))]
             /\ engine # {} => \E k : /\ k.kind = "session" /\ k.path \in Route
                                      /\ cookies' \in SUBSET (cookies \cup {k})
    <3>1. engine # {}
      BY <1>7 DEF Return, RoutesTyped
    <3>2. PICK k : /\ k.kind = "session" /\ k.path \in Route
                   /\ cookies' \in SUBSET (cookies \cup {k})
      BY <2>3, <3>1
    <3>4. \A h \in cookies' : h.kind \in {"login", "session"} /\ h.path \in Route
      BY <3>2 DEF RoutesTyped
    <3>3. Kinds(Shown(c.browserCallback)) \in SUBSET {"login", "session"}
      BY KindsType
    <3> QED BY <2>1, <2>3, <3>3, <3>4 DEF RoutesTyped
  <2> QED BY <1>7, <2>2, <2>3, ReturnIs
<1>8. ASSUME NEW c \in config, LogOut(c) PROVE RoutesTyped'
  <2>1. UNCHANGED <<config, edits, engine>> /\ cookies' \in SUBSET cookies
    BY <1>8, LogOutIs
  <2>2. \/ \E path : browser' = [browser EXCEPT !.pc = "returned", !.sees = Kinds(Shown(path))]
        \/ browser' = [browser EXCEPT !.pc = "lost"]
    BY <1>8, LogOutIs
  <2>3. \A path : Kinds(Shown(path)) \in SUBSET {"login", "session"}
    BY KindsType
  <2>4. CASE browser' = [browser EXCEPT !.pc = "lost"]
    BY <2>1, <2>4 DEF RoutesTyped
  <2>5. ASSUME NEW path,
               browser' = [browser EXCEPT !.pc = "returned", !.sees = Kinds(Shown(path))]
        PROVE  RoutesTyped'
    BY <2>1, <2>3, <2>5 DEF RoutesTyped
  <2> QED BY <2>2, <2>4, <2>5
<1>9. CASE Redeploy
  <2>1. {} \in Option(Config) /\ {} \in Option(Engine) /\ 0 \in 0..MaxEdits
    BY EditsAssumption DEF Option
  <2>2. config' = {} /\ edits' = 0 /\ engine' = {} /\ cookies' = {} /\ browser' = Browsing
    BY <1>9 DEF Redeploy
  <2> QED BY <2>1, <2>2, BrowsingType DEF RoutesTyped
<1>10. CASE Settle
  <2>1. browser' = Browsing /\ UNCHANGED <<config, edits, engine, cookies>>
    BY <1>10 DEF Settle
  <2> QED BY <2>1, BrowsingType DEF RoutesTyped
<1> QED BY <1>1, <1>2, <1>3, <1>4, <1>5, <1>6, <1>7, <1>8, <1>9, <1>10, RoutesSteps

\* Every path that is configured or derived starts with a slash, whatever the
\* settings are and however often they are edited (RoutePath, browser_path).
THEOREM RoutesTypeCorrect == RoutesSpec => []RoutesTypeOK
<1>1. RoutesInit => RoutesTyped
  BY TypedStarts
<1>2. RoutesTyped /\ [RoutesNext]_routesVars => RoutesTyped'
  BY TypedStep
<1> QED BY <1>1, <1>2, TypedIsTyped, PTL DEF RoutesSpec

-----------------------------------------------------------------------------
(* Routes: the inductive invariant *)

\* No setting ends in two slashes.  Of a prefix that does strip_from keeps one,
\* and the proxy's prefix none.
SettingsAreTidy == \A path \in Path : Tidy(path)

\* The inductive invariant: an engine's paths are derived from its settings,
\* its session cookie has its path, and a login that was started is known to
\* the browser where the provider returns to.
RoutesInv ==
    /\ RoutesTyped
    /\ \A c \in config : \A path \in c.base \cup c.strip : Tidy(path)
    /\ \A c \in config, e \in engine : Mounted(c, e)
    /\ engine = {} => cookies = {} /\ browser.pc = "idle"
    /\ \A e \in engine, k \in cookies : k.kind = "session" => k.path = e.cookiePath
    /\ browser.pc = "provider" =>
          \A c \in config : \E k \in cookies : k.kind = "login" /\ k.path = c.browserCallback
    /\ browser.pc # "lost"
    /\ browser.original = browser.wanted

LEMMA RoutesStart ==
    ASSUME RoutesInit
    PROVE  RoutesInv
BY TypedStarts, BrowsingType DEF RoutesInit, RoutesInv

LEMMA InvConfigured ==
    ASSUME RoutesInv, RoutesTyped', NEW d \in Config, Configured(d),
           \A path \in d.base \cup d.strip : Tidy(path)
    PROVE  RoutesInv'
<1>1. /\ config' = {d} /\ engine = {} /\ engine' = {} /\ cookies' = cookies /\ browser' = browser
  BY DEF Configured
<1>2. cookies = {} /\ browser.pc = "idle" /\ browser.original = browser.wanted
  BY <1>1 DEF RoutesInv
<1> QED BY <1>1, <1>2 DEF RoutesInv

\* A cookie is shown on its own path.
LEMMA ShownOnItsPath ==
    ASSUME NEW k \in cookies, k.path \in Route
    PROVE  k.kind \in Kinds(Shown(k.path))
<1>1. k.path \in Text /\ IsPrefix(k.path, k.path)
  BY TextFacts DEF Route, IsPrefix
<1>2. PathMatches(k.path, k.path)
  BY <1>1 DEF PathMatches
<1> QED BY <1>2 DEF Shown, Kinds

\* What the engine checked of its routes when it was made.
LEMMA MountedRoutes ==
    ASSUME RoutesInv, NEW c \in config, NEW e \in engine
    PROVE  /\ c.callback \in Ingress(c, c.browserCallback)
           /\ \A route \in c.logout, path \in c.browserLogout : route \in Ingress(c, path)
           /\ \A path \in c.browserLogout \cup (IF e.store THEN {c.browserCallback} ELSE {}) :
                 path \in Route /\ StripFrom(e.cookiePath, path) # {}
<1>1. Mounted(c, e) /\ RoutesTyped /\ \A path \in c.base \cup c.strip : Tidy(path)
  BY DEF RoutesInv
<1>2. /\ c.callback \in Route /\ c.browserCallback \in Route
      /\ c.logout \in Option(Route) /\ c.browserLogout \in Option(Route)
      /\ c.base \in Option(Route) /\ c.strip \in Option(Route)
  BY <1>1, OneConfig
<1>3. \A P \in c.strip, route \in {c.callback} \cup c.logout : StripFrom(P, route) # {}
  BY <1>1 DEF Mounted, RoutesWithin
<1>4. ASSUME NEW route \in {c.callback} \cup c.logout
      PROVE  route \in Ingress(c, BrowserPath(route, c.strip, c.base))
  <2>1. route \in Route
    <3>1. c.logout = {} \/ \E x \in Route : c.logout = {x}
      BY <1>2, OptionIs
    <3> QED BY <1>2, <3>1
  <2> QED BY <1>1, <1>2, <1>3, <2>1, RouteIngress
<1>5. c.callback \in Ingress(c, c.browserCallback)
  BY <1>1, <1>4 DEF Mounted
<1>6. ASSUME NEW route \in c.logout, NEW path \in c.browserLogout
      PROVE  route \in Ingress(c, path)
  <2>1. c.logout = {route}
    <3>1. c.logout = {} \/ \E x \in Route : c.logout = {x}
      BY <1>2, OptionIs
    <3> QED BY <3>1
  <2>2. path = BrowserPath(route, c.strip, c.base)
    <3>1. c.browserLogout = {BrowserPath(r, c.strip, c.base) : r \in c.logout}
      BY <1>1 DEF Mounted
    <3> QED BY <2>1, <3>1
  <2> QED BY <1>4, <2>2
<1>7. \A path \in c.browserLogout \cup (IF e.store THEN {c.browserCallback} ELSE {}) :
          path \in Route
  <2>1. c.browserLogout = {} \/ \E x \in Route : c.browserLogout = {x}
    BY <1>2, OptionIs
  <2> QED BY <1>2, <2>1
<1> QED BY <1>1, <1>5, <1>6, <1>7 DEF Mounted, CookiePathAccepted

LEMMA OneEngine ==
    ASSUME RoutesTyped, engine # {}
    PROVE  \E e \in Engine : engine = {e} /\ e.cookiePath \in Route
<1>1. PICK e \in Engine : engine = {e}
  BY OptionIs DEF RoutesTyped
<1>2. e.cookiePath \in Route
  BY SettingsAreRoutes DEF Engine
<1> QED BY <1>1, <1>2

\* The provider's redirect arrives, with the cookie of the login.
LEMMA Returns ==
    ASSUME RoutesInv, NEW c \in config, Return(c)
    PROVE  /\ engine # {}
           /\ browser' = [browser EXCEPT !.pc = "returned",
                                         !.sees = Kinds(Shown(c.browserCallback))]
           /\ \E k : /\ k.kind = "session" /\ \A e \in engine : k.path = e.cookiePath
                     /\ cookies' \in SUBSET (cookies \cup {k})
<1>1. RoutesTyped
  BY DEF RoutesInv
<1>2. browser.pc = "provider"
  BY <1>1, ReturnIs
<1>3. engine # {}
  BY <1>2 DEF RoutesInv
<1>4. PICK e \in Engine : engine = {e}
  BY <1>1, <1>3, OneEngine
<1>5. c.callback \in Ingress(c, c.browserCallback)
  BY <1>4, MountedRoutes
<1>6. "login" \in Kinds(Shown(c.browserCallback))
  <2>1. PICK k \in cookies : k.kind = "login" /\ k.path = c.browserCallback
    BY <1>2 DEF RoutesInv
  <2>2. k.path \in Route
    BY <1>1 DEF RoutesTyped
  <2> QED BY <2>1, <2>2, ShownOnItsPath
<1> QED BY <1>1, <1>3, <1>5, <1>6, ReturnIs

LEMMA RoutesStep ==
    ASSUME SettingsAreTidy, RoutesInv, [RoutesNext]_routesVars
    PROVE  RoutesInv'
<1>0. RoutesTyped /\ RoutesTyped' /\ \A path \in Path : Tidy(path)
  BY TypedStep DEF RoutesInv, SettingsAreTidy
<1>1. CASE UNCHANGED routesVars
  <2>1. /\ config' = config /\ engine' = engine /\ cookies' = cookies /\ browser' = browser
    BY <1>1 DEF routesVars
  <2> QED BY <1>0, <2>1 DEF RoutesInv
<1>2. ASSUME NEW option \in Option(Path), NEW path \in option PROVE Tidy(path)
  BY <1>0 DEF Option
<1>3. ASSUME NEW callback \in Path, NEW exit \in Option(Path), NEW mount \in Option(Path),
             NEW strip \in Option(Path), config = {}, Build(callback, exit, mount, strip)
      PROVE  RoutesInv'
  <2>1. \E d \in Config : Configured(d) /\ d.base \subseteq mount /\ d.strip \subseteq strip
    BY <1>0, <1>3, BuildIs
  <2> QED BY <1>0, <1>2, <2>1, InvConfigured
<1>4. ASSUME NEW exit \in Option(Path), NEW mount \in Option(Path), NEW strip \in Option(Path),
             NEW rest \in Page \cup {<<>>},
             config = {}, BuildMapped(exit, mount, strip, Base(mount) \o rest)
      PROVE  RoutesInv'
  <2>1. \E d \in Config : /\ Configured(d) /\ d.strip \subseteq strip
                          /\ \A p \in d.base : Tidy(p)
    BY <1>0, <1>4, BuildMappedIs
  <2> QED BY <1>0, <1>2, <2>1, InvConfigured
<1>5. ASSUME NEW c \in config, NEW path \in Path, EditAny(c, path) PROVE RoutesInv'
  <2>1. \E d \in Config : /\ Configured(d) /\ d.base \subseteq c.base \cup {path}
                          /\ d.strip \subseteq c.strip \cup {path}
    BY <1>0, <1>5, EditIs
  <2>2. Tidy(path) /\ \A p \in c.base \cup c.strip : Tidy(p)
    BY <1>0 DEF RoutesInv
  <2> QED BY <1>0, <2>1, <2>2, InvConfigured
<1>6. ASSUME NEW built \in config, NEW path \in Path, NEW store \in BOOLEAN,
             NEW secure \in BOOLEAN, NewEngine(built, path, store, secure)
      PROVE  RoutesInv'
  <2>1. PICK c \in Config, e \in Engine :
              /\ config' = {c} /\ engine = {} /\ engine' = {e} /\ edits' = 0
              /\ c.base = built.base /\ c.strip = built.strip /\ Mounted(c, e)
              /\ UNCHANGED <<cookies, browser>>
    BY <1>0, <1>6, NewEngineIs
  <2>2. cookies = {} /\ browser.pc = "idle" /\ browser.original = browser.wanted
    BY <2>1 DEF RoutesInv
  <2>3. \A p \in c.base \cup c.strip : Tidy(p)
    BY <2>1 DEF RoutesInv
  <2> QED BY <1>0, <2>1, <2>2, <2>3 DEF RoutesInv
<1>7. ASSUME NEW c \in config, NEW page \in Page, Visit(c, page) PROVE RoutesInv'
  <2>1. engine # {} /\ config' = config /\ engine' = engine /\ config = {c}
    BY <1>0, <1>7, VisitIs, OneConfig
  <2>2. PICK k : /\ k.kind = "login" /\ k.path = c.browserCallback
                 /\ cookies' = {h \in cookies : h.kind # "login" \/ h.path # k.path} \cup {k}
    BY <1>0, <1>7, VisitIs
  <2>3. browser'.pc = "provider" /\ browser'.original = browser'.wanted
    <3>1. \A P \in c.base \cup c.strip : Tidy(P)
      BY DEF RoutesInv
    <3>2. browser' = [pc |-> "provider", wanted |-> Base(c.base) \o page, sees |-> {},
                      original |-> Base(c.base) \o page]
      BY <1>0, <1>7, <3>1, VisitIs
    <3> QED BY <3>2
  <2>4. \A e \in engine, h \in cookies' : h.kind = "session" => h.path = e.cookiePath
    BY <2>2 DEF RoutesInv
  <2>5. \E h \in cookies' : h.kind = "login" /\ h.path = c.browserCallback
    BY <2>2
  <2> QED BY <1>0, <2>1, <2>3, <2>4, <2>5 DEF RoutesInv
<1>8. ASSUME NEW c \in config, Return(c) PROVE RoutesInv'
  <2>1. browser.pc = "provider" /\ config' = config /\ engine' = engine /\ config = {c}
    BY <1>0, <1>8, ReturnIs, OneConfig
  <2>2. engine # {}
    BY <2>1 DEF RoutesInv
  <2>3. PICK e \in Engine : engine = {e}
    BY <1>0, <2>2, OneEngine
  <2>6. browser' = [browser EXCEPT !.pc = "returned", !.sees = Kinds(Shown(c.browserCallback))]
    BY <1>8, Returns
  <2>7. PICK k : /\ k.kind = "session" /\ k.path = e.cookiePath
                 /\ cookies' \in SUBSET (cookies \cup {k})
    BY <1>8, <2>2, <2>3, Returns
  <2>8. \A h \in cookies' : h.kind = "session" => h.path = e.cookiePath
    BY <2>3, <2>7 DEF RoutesInv
  <2>9. browser'.pc = "returned" /\ browser'.original = browser'.wanted
    BY <1>0, <2>6 DEF RoutesTyped, RoutesInv
  <2> QED BY <1>0, <2>1, <2>3, <2>8, <2>9 DEF RoutesInv
<1>9. ASSUME NEW c \in config, LogOut(c) PROVE RoutesInv'
  <2>1. /\ engine # {} /\ config' = config /\ engine' = engine /\ config = {c}
        /\ cookies' \in SUBSET cookies
    BY <1>0, <1>9, LogOutIs, OneConfig
  <2>2. PICK e \in Engine : engine = {e}
    BY <1>0, <2>1, OneEngine
  <2>3. \E path \in c.browserLogout :
            browser' = [browser EXCEPT !.pc = "returned", !.sees = Kinds(Shown(path))]
    BY <1>0, <1>9, <2>2, LogOutIs, MountedRoutes
  <2>4. browser'.pc = "returned" /\ browser'.original = browser'.wanted
    BY <1>0, <2>3 DEF RoutesTyped, RoutesInv
  <2> QED BY <1>0, <2>1, <2>2, <2>4 DEF RoutesInv
<1>10. CASE Redeploy
  <2>1. config' = {} /\ engine' = {} /\ cookies' = {} /\ browser' = Browsing
    BY <1>10 DEF Redeploy
  <2> QED BY <1>0, <2>1, BrowsingType DEF RoutesInv
<1>11. CASE Settle
  <2>1. /\ browser.pc \in {"returned", "lost"} /\ browser' = Browsing
        /\ config' = config /\ engine' = engine /\ cookies' = cookies
    BY <1>11 DEF Settle
  <2>2. browser'.pc = "idle" /\ browser'.original = browser'.wanted
    BY <2>1, BrowsingType
  <2> QED BY <1>0, <2>1, <2>2 DEF RoutesInv
<1> QED BY <1>0, <1>1, <1>3, <1>4, <1>5, <1>6, <1>7, <1>8, <1>9, <1>10, <1>11, RoutesSteps

\* RoutesInv holds in every state of every behaviour of Routes, if no setting
\* ends in two slashes.
THEOREM RoutesInvariance == SettingsAreTidy => (RoutesSpec => []RoutesInv)
<1> SUFFICES ASSUME SettingsAreTidy PROVE RoutesSpec => []RoutesInv
  OBVIOUS
<1>1. RoutesInit => RoutesInv
  BY RoutesStart
<1>2. RoutesInv /\ [RoutesNext]_routesVars => RoutesInv'
  BY RoutesStep
<1> QED BY <1>1, <1>2, PTL DEF RoutesSpec

\* For prefixes of any length on both sides of the proxy, an engine that was
\* accepted is reached at its callback and its logout route (LoginEngine::new).
THEOREM RoutesReached == SettingsAreTidy => (RoutesSpec => []RoutesAreReached)
<1>1. RoutesInv => RoutesAreReached
  BY DEF RoutesInv, RoutesAreReached
<1> QED BY <1>1, RoutesInvariance, PTL

\* Whatever a proxy forwards a page's public path to, the user returns to that
\* public path (original_url).
THEOREM UsersReturn == SettingsAreTidy => (RoutesSpec => []UsersReturnToTheirPage)
<1>1. RoutesInv => UsersReturnToTheirPage
  BY DEF RoutesInv, UsersReturnToTheirPage
<1> QED BY <1>1, RoutesInvariance, PTL

\* Where the session cookie's path is stripped from, the session is shown.
LEMMA SessionShown ==
    ASSUME RoutesInv, NEW e \in engine, NEW path \in Route, StripFrom(e.cookiePath, path) # {},
           "session" \in Kinds(cookies)
    PROVE  "session" \in Kinds(Shown(path))
<1>1. PICK k \in cookies : k.kind = "session"
  BY DEF Kinds
<1>2. k.path = e.cookiePath /\ k.path \in Route
  BY <1>1 DEF RoutesInv, RoutesTyped
<1>3. PathMatches(k.path, path)
  BY <1>2, StripMatches
<1> QED BY <1>1, <1>3 DEF Shown, Kinds

\* A cookie path that was accepted covers the routes that need the session, by
\* the browser's rules for paths (apply_session_policy).
THEOREM SessionsAreShown == SettingsAreTidy => (RoutesSpec => RoutesSeeTheSession)
<1> DEFINE Step ==
        \A c \in config :
          /\ LogOut(c) \/ (Return(c) /\ \A e \in engine : e.store)
          /\ "session" \in Kinds(cookies)
          => "session" \in browser'.sees
<1>1. ASSUME RoutesInv PROVE [Step]_routesVars
  <2> SUFFICES ASSUME NEW c \in config, "session" \in Kinds(cookies),
                      LogOut(c) \/ (Return(c) /\ \A e \in engine : e.store)
               PROVE  "session" \in browser'.sees
    OBVIOUS
  <2>1. RoutesTyped
    BY <1>1 DEF RoutesInv
  <2>2. PICK e \in engine : TRUE
    <3>1. engine # {}
      BY <1>1, Returns DEF LogOut
    <3> QED BY <3>1
  <2>3. CASE LogOut(c)
    <3>1. PICK path \in c.browserLogout :
              browser' = [browser EXCEPT !.pc = "returned", !.sees = Kinds(Shown(path))]
      BY <1>1, <2>1, <2>2, <2>3, LogOutIs, MountedRoutes
    <3>2. "session" \in Kinds(Shown(path))
      BY <1>1, <2>2, MountedRoutes, SessionShown
    <3>3. browser'.sees = Kinds(Shown(path))
      BY <2>1, <3>1 DEF RoutesTyped
    <3> QED BY <3>2, <3>3
  <2>4. CASE Return(c) /\ \A x \in engine : x.store
    <3>1. e.store
      BY <2>4
    <3>2. c.browserCallback \in Route /\ StripFrom(e.cookiePath, c.browserCallback) # {}
      BY <1>1, <3>1, MountedRoutes
    <3>3. "session" \in Kinds(Shown(c.browserCallback))
      BY <1>1, <3>2, SessionShown
    <3>4. browser' = [browser EXCEPT !.pc = "returned", !.sees = Kinds(Shown(c.browserCallback))]
      BY <1>1, <2>4, Returns
    <3>5. browser'.sees = Kinds(Shown(c.browserCallback))
      BY <2>1, <3>4 DEF RoutesTyped
    <3> QED BY <3>3, <3>5
  <2> QED BY <2>3, <2>4
<1>2. RoutesInv /\ [RoutesNext]_routesVars => [Step]_routesVars
  BY <1>1
<1> QED BY <1>2, RoutesInvariance, PTL DEF RoutesSpec, RoutesSeeTheSession

-----------------------------------------------------------------------------
(* The three of them *)

\* In an instance that takes the parts one after the other each is what its own
\* specification says.
THEOREM Parts == MCSpec => Spec /\ RoutesSpec /\ RulesSpec
<1>1. MCInit => Init /\ RoutesInit /\ RulesInit
  BY DEF MCInit
<1>2. [MCNext]_<<part, vars, routesVars, rulesVars>> =>
          [Next]_vars /\ [RoutesNext]_routesVars /\ [RulesNext]_rulesVars
  BY DEF MCNext
<1> QED BY <1>1, <1>2, PTL DEF MCSpec, Spec, RoutesSpec, RulesSpec

\* Every variable of the three modules keeps its type, for all keys, paths and
\* origins: browser paths start with a slash whatever prefixes are exchanged
\* (RoutePath), and a logout leads to the page or to the provider.
THEOREM TypesCorrect == MCSpec => []TypesOK
<1>1. RulesInv => RulesTypeOK
  BY DEF RulesInv
<1>2. TypeOK /\ RoutesTypeOK /\ RulesTypeOK => TypesOK
  BY DEF TypesOK
<1> QED
  BY <1>1, <1>2, Parts, KeysTypeCorrect, RoutesTypeCorrect, RulesInvariance, PTL
=============================================================================
