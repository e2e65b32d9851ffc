-------------------------- MODULE CookieSessionProofs --------------------------
(***************************************************************************)
(* Theorems about CookieSession for every number of requests, every budget *)
(* and every length of run.  Under OneBudget the chunked cookies implement *)
(* AtomicCookie, and what the handler and the refresh did reaches the      *)
(* browser; whatever the budgets, slots that a larger one left go.         *)
(***************************************************************************)
EXTENDS CookieSession, FiniteSetTheorems, WellFoundedInduction, TLAPS

(* ---------------------- The inductive invariant ------------------------ *)

\* A session, or none, that every node's budget can hold.
Fits(s) ==
    \/ s = NoSession
    \/ s \in Session /\ \A b \in Budgets : s.size <= b

\* The cookies spell one session whole, or there are none.
Whole(cookies) == \E s : Fits(s) /\ cookies = Written(s)

\* The Set-Cookie values leave exactly session s, whatever is there before.
Complete(answer, s) ==
    /\ Fits(s)
    /\ answer.set = Written(s)
    /\ answer.clear \cap DOMAIN answer.set = {}
    /\ \A b \in Budgets : 0..(b - 1) \subseteq DOMAIN answer.set \cup answer.clear

\* They do so, or they are no values at all.
Clean(answer) == answer = Nothing \/ \E s : Complete(answer, s)

\* A session the values store has the tokens of grant.
Carries(answer, grant) ==
    0 \in DOMAIN answer.set => answer.set[0].session.grant = grant

\* What the engine stores in the refreshed request, and what the handler
\* stores, are one grant.
OneGrant(q) ==
    /\ q.pc \in {"idle", "node", "refresh"} => q.engine = Nothing /\ q.handler = Nothing
    /\ q.pc = "handler" \/ q.handler # Nothing => Carries(q.engine, q.session.grant)
    /\ Carries(q.handler, q.session.grant)

RequestOK(q) ==
    /\ q.pc # "idle" => q.budget \in Budgets
    /\ Whole(q.headers)
    /\ Clean(q.engine) /\ Clean(q.handler)
    /\ OneGrant(q)

IInv ==
    /\ TypeOK
    /\ Whole(jar)
    /\ \A r \in Request : RequestOK(req[r])

(* ------------------------------- Chunks -------------------------------- *)

LEMMA Constants ==
    /\ Slots \in Nat /\ Slots > 0
    /\ \A b \in Budgets : b \in Nat /\ 1 <= b /\ b <= Slots
BY ChunksAssumption

LEMMA WrittenDomain ==
    ASSUME NEW s, Fits(s)
    PROVE  /\ DOMAIN Written(s) = 0..(s.size - 1)
           /\ s = NoSession => DOMAIN Written(s) = {}
           /\ s # NoSession => 0 \in DOMAIN Written(s) /\ s.size \in Nat
           /\ \A i \in DOMAIN Written(s) : Written(s)[i] = [session |-> s, slot |-> i]
BY DEF Written, Fits, NoSession, Session

LEMMA NoSessionWritten == Written(NoSession) = EmptyJar
BY DEF Written, NoSession, EmptyJar

\* What was written loads as the session it was written from.
LEMMA WrittenLoads ==
    ASSUME NEW s, Fits(s)
    PROVE  Content(Written(s)) = s /\ s # Torn
<1>1. s # Torn
  BY DEF Fits, Session, NoSession, Torn
<1>2. CASE s = NoSession
  BY <1>1, <1>2, WrittenDomain DEF Content
<1>3. CASE s # NoSession
  <2>1. 0 \in DOMAIN Written(s) /\ Written(s)[0].session = s
    BY <1>3, WrittenDomain
  <2> QED BY <1>1, <2>1 DEF Content
<1> QED BY <1>2, <1>3

\* Cookies that are whole stay within every budget.
LEMMA WholeWithinBudget ==
    ASSUME NEW cookies, Whole(cookies), NEW b \in Budgets
    PROVE  DOMAIN cookies \subseteq 0..(b - 1)
<1>1. PICK s : Fits(s) /\ cookies = Written(s)
  BY DEF Whole
<1>2. CASE s = NoSession
  BY <1>1, <1>2, WrittenDomain
<1>3. CASE s # NoSession
  BY <1>1, <1>3, WrittenDomain, Constants DEF Fits
<1> QED BY <1>2, <1>3

\* A complete answer replaces whatever was there.
LEMMA CompleteReplaces ==
    ASSUME NEW cookies, Whole(cookies), NEW answer, NEW s, Complete(answer, s),
           NEW b \in Budgets
    PROVE  Apply(cookies, answer) = Written(s)
<1>1. (DOMAIN cookies \ answer.clear) \cup DOMAIN answer.set = DOMAIN answer.set
  BY WholeWithinBudget DEF Complete
<1>2. Apply(cookies, answer) = [i \in DOMAIN answer.set |-> answer.set[i]]
  BY <1>1 DEF Apply
<1>3. answer.set = Written(s)
  BY DEF Complete
<1>4. [i \in DOMAIN Written(s) |-> Written(s)[i]] = Written(s)
  BY DEF Written
<1> QED BY <1>2, <1>3, <1>4

LEMMA EmptyIsWhole == Whole(EmptyJar)
BY NoSessionWritten DEF Whole, Fits

\* Values that say nothing change nothing.
LEMMA NothingKeeps ==
    ASSUME NEW cookies, Whole(cookies)
    PROVE  Apply(cookies, Nothing) = cookies
<1>1. PICK s : Fits(s) /\ cookies = Written(s)
  BY DEF Whole
<1>2. DOMAIN Nothing.set = {} /\ Nothing.clear = {}
  BY DEF Nothing, EmptyJar
<1>3. Apply(cookies, Nothing) = [i \in DOMAIN cookies |-> cookies[i]]
  BY <1>2 DEF Apply
<1> QED BY <1>1, <1>3 DEF Written

(* ------------------- The values one response carries ------------------- *)

\* What is whole shows nothing beyond the budget.
LEMMA NoLegacy ==
    ASSUME NEW b \in Budgets, NEW headers, Whole(headers)
    PROVE  LegacyCleared(headers, b) = {}
<1>1. \A i \in DOMAIN headers : ~(i >= b)
  BY WholeWithinBudget, Constants
<1> QED BY <1>1 DEF LegacyCleared

LEMMA SaveIsComplete ==
    ASSUME OneBudget, NEW b \in Budgets, NEW s \in Session, s.size <= b,
           NEW headers, Whole(headers)
    PROVE  Complete(SaveCookies(s, headers, b), s)
<1> DEFINE a == SaveCookies(s, headers, b)
<1>1. Fits(s)
  BY DEF Fits, OneBudget
<1>2. a.set = Written(s) /\ DOMAIN a.set = 0..(s.size - 1)
  BY <1>1, WrittenDomain DEF SaveCookies
<1>3. a.clear = (s.size)..(b - 1)
  BY NoLegacy DEF SaveCookies
<1>4. s.size \in Nat /\ b \in Nat
  BY Constants DEF Session
<1>5. \A c \in Budgets : c = b
  BY DEF OneBudget
<1>6. a.clear \cap DOMAIN a.set = {} /\ 0..(b - 1) \subseteq DOMAIN a.set \cup a.clear
  BY <1>2, <1>3, <1>4
<1> QED BY <1>1, <1>2, <1>5, <1>6 DEF Complete

LEMMA ClearIsComplete ==
    ASSUME OneBudget, NEW b \in Budgets, NEW headers, Whole(headers)
    PROVE  Complete(ClearCookies(headers, b), NoSession)
<1> DEFINE a == ClearCookies(headers, b)
<1>1. Fits(NoSession)
  BY DEF Fits
<1>2. a.set = Written(NoSession) /\ DOMAIN a.set = {}
  BY NoSessionWritten DEF ClearCookies, EmptyJar
<1>3. a.clear = 0..(b - 1)
  BY NoLegacy DEF ClearCookies
<1>4. \A c \in Budgets : c = b
  BY DEF OneBudget
<1> QED BY <1>1, <1>2, <1>3, <1>4 DEF Complete

\* The later of two complete answers decides.
LEMMA LaterDecides ==
    ASSUME NEW b \in Budgets, NEW first, Clean(first),
           NEW second, NEW s, Complete(second, s)
    PROVE  Complete(Then(first, second), s)
<1>1. Whole(first.set)
  BY EmptyIsWhole DEF Clean, Complete, Whole, Nothing
<1>2. Apply(first.set, second) = Written(s)
  BY <1>1, CompleteReplaces
<1>3. /\ Then(first, second).set = second.set
      /\ Then(first, second).clear = (first.clear \ DOMAIN second.set) \cup second.clear
  BY <1>2 DEF Then, Complete
<1> QED BY <1>3 DEF Complete

\* Saying nothing more changes nothing.
LEMMA NothingMore ==
    ASSUME NEW first, Clean(first)
    PROVE  /\ first = Nothing => Then(first, Nothing) = Nothing
           /\ \A s : Complete(first, s) => Complete(Then(first, Nothing), s)
<1>1. Whole(first.set)
  BY EmptyIsWhole DEF Clean, Complete, Whole, Nothing
<1>2. Apply(first.set, Nothing) = first.set
  BY <1>1, NothingKeeps
<1>3. /\ Then(first, Nothing).set = first.set
      /\ Then(first, Nothing).clear = first.clear
  BY <1>2 DEF Then, Nothing, EmptyJar
<1>4. first = Nothing => Then(first, Nothing) = Nothing
  BY <1>2 DEF Then, Nothing, EmptyJar
<1> QED BY <1>3, <1>4 DEF Complete

\* What a response with clean parts says; the part the adapter puts last
\* decides, if it says anything.
LEMMA ResponseSays ==
    ASSUME NEW q, RequestOK(q), q.pc # "idle"
    PROVE  LET earlier == IF EngineCookiesLast THEN q.handler ELSE q.engine
               last == IF EngineCookiesLast THEN q.engine ELSE q.handler
           IN  /\ Response(q) = Then(earlier, last)
               /\ earlier = Nothing /\ last = Nothing => Response(q) = Nothing
               /\ \A s : Complete(last, s) => Complete(Response(q), s)
               /\ \A s : last = Nothing /\ Complete(earlier, s) => Complete(Response(q), s)
               /\ Clean(Response(q))
<1> DEFINE earlier == IF EngineCookiesLast THEN q.handler ELSE q.engine
           last == IF EngineCookiesLast THEN q.engine ELSE q.handler
<1>1. q.budget \in Budgets /\ Clean(earlier) /\ Clean(last)
  BY DEF RequestOK
<1>2. Response(q) = Then(earlier, last)
  BY DEF Response
<1> HIDE DEF earlier, last
<1>3. earlier = Nothing /\ last = Nothing => Response(q) = Nothing
  BY <1>1, <1>2, NothingMore
<1>4. \A s : Complete(last, s) => Complete(Response(q), s)
  BY <1>1, <1>2, LaterDecides
<1>5. \A s : last = Nothing /\ Complete(earlier, s) => Complete(Response(q), s)
  BY <1>1, <1>2, NothingMore
<1>6. Clean(Response(q))
  BY <1>1, <1>3, <1>4, <1>5 DEF Clean
<1> QED BY <1>2, <1>3, <1>4, <1>5, <1>6 DEF earlier, last

(* ------------------------------- Types --------------------------------- *)

LEMMA WrittenType ==
    ASSUME NEW s \in Session
    PROVE  Written(s) \in Jar
<1>1. 0..(s.size - 1) \subseteq Slot
  BY Constants DEF Session, Slot
<1>2. Written(s) \in [0..(s.size - 1) -> Chunk]
  BY <1>1 DEF Written, Chunk
<1> QED BY <1>1, <1>2 DEF Jar

LEMMA JarType ==
    /\ EmptyJar \in Jar
    /\ \A j \in Jar : DOMAIN j \subseteq Slot /\ \A i \in DOMAIN j : j[i] \in Chunk
BY DEF Jar, EmptyJar

LEMMA CookiesType ==
    ASSUME NEW headers \in Jar, NEW b \in Budgets \cup {0}
    PROVE  /\ ClearCookies(headers, b) \in Cookies
           /\ \A s \in Session : SaveCookies(s, headers, b) \in Cookies
           /\ Nothing \in Cookies
<1>1. LegacyCleared(headers, b) \subseteq Slot
  BY JarType DEF LegacyCleared
<1>2. 0..(b - 1) \subseteq Slot
  BY Constants DEF Slot
<1>3. ASSUME NEW s \in Session PROVE SaveCookies(s, headers, b) \in Cookies
  <2>1. (s.size)..(b - 1) \subseteq Slot
    BY <1>2, Constants DEF Session, Slot
  <2> QED BY <1>1, <2>1, WrittenType DEF SaveCookies, Cookies
<1> QED BY <1>1, <1>2, <1>3, JarType DEF ClearCookies, Cookies, Nothing

LEMMA ApplyType ==
    ASSUME NEW cookies \in Jar, NEW answer \in Cookies
    PROVE  Apply(cookies, answer) \in Jar
<1> DEFINE D == (DOMAIN cookies \ answer.clear) \cup DOMAIN answer.set
           f(i) == IF i \in DOMAIN answer.set THEN answer.set[i] ELSE cookies[i]
<1>1. answer.set \in Jar
  BY DEF Cookies
<1>2. D \in SUBSET Slot /\ \A i \in D : f(i) \in Chunk
  BY <1>1, JarType
<1>3. Apply(cookies, answer) = [i \in D |-> f(i)]
  BY DEF Apply
<1>4. Apply(cookies, answer) \in [D -> Chunk]
  BY <1>2, <1>3
<1> QED BY <1>2, <1>4 DEF Jar

LEMMA ContentType ==
    ASSUME NEW cookies \in Jar
    PROVE  Content(cookies) \in Session \cup {NoSession, Torn}
BY JarType DEF Content, Chunk

LEMMA SealedType ==
    ASSUME NEW grant \in Nat, seals \in Nat
    PROVE  Sealed(grant) \subseteq Session
BY Constants DEF Sealed, Session

LEMMA IdleType == Idle \in RequestState /\ Nothing \in Cookies
<1>1. Nothing \in Cookies
  BY JarType DEF Nothing, Cookies
<1> QED BY <1>1, JarType, Constants DEF Idle, RequestState, Pc, NoSession

LEMMA EndType ==
    ASSUME NEW q \in RequestState
    PROVE  /\ Answered(q) \in RequestState
           /\ Cleared(q) \in RequestState
<1>1. Answered(q) \in RequestState
  BY DEF Answered, RequestState, Pc
<1>2. ClearCookies(q.headers, q.budget) \in Cookies
  BY CookiesType DEF RequestState
<1> QED BY <1>1, <1>2 DEF Cleared, RequestState

\* One request changes its own state.
LEMMA BecomeType ==
    ASSUME TypeOK, NEW r \in Request, NEW q \in RequestState, Become(r, q),
           jar' \in Jar, seals' \in Nat, grants' \in Nat
    PROVE  TypeOK'
BY DEF TypeOK, Become

LEMMA SaveType ==
    ASSUME NEW q \in RequestState, NEW s \in Session
    PROVE  /\ [q EXCEPT !.engine = SaveCookies(s, q.headers, q.budget)] \in RequestState
           /\ [q EXCEPT !.handler = SaveCookies(s, q.headers, q.budget)] \in RequestState
<1>1. SaveCookies(s, q.headers, q.budget) \in Cookies
  BY CookiesType DEF RequestState
<1> QED BY <1>1 DEF RequestState

LEMMA RequestType ==
    ASSUME TypeOK, NEW r \in Request, RequestNext(r)
    PROVE  TypeOK'
<1> DEFINE q == req[r]
<1>1. /\ q \in RequestState /\ jar \in Jar /\ seals \in Nat /\ grants \in Nat
      /\ q.headers \in Jar /\ q.session \in [seal: Nat, size: 0..Slots, grant: Nat]
      /\ q.budget \in Budgets \cup {0}
  BY DEF TypeOK, RequestState
<1>2. Answered(q) \in RequestState /\ Cleared(q) \in RequestState
  BY <1>1, EndType
<1>3. CASE Send(r)
  <2>1. PICK route \in {"page", "logout", "login"}, b \in Budgets,
             headers \in {jar, EmptyJar} :
             Become(r, [Idle EXCEPT !.pc = "node", !.route = route,
                                    !.budget = b, !.headers = headers])
    BY <1>3 DEF Send
  <2>2. [Idle EXCEPT !.pc = "node", !.route = route, !.budget = b,
                     !.headers = headers] \in RequestState
    BY <1>1, IdleType, JarType DEF RequestState, Pc
  <2> QED BY <1>1, <1>3, <2>1, <2>2, BecomeType DEF Send
<1>4. CASE LoadSession(r)
  <2>1. ASSUME NEW pc \in {"refresh", "handler"},
               Content(q.headers) \notin {NoSession, Torn}
        PROVE  [q EXCEPT !.pc = pc, !.session = Content(q.headers)] \in RequestState
    <3>1. Content(q.headers) \in [seal: Nat, size: 0..Slots, grant: Nat]
      BY <1>1, <2>1, ContentType DEF Session
    <3> QED BY <1>1, <3>1 DEF RequestState, Pc
  <2>2. \E new \in RequestState : Become(r, new)
    BY <1>2, <1>4, <2>1 DEF LoadSession
  <2> QED BY <1>1, <1>4, <2>2, BecomeType DEF LoadSession
<1>5. CASE Logout(r)
  BY <1>1, <1>2, <1>5, BecomeType DEF Logout
<1>6. CASE Login(r)
  <2>1. ASSUME NEW s \in Sealed(grants + 1)
        PROVE  [Answered(q) EXCEPT !.engine = SaveCookies(s, q.headers, q.budget)]
                   \in RequestState
    <3>1. s \in Session
      BY <1>1, SealedType
    <3>2. Answered(q).headers = q.headers /\ Answered(q).budget = q.budget
      BY <1>1 DEF Answered, RequestState
    <3> QED BY <1>2, <3>1, <3>2, SaveType
  <2>2. \E new \in RequestState : Become(r, new)
    BY <1>2, <1>6, <2>1 DEF Login
  <2>3. jar' = jar /\ grants' = grants + 1 /\ seals' \in {seals, seals + 1}
    BY <1>6 DEF Login, Saves
  <2> QED BY <1>1, <2>2, <2>3, BecomeType
<1>7. CASE RefreshSucceeds(r)
  <2> DEFINE fresh == [q EXCEPT !.pc = "handler", !.session.grant = grants + 1]
  <2>1. fresh \in RequestState
    <3>1. grants + 1 \in Nat
      BY <1>1
    <3>2. [q.session EXCEPT !.grant = grants + 1] \in [seal: Nat, size: 0..Slots, grant: Nat]
      BY <1>1, <3>1
    <3>3. fresh = [[q EXCEPT !.pc = "handler"]
                    EXCEPT !.session = [q.session EXCEPT !.grant = grants + 1]]
      BY <1>1 DEF RequestState
    <3>4. [q EXCEPT !.pc = "handler"] \in RequestState
      BY <1>1 DEF RequestState, Pc
    <3> QED BY <3>2, <3>3, <3>4 DEF RequestState
  <2>2. /\ [fresh EXCEPT !.pending = TRUE] \in RequestState
        /\ Cleared(fresh) \in RequestState
    <3>1. [fresh EXCEPT !.pending = TRUE] \in RequestState
      BY <2>1 DEF RequestState
    <3> QED BY <2>1, <3>1, EndType
  <2>3. ASSUME NEW s \in Sealed(grants + 1)
        PROVE  [fresh EXCEPT !.engine = SaveCookies(s, q.headers, q.budget)]
                   \in RequestState
    <3>1. s \in Session
      BY <1>1, SealedType
    <3>2. fresh.headers = q.headers /\ fresh.budget = q.budget
      BY <1>1 DEF RequestState
    <3> HIDE DEF fresh
    <3> QED BY <2>1, <3>1, <3>2, SaveType
  <2>4. \E new \in RequestState : Become(r, new)
    <3>1. \/ \E s \in Sealed(grants + 1) :
               Become(r, [fresh EXCEPT !.engine = SaveCookies(s, q.headers, q.budget)])
          \/ Become(r, [fresh EXCEPT !.pending = TRUE])
          \/ Become(r, Cleared(fresh))
      BY <1>7 DEF RefreshSucceeds
    <3> HIDE DEF fresh
    <3> QED BY <2>2, <2>3, <3>1
  <2>5. jar' = jar /\ grants' = grants + 1 /\ seals' \in {seals, seals + 1}
    BY <1>7 DEF RefreshSucceeds, Saves
  <2> QED BY <1>1, <2>4, <2>5, BecomeType
<1>8. CASE RefreshRejected(r)
  BY <1>1, <1>2, <1>8, BecomeType DEF RefreshRejected
<1>9. CASE RefreshFails(r)
  <2>1. [q EXCEPT !.pc = "handler"] \in RequestState
    BY <1>1 DEF RequestState, Pc
  <2> QED BY <1>1, <1>2, <1>9, <2>1, BecomeType DEF RefreshFails
<1>10. CASE Handle(r)
  <2>1. ASSUME NEW s \in Sealed(SavedByHandler(q))
        PROVE  [q EXCEPT !.handler = SaveCookies(s, q.headers, q.budget)] \in RequestState
    BY <1>1, SealedType, SaveType DEF SavedByHandler
  <2>2. [q EXCEPT !.handler = ClearCookies(q.headers, q.budget), !.pending = FALSE]
            \in RequestState
    <3>1. ClearCookies(q.headers, q.budget) \in Cookies
      BY <1>1, CookiesType
    <3> QED BY <1>1, <3>1 DEF RequestState
  <2>3. \E new \in RequestState : Become(r, new)
    BY <1>10, <2>1, <2>2 DEF Handle
  <2>4. jar' = jar /\ grants' = grants /\ seals' \in {seals, seals + 1}
    BY <1>10 DEF Handle, Saves
  <2> QED BY <1>1, <2>3, <2>4, BecomeType
<1>11. CASE Respond(r)
  <2>1. ASSUME NEW s \in Sealed(q.session.grant)
        PROVE  [Answered(q) EXCEPT !.engine = SaveCookies(s, q.headers, q.budget)]
                   \in RequestState
    <3>1. s \in Session
      BY <1>1, SealedType
    <3>2. Answered(q).headers = q.headers /\ Answered(q).budget = q.budget
      BY <1>1 DEF Answered, RequestState
    <3> QED BY <1>2, <3>1, <3>2, SaveType
  <2>2. ASSUME NEW handler \in {q.handler, Nothing}
        PROVE  [Answered(q) EXCEPT !.handler = handler] \in RequestState
    BY <1>1, <1>2, IdleType DEF RequestState
  <2>3. \E new \in RequestState : Become(r, new)
    BY <1>2, <1>11, <2>1, <2>2 DEF Respond
  <2>4. jar' = jar /\ grants' = grants /\ seals' \in {seals, seals + 1}
    BY <1>11 DEF Respond, Saves
  <2> QED BY <1>1, <2>3, <2>4, BecomeType
<1>12. CASE Deliver(r)
  <2>1. Response(q) \in Cookies
    <3>1. ASSUME NEW a \in Cookies, NEW c \in Cookies
          PROVE  Then(a, c) \in Cookies
      <4>1. Apply(a.set, c) \in Jar
        BY ApplyType DEF Cookies
      <4> QED BY <4>1 DEF Then, Cookies
    <3> QED BY <1>1, <3>1 DEF Response, RequestState
  <2> QED BY <1>1, <1>12, <2>1, ApplyType, IdleType, BecomeType DEF Deliver
<1>13. CASE Lose(r)
  BY <1>1, <1>13, IdleType, BecomeType DEF Lose
<1> QED BY <1>3, <1>4, <1>5, <1>6, <1>7, <1>8, <1>9, <1>10, <1>11, <1>12, <1>13
        DEF RequestNext

LEMMA ExpiryType ==
    ASSUME TypeOK, CookiesExpire
    PROVE  TypeOK'
<1>1. PICK i \in DOMAIN jar :
        jar' = [j \in {k \in DOMAIN jar : jar[k].session # jar[i].session} |-> jar[j]]
  BY DEF CookiesExpire
<1> DEFINE left == {k \in DOMAIN jar : jar[k].session # jar[i].session}
<1>2. left \in SUBSET Slot /\ jar' \in [left -> Chunk]
  BY <1>1, JarType DEF TypeOK
<1>3. jar' \in Jar
  BY <1>2 DEF Jar
<1> QED BY <1>3 DEF TypeOK, CookiesExpire

LEMMA InitType ==
    ASSUME Init
    PROVE  TypeOK
<1>1. [seal |-> 1, size |-> LoginSize, grant |-> 1] \in Session
  BY ChunksAssumption DEF Session
<1> QED BY <1>1, WrittenType, IdleType DEF Init, TypeOK

\* Every variable of CookieSession keeps its type, whatever the budgets.
THEOREM TypeCorrect == Spec => []TypeOK
<1>1. Init => TypeOK
  BY InitType
<1>2. TypeOK /\ [Next]_vars => TypeOK'
  BY RequestType, ExpiryType DEF Next, vars, TypeOK
<1> QED BY <1>1, <1>2, PTL DEF Spec

(* ---------------------- The invariant is inductive --------------------- *)

LEMMA NothingCarries ==
    \A grant : /\ Carries(Nothing, grant)
              /\ \A headers, b : Carries(ClearCookies(headers, b), grant)
BY DEF Carries, Nothing, ClearCookies, EmptyJar

\* A save that fits is clean and carries the grant of its session.
LEMMA SaveOK ==
    ASSUME OneBudget, TypeOK, NEW q, RequestOK(q), q.pc # "idle",
           NEW grant \in Nat, NEW s \in Sealed(grant), Saves(q, s)
    PROVE  /\ Clean(SaveCookies(s, q.headers, q.budget))
           /\ Carries(SaveCookies(s, q.headers, q.budget), grant)
<1>1. s \in Session /\ s.grant = grant
  BY SealedType DEF TypeOK, Sealed
<1>2. s.size <= q.budget /\ q.budget \in Budgets /\ Whole(q.headers)
  BY DEF Saves, RequestOK
<1>3. Complete(SaveCookies(s, q.headers, q.budget), s)
  BY <1>1, <1>2, SaveIsComplete
<1>4. Carries(SaveCookies(s, q.headers, q.budget), grant)
  BY <1>1, <1>3, WrittenDomain DEF Carries, Complete
<1> QED BY <1>3, <1>4 DEF Clean

LEMMA ClearOK ==
    ASSUME OneBudget, NEW q, RequestOK(q), q.pc # "idle"
    PROVE  Clean(ClearCookies(q.headers, q.budget))
BY ClearIsComplete DEF RequestOK, Clean

LEMMA IdleOK == RequestOK(Idle)
BY EmptyIsWhole, NothingCarries DEF RequestOK, Idle, Clean, OneGrant

LEMMA EndOK ==
    ASSUME OneBudget, NEW q \in RequestState, RequestOK(q), q.pc # "idle"
    PROVE  RequestOK(Answered(q)) /\ RequestOK(Cleared(q))
<1>1. /\ Answered(q).budget = q.budget /\ Answered(q).headers = q.headers
      /\ Answered(q).engine = q.engine /\ Answered(q).handler = q.handler
      /\ Answered(q).session = q.session /\ Answered(q).pc = "answered"
      /\ Answered(q) \in RequestState
  BY EndType DEF Answered, RequestState
<1>2. /\ Cleared(q).budget = q.budget /\ Cleared(q).headers = q.headers
      /\ Cleared(q).engine = ClearCookies(q.headers, q.budget)
      /\ Cleared(q).handler = q.handler
      /\ Cleared(q).session = q.session /\ Cleared(q).pc = "answered"
  BY <1>1 DEF Cleared, RequestState
<1>3. q.pc \in Pc
  BY DEF RequestState
<1>4. RequestOK(Answered(q))
  BY <1>1, <1>3, NothingCarries DEF RequestOK, OneGrant, Pc
<1> QED BY <1>2, <1>3, <1>4, ClearOK, NothingCarries DEF RequestOK, OneGrant, Pc

\* A step of a request that leaves the browser alone keeps its state well-formed.
LEMMA StepOK ==
    ASSUME OneBudget, IInv, NEW r \in Request, RequestNext(r), ~Deliver(r)
    PROVE  /\ req' = [req EXCEPT ![r] = req'[r]] /\ RequestOK(req'[r])
           /\ jar' = jar
<1> DEFINE q == req[r]
<1>1. /\ q \in RequestState /\ q.pc \in Pc /\ RequestOK(q) /\ Whole(jar)
      /\ req \in [Request -> RequestState] /\ seals \in Nat /\ grants \in Nat
      /\ q.session.grant \in Nat /\ TypeOK
  BY DEF IInv, TypeOK, RequestState
<1>2. ASSUME NEW new, Become(r, new), RequestOK(new), jar' = jar
      PROVE  /\ req' = [req EXCEPT ![r] = req'[r]] /\ RequestOK(req'[r])
             /\ jar' = jar
  BY <1>1, <1>2 DEF Become
<1>3. CASE Send(r)
  <2>1. PICK route \in {"page", "logout", "login"}, b \in Budgets,
             headers \in {jar, EmptyJar} :
             Become(r, [Idle EXCEPT !.pc = "node", !.route = route,
                                    !.budget = b, !.headers = headers])
    BY <1>3 DEF Send
  <2>2. Whole(headers)
    BY <1>1, EmptyIsWhole
  <2>3. RequestOK([Idle EXCEPT !.pc = "node", !.route = route, !.budget = b,
                               !.headers = headers])
    BY <2>2, IdleOK DEF RequestOK, OneGrant, Idle
  <2> QED BY <1>2, <1>3, <2>1, <2>3 DEF Send
<1>4. CASE LoadSession(r)
  <2>1. ASSUME NEW pc \in {"refresh", "handler"}
        PROVE  RequestOK([q EXCEPT !.pc = pc, !.session = Content(q.headers)])
    BY <1>1, <1>4, NothingCarries DEF LoadSession, RequestOK, OneGrant, RequestState
  <2>2. RequestOK(Answered(q)) /\ RequestOK(Cleared(q))
    BY <1>1, <1>4, EndOK DEF LoadSession
  <2>3. PICK new : Become(r, new) /\ RequestOK(new)
    BY <1>4, <2>1, <2>2 DEF LoadSession
  <2> QED BY <1>2, <1>4, <2>3 DEF LoadSession
<1>5. CASE Logout(r)
  BY <1>1, <1>2, <1>5, EndOK DEF Logout
<1>6. CASE Login(r)
  <2>1. q.pc = "node" /\ RequestOK(Answered(q)) /\ q.engine = Nothing /\ q.handler = Nothing
    BY <1>1, <1>6, EndOK DEF Login, RequestOK, OneGrant
  <2>2. ASSUME NEW s \in Sealed(grants + 1), Saves(q, s)
        PROVE  RequestOK([Answered(q) EXCEPT
                            !.engine = SaveCookies(s, q.headers, q.budget)])
    <3>1. Clean(SaveCookies(s, q.headers, q.budget))
      BY <1>1, <2>1, <2>2, SaveOK
    <3> QED BY <1>1, <2>1, <3>1, EndType DEF RequestOK, OneGrant, Answered, RequestState
  <2>3. PICK new : Become(r, new) /\ RequestOK(new)
    BY <1>6, <2>1, <2>2 DEF Login
  <2> QED BY <1>2, <1>6, <2>3 DEF Login
<1>7. CASE RefreshSucceeds(r)
  <2> DEFINE fresh == [q EXCEPT !.pc = "handler", !.session.grant = grants + 1]
  <2>1. /\ fresh.budget = q.budget /\ fresh.headers = q.headers /\ fresh.pc = "handler"
        /\ fresh.engine = Nothing /\ fresh.handler = Nothing
        /\ fresh.session.grant = grants + 1 /\ q.pc = "refresh"
        /\ fresh = [[q EXCEPT !.pc = "handler"]
                     EXCEPT !.session = [q.session EXCEPT !.grant = grants + 1]]
    <3>1. q.pc = "refresh" /\ q.engine = Nothing /\ q.handler = Nothing
      BY <1>1, <1>7 DEF RefreshSucceeds, RequestOK, OneGrant
    <3> QED BY <1>1, <3>1 DEF RequestState
  <2>2. /\ fresh \in RequestState
        /\ \A s : [fresh EXCEPT !.engine = SaveCookies(s, q.headers, q.budget)].session
                     = fresh.session
    <3>1. [q.session EXCEPT !.grant = grants + 1] \in [seal: Nat, size: 0..Slots, grant: Nat]
      BY <1>1 DEF RequestState
    <3>2. [q EXCEPT !.pc = "handler"] \in RequestState
      BY <1>1 DEF RequestState, Pc
    <3>3. fresh \in RequestState
      BY <2>1, <3>1, <3>2 DEF RequestState
    <3> HIDE DEF fresh
    <3> QED BY <3>3 DEF RequestState
  <2>3. \/ \E s \in Sealed(grants + 1) :
             /\ Saves(q, s)
             /\ Become(r, [fresh EXCEPT !.engine = SaveCookies(s, q.headers, q.budget)])
        \/ Become(r, [fresh EXCEPT !.pending = TRUE])
        \/ Become(r, Cleared(fresh))
    BY <1>7 DEF RefreshSucceeds
  <2> HIDE DEF fresh
  <2>4. RequestOK(fresh) /\ RequestOK(Cleared(fresh))
    <3>1. RequestOK(fresh)
      BY <1>1, <2>1, NothingCarries DEF RequestOK, OneGrant
    <3> QED BY <2>1, <2>2, <3>1, EndOK
  <2>5. RequestOK([fresh EXCEPT !.pending = TRUE])
    BY <2>2, <2>4 DEF RequestOK, OneGrant, RequestState
  <2>6. ASSUME NEW s \in Sealed(grants + 1), Saves(q, s)
        PROVE  RequestOK([fresh EXCEPT !.engine = SaveCookies(s, q.headers, q.budget)])
    <3>1. /\ Clean(SaveCookies(s, q.headers, q.budget))
          /\ Carries(SaveCookies(s, q.headers, q.budget), grants + 1)
      BY <1>1, <2>1, <2>6, SaveOK
    <3> QED BY <1>1, <2>1, <2>2, <2>4, <3>1 DEF RequestOK, OneGrant, RequestState
  <2>7. PICK new : Become(r, new) /\ RequestOK(new)
    BY <2>3, <2>4, <2>5, <2>6
  <2> QED BY <1>2, <1>7, <2>7 DEF RefreshSucceeds
<1>8. CASE RefreshRejected(r)
  BY <1>1, <1>2, <1>8, EndOK DEF RefreshRejected
<1>9. CASE RefreshFails(r)
  <2>1. RequestOK(Answered(q))
    BY <1>1, <1>9, EndOK DEF RefreshFails
  <2>2. RequestOK([q EXCEPT !.pc = "handler"])
    BY <1>1, <1>9, NothingCarries DEF RefreshFails, RequestOK, OneGrant, RequestState
  <2> QED BY <1>2, <1>9, <2>1, <2>2 DEF RefreshFails
<1>10. CASE Handle(r)
  <2>1. q.pc = "handler"
    BY <1>10 DEF Handle
  <2>2. ASSUME NEW s \in Sealed(SavedByHandler(q)), Saves(q, s)
        PROVE  RequestOK([q EXCEPT !.handler = SaveCookies(s, q.headers, q.budget)])
    <3>1. /\ Clean(SaveCookies(s, q.headers, q.budget))
          /\ Carries(SaveCookies(s, q.headers, q.budget), q.session.grant)
      BY <1>1, <2>1, <2>2, SaveOK DEF SavedByHandler
    <3> QED BY <1>1, <2>1, <3>1 DEF RequestOK, OneGrant, RequestState
  <2>3. RequestOK([q EXCEPT !.handler = ClearCookies(q.headers, q.budget),
                            !.pending = FALSE])
    BY <1>1, <2>1, ClearOK, NothingCarries DEF RequestOK, OneGrant, RequestState
  <2>4. PICK new : Become(r, new) /\ RequestOK(new)
    BY <1>10, <2>2, <2>3 DEF Handle
  <2> QED BY <1>2, <1>10, <2>4 DEF Handle
<1>11. CASE Respond(r)
  <2>1. /\ q.pc = "handler" /\ RequestOK(Answered(q)) /\ Answered(q) \in RequestState
        /\ Answered(q).session = q.session /\ Answered(q).pc = "answered"
    BY <1>1, <1>11, EndOK, EndType DEF Respond, Answered, RequestState
  <2>2. ASSUME NEW s \in Sealed(q.session.grant), Saves(q, s)
        PROVE  RequestOK([Answered(q) EXCEPT
                            !.engine = SaveCookies(s, q.headers, q.budget)])
    <3>1. /\ Clean(SaveCookies(s, q.headers, q.budget))
          /\ Carries(SaveCookies(s, q.headers, q.budget), q.session.grant)
      BY <1>1, <2>1, <2>2, SaveOK
    <3> QED BY <2>1, <3>1 DEF RequestOK, OneGrant, RequestState
  <2>3. ASSUME NEW handler \in {q.handler, Nothing}
        PROVE  RequestOK([Answered(q) EXCEPT !.handler = handler])
    <3>1. Clean(handler) /\ Carries(handler, q.session.grant)
      BY <1>1, NothingCarries DEF RequestOK, OneGrant, Clean
    <3>2. Carries(Answered(q).engine, q.session.grant)
      BY <1>1, <2>1 DEF RequestOK, OneGrant, Answered, RequestState
    <3> QED BY <2>1, <3>1, <3>2 DEF RequestOK, OneGrant, RequestState
  <2>4. PICK new : Become(r, new) /\ RequestOK(new)
    BY <1>11, <2>1, <2>2, <2>3 DEF Respond
  <2> QED BY <1>2, <1>11, <2>4 DEF Respond
<1>12. CASE Lose(r)
  BY <1>2, <1>12, IdleOK DEF Lose
<1> QED BY <1>3, <1>4, <1>5, <1>6, <1>7, <1>8, <1>9, <1>10, <1>11, <1>12
        DEF RequestNext

\* Delivery replaces the cookies by what the response says, or keeps them.
LEMMA DeliverSays ==
    ASSUME IInv, NEW r \in Request, Deliver(r)
    PROVE  LET q == req[r]
           IN  /\ RequestOK(q) /\ q.pc = "answered" /\ Clean(Response(q))
               /\ req' = [req EXCEPT ![r] = Idle]
               /\ Response(q) = Nothing => jar' = jar
               /\ \A s : Complete(Response(q), s) => jar' = Written(s)
<1> DEFINE q == req[r]
<1>1. /\ RequestOK(q) /\ q.pc = "answered" /\ q.budget \in Budgets /\ Whole(jar)
      /\ jar' = Apply(jar, Response(q)) /\ req' = [req EXCEPT ![r] = Idle]
  BY DEF IInv, Deliver, Become, RequestOK
<1>2. Clean(Response(q))
  BY <1>1, ResponseSays
<1> QED BY <1>1, <1>2, NothingKeeps, CompleteReplaces

\* Cookies that are whole expire as a whole.
LEMMA ExpiryClears ==
    ASSUME IInv, CookiesExpire
    PROVE  jar' = EmptyJar /\ UNCHANGED req
<1>1. PICK s : Fits(s) /\ jar = Written(s)
  BY DEF IInv, Whole
<1>2. \A i \in DOMAIN jar : jar[i].session = s
  BY <1>1, WrittenDomain
<1>3. PICK i \in DOMAIN jar :
        jar' = [j \in {k \in DOMAIN jar : jar[k].session # jar[i].session} |-> jar[j]]
  BY DEF CookiesExpire
<1>4. {k \in DOMAIN jar : jar[k].session # jar[i].session} = {}
  BY <1>2
<1> QED BY <1>3, <1>4 DEF EmptyJar, CookiesExpire

LEMMA InitOK ==
    ASSUME OneBudget, Init
    PROVE  IInv
<1> DEFINE s == [seal |-> 1, size |-> LoginSize, grant |-> 1]
<1>1. s \in Session /\ Fits(s)
  BY ChunksAssumption DEF Session, Fits, OneBudget
<1>2. TypeOK
  BY <1>1, WrittenType, IdleType DEF Init, TypeOK
<1> QED BY <1>1, <1>2, IdleOK DEF IInv, Init, Whole

LEMMA NextOK ==
    ASSUME OneBudget, IInv, [Next]_vars
    PROVE  IInv'
<1>1. TypeOK'
  BY RequestType, ExpiryType DEF IInv, TypeOK, Next, vars
<1>2. req \in [Request -> RequestState]
  BY DEF IInv, TypeOK
<1>3. CASE CookiesExpire
  BY <1>1, <1>3, ExpiryClears, EmptyIsWhole DEF IInv
<1>4. ASSUME NEW r \in Request, Deliver(r)
      PROVE  IInv'
  <2>1. Whole(jar')
    BY <1>4, DeliverSays DEF Clean, Complete, Whole, IInv
  <2>2. \A p \in Request : RequestOK(req'[p])
    BY <1>2, <1>4, DeliverSays, IdleOK DEF IInv
  <2> QED BY <1>1, <2>1, <2>2 DEF IInv
<1>5. ASSUME NEW r \in Request, RequestNext(r), ~Deliver(r)
      PROVE  IInv'
  <2>1. req' = [req EXCEPT ![r] = req'[r]] /\ RequestOK(req'[r]) /\ jar' = jar
    BY <1>5, StepOK
  <2>2. \A p \in Request : RequestOK(req'[p])
    BY <1>2, <2>1 DEF IInv
  <2> QED BY <1>1, <2>1, <2>2 DEF IInv
<1>6. CASE UNCHANGED vars
  BY <1>1, <1>6 DEF IInv, vars
<1> QED BY <1>3, <1>4, <1>5, <1>6 DEF Next

\* Under one budget the cookies in the browser and in every request are whole.
THEOREM Inductive == OneBudget => (Spec => []IInv)
<1> SUFFICES ASSUME OneBudget PROVE Spec => []IInv
  OBVIOUS
<1>1. Init => IInv
  BY InitOK
<1>2. IInv /\ [Next]_vars => IInv'
  BY NextOK
<1> QED BY <1>1, <1>2, PTL DEF Spec

(* ---------------------- One cookie, as a whole ------------------------- *)

LEMMA SaidIs ==
    ASSUME NEW q, RequestOK(q)
    PROVE  Said(q) = {} \/ \E s : s # Torn /\ Said(q) = {s}
<1>1. CASE q.pc # "answered" \/ Response(q) = Nothing
  BY <1>1 DEF Said
<1>2. CASE q.pc = "answered" /\ Response(q) # Nothing
  <2>1. q.budget \in Budgets
    BY <1>2 DEF RequestOK
  <2>2. PICK s : Complete(Response(q), s)
    BY <1>2, ResponseSays DEF Clean
  <2>3. Apply(EmptyJar, Response(q)) = Written(s)
    BY <2>1, <2>2, EmptyIsWhole, CompleteReplaces
  <2>4. Said(q) = {s} /\ s # Torn
    BY <1>2, <2>2, <2>3, WrittenLoads DEF Said, Complete
  <2> QED BY <2>4
<1> QED BY <1>1, <1>2

\* What a delivered response that says something said is what is presented.
LEMMA DeliveredIsHeld ==
    ASSUME IInv, NEW r \in Request, Deliver(r), Response(req[r]) # Nothing
    PROVE  Content(jar') \in Said(req[r])
<1> DEFINE q == req[r]
<1>1. RequestOK(q) /\ q.pc = "answered" /\ q.budget \in Budgets
  BY DeliverSays DEF RequestOK
<1>2. PICK s : Complete(Response(q), s)
  BY DeliverSays DEF Clean
<1>3. jar' = Written(s)
  BY <1>2, DeliverSays
<1>4. Apply(EmptyJar, Response(q)) = Written(s)
  BY <1>1, <1>2, EmptyIsWhole, CompleteReplaces
<1> QED BY <1>1, <1>3, <1>4 DEF Said

\* With OneBudget chunked cookies implement one value that responses replace as
\* a whole: every split, batch of clears and order of arrival maps to it.
THEOREM OneCookie == OneBudget => (Spec => BehavesAsOneCookie)
<1> SUFFICES ASSUME OneBudget PROVE Spec => BehavesAsOneCookie
  OBVIOUS
<1> DEFINE held == Content(jar)
           answers == [r \in Request |-> Said(req[r])]
<1>1. Init => Atomic!Init
  <2> SUFFICES ASSUME Init PROVE Atomic!Init
    OBVIOUS
  <2>1. held # Torn
    BY InitOK, WrittenLoads DEF IInv, Whole
  <2>2. \A r \in Request : Said(req[r]) = {}
    BY DEF Init, Said, Idle
  <2> QED BY <2>1, <2>2 DEF Atomic!Init, Atomic!Torn, Torn
<1>2. IInv /\ IInv' /\ [Next]_vars => [Atomic!Next]_<<held, answers>>
  <2> SUFFICES ASSUME IInv, IInv', [Next]_vars
               PROVE  [Atomic!Next]_<<held, answers>>
    OBVIOUS
  <2>1. req \in [Request -> RequestState]
    BY DEF IInv, TypeOK
  <2>2. ASSUME NEW r \in Request, req' = [req EXCEPT ![r] = req'[r]]
        PROVE  answers' = [answers EXCEPT ![r] = Said(req'[r])]
    BY <2>1, <2>2
  <2>3. CASE CookiesExpire
    <3>1. held' = NoSession /\ answers' = answers
      BY <2>3, ExpiryClears DEF Content, EmptyJar
    <3> QED BY <3>1 DEF Atomic!Next, Atomic!Expire, Atomic!NoSession, NoSession
  <2>4. ASSUME NEW r \in Request, Deliver(r)
        PROVE  [Atomic!Next]_<<held, answers>>
    <3>1. req' = [req EXCEPT ![r] = Idle] /\ req'[r] = Idle
      BY <2>1, <2>4, DeliverSays
    <3>2. answers' = [answers EXCEPT ![r] = {}]
      <4>1. Said(Idle) = {}
        BY DEF Said, Idle
      <4>2. req' = [req EXCEPT ![r] = req'[r]] /\ Said(req'[r]) = {}
        BY <3>1, <4>1
      <4> QED BY <2>2, <4>2
    <3>3. CASE Response(req[r]) = Nothing
      <4>1. held' = held
        BY <2>4, <3>3, DeliverSays
      <4> QED BY <3>2, <4>1 DEF Atomic!Next, Atomic!Lose, Atomic!Says
    <3>4. CASE Response(req[r]) # Nothing
      <4>1. held' \in answers[r]
        BY <2>4, <3>4, DeliveredIsHeld
      <4> QED BY <3>2, <4>1 DEF Atomic!Next, Atomic!Deliver, Atomic!Says
    <3> QED BY <3>3, <3>4
  <2>5. ASSUME NEW r \in Request, RequestNext(r), ~Deliver(r)
        PROVE  [Atomic!Next]_<<held, answers>>
    <3>1. req' = [req EXCEPT ![r] = req'[r]] /\ RequestOK(req'[r]) /\ held' = held
      BY <2>5, StepOK
    <3>2. answers' = [answers EXCEPT ![r] = Said(req'[r])]
      BY <2>2, <3>1
    <3>3. CASE Said(req'[r]) = {}
      BY <3>1, <3>2, <3>3 DEF Atomic!Next, Atomic!Lose, Atomic!Says
    <3>4. CASE Said(req'[r]) # {}
      <4>1. PICK s : s # Torn /\ Said(req'[r]) = {s}
        BY <3>1, <3>4, SaidIs
      <4>2. s \in answers'[r] /\ s # Atomic!Torn
        BY <4>1 DEF Atomic!Torn, Torn
      <4>3. answers' = [answers EXCEPT ![r] = {s}]
        BY <3>2, <4>1
      <4>4. Atomic!Says(r, {s})
        BY <4>3 DEF Atomic!Says
      <4>5. Atomic!Answer(r)
        BY <3>1, <4>2, <4>4 DEF Atomic!Answer
      <4> QED BY <4>5 DEF Atomic!Next
    <3> QED BY <3>3, <3>4
  <2>6. CASE UNCHANGED vars
    BY <2>6 DEF vars
  <2> QED BY <2>3, <2>4, <2>5, <2>6 DEF Next
<1>3. Spec => []IInv
  BY Inductive
<1> QED BY <1>1, <1>2, <1>3, PTL DEF Spec, BehavesAsOneCookie, Atomic!Spec

(* --------------- What the handler and the refresh did ------------------ *)

\* With the handler's cookies last, the session the handler saved or cleared
\* is the session the browser has once the response arrives.
THEOREM HandlerDecides ==
    OneBudget /\ EngineCookiesLast = FALSE => (Spec => HandlerHasTheLastWord)
<1> SUFFICES ASSUME OneBudget, EngineCookiesLast = FALSE
             PROVE  Spec => HandlerHasTheLastWord
  OBVIOUS
<1>1. ASSUME IInv, NEW r \in Request, Deliver(r), req[r].handler # Nothing
      PROVE  Content(jar') = Content(Apply(EmptyJar, req[r].handler))
  <2> DEFINE q == req[r]
  <2>1. RequestOK(q) /\ q.pc = "answered" /\ q.budget \in Budgets
    BY <1>1, DeliverSays DEF RequestOK
  <2>2. PICK s : Complete(q.handler, s)
    BY <1>1, <2>1 DEF RequestOK, Clean
  <2>3. Complete(Response(q), s)
    BY <2>1, <2>2, ResponseSays
  <2> QED BY <1>1, <2>1, <2>2, <2>3, DeliverSays, EmptyIsWhole, CompleteReplaces
<1>2. IInv /\ [Next]_vars =>
        [\A r \in Request : Deliver(r) /\ req[r].handler # Nothing =>
            Content(jar') = Content(Apply(EmptyJar, req[r].handler))]_vars
  BY <1>1
<1>3. Spec => []IInv
  BY Inductive
<1> QED BY <1>2, <1>3, PTL DEF Spec, HandlerHasTheLastWord

\* With the handler's cookies last, a handler that ends the session clears the
\* browser, whatever the engine had stored for the same response: the order of
\* the adapter guide is all that stands between the code and this promise.
THEOREM TerminationClears ==
    OneBudget /\ EngineCookiesLast = FALSE => (Spec => TerminationClearsBrowser)
<1> SUFFICES ASSUME OneBudget, EngineCookiesLast = FALSE
             PROVE  Spec => TerminationClearsBrowser
  OBVIOUS
<1>1. ASSUME IInv, NEW r \in Request, Deliver(r),
             req[r].handler # Nothing, req[r].handler.set = EmptyJar
      PROVE  Content(jar') = NoSession
  <2> DEFINE q == req[r]
  <2>1. RequestOK(q) /\ q.pc = "answered" /\ q.budget \in Budgets
    BY <1>1, DeliverSays DEF RequestOK
  <2>2. PICK s : Complete(q.handler, s)
    BY <1>1, <2>1 DEF RequestOK, Clean
  <2>3. s = NoSession
    <3>1. Fits(s) /\ DOMAIN Written(s) = {}
      BY <1>1, <2>2 DEF Complete, EmptyJar
    <3> QED BY <3>1, WrittenDomain
  <2>4. Complete(Response(q), NoSession)
    BY <2>1, <2>2, <2>3, ResponseSays
  <2> QED BY <1>1, <2>1, <2>4, DeliverSays, WrittenLoads DEF Complete
<1>2. IInv /\ [Next]_vars =>
        [\A r \in Request :
            /\ Deliver(r)
            /\ req[r].handler # Nothing /\ req[r].handler.set = EmptyJar
            => Content(jar') = NoSession]_vars
  BY <1>1
<1>3. Spec => []IInv
  BY Inductive
<1> QED BY <1>2, <1>3, PTL DEF Spec, TerminationClearsBrowser

\* In either order of the adapter, rotated tokens that were sealed reach the
\* browser with the response, unless the response ends the session.
THEOREM RefreshArrives == OneBudget => (Spec => RefreshReachesBrowser)
<1> SUFFICES ASSUME OneBudget PROVE Spec => RefreshReachesBrowser
  OBVIOUS
<1>1. ASSUME IInv, NEW r \in Request, Deliver(r), DOMAIN req[r].engine.set # {}
      PROVE  \/ Content(jar') = NoSession
             \/ Content(jar').grant = req[r].engine.set[0].session.grant
  <2> DEFINE q == req[r]
  <2>1. RequestOK(q) /\ q.pc = "answered" /\ OneGrant(q)
    BY <1>1, DeliverSays DEF RequestOK
  <2>2. PICK s : Complete(q.engine, s) /\ s # NoSession
    <3>1. q.engine # Nothing
      BY <1>1 DEF Nothing, EmptyJar
    <3> QED BY <1>1, <2>1, <3>1, WrittenDomain DEF RequestOK, Clean, Complete
  <2>3. 0 \in DOMAIN q.engine.set /\ q.engine.set[0].session = s /\ Fits(s)
    BY <2>2, WrittenDomain DEF Complete
  <2>4. CASE q.handler = Nothing \/ EngineCookiesLast
    <3>1. Complete(Response(q), s)
      BY <2>1, <2>2, <2>4, AdapterAssumption, ResponseSays
    <3> QED BY <1>1, <2>3, <3>1, DeliverSays, WrittenLoads
  <2>5. CASE q.handler # Nothing /\ ~EngineCookiesLast
    <3>1. PICK h : Complete(q.handler, h)
      BY <2>1, <2>5 DEF RequestOK, Clean
    <3>2. Content(jar') = h
      <4>1. Complete(Response(q), h)
        BY <2>1, <2>5, <3>1, ResponseSays
      <4> QED BY <1>1, <3>1, <4>1, DeliverSays, WrittenLoads DEF Complete
    <3>3. CASE h # NoSession
      <4>1. 0 \in DOMAIN q.handler.set /\ q.handler.set[0].session = h
        BY <3>1, <3>3, WrittenDomain DEF Complete
      <4> QED BY <2>1, <2>3, <2>5, <3>2, <4>1 DEF OneGrant, Carries
    <3> QED BY <3>2, <3>3
  <2> QED BY <2>4, <2>5
<1>2. IInv /\ [Next]_vars =>
        [\A r \in Request : Deliver(r) /\ DOMAIN req[r].engine.set # {} =>
            \/ Content(jar') = NoSession
            \/ Content(jar').grant = req[r].engine.set[0].session.grant]_vars
  BY <1>1
<1>3. Spec => []IInv
  BY Inductive
<1> QED BY <1>2, <1>3, PTL DEF Spec, RefreshReachesBrowser

(* --------------------- Slots of a larger budget ------------------------ *)

\* A set of naturals has a least element.
LEMMA LeastElement ==
    ASSUME NEW S \in SUBSET Nat, S # {}
    PROVE  \E m \in S : \A n \in S : m <= n
<1> DEFINE R == {p \in Nat \X Nat : p[1] < p[2]}
<1>1. IsWellFoundedOn(R, Nat)
  BY NatLessThanWellFounded DEF OpToRel
<1>2. PICK x \in S : \A y \in S : <<y, x>> \notin R
  <2> HIDE DEF R
  <2> QED BY <1>1, WFMin, Zenon
<1>3. ASSUME NEW y \in S PROVE x <= y
  <2>1. <<y, x>> \notin R /\ <<y, x>> \in Nat \X Nat
    BY <1>2
  <2>2. ~(<<y, x>>[1] < <<y, x>>[2])
    BY <2>1
  <2>3. ~(y < x)
    BY <2>2
  <2> QED BY <2>3
<1> QED BY <1>3

\* Induction, for a set of numbers instead of a predicate.
LEMMA Induction ==
    ASSUME NEW S \in SUBSET Nat, 0 \in S, \A n \in S : n + 1 \in S
    PROVE  S = Nat
<1> SUFFICES ASSUME Nat \ S # {} PROVE FALSE
  OBVIOUS
<1>1. PICK m \in Nat \ S : \A n \in Nat \ S : m <= n
  <2>1. Nat \ S \in SUBSET Nat
    OBVIOUS
  <2> QED BY <2>1, LeastElement
<1>2. m # 0 /\ m - 1 \in S
  BY <1>1
<1>3. (m - 1) + 1 = m
  BY <1>2
<1> QED BY <1>2, <1>3

\* LegacyCleared takes the lowest numbers of a set, by how many are below.
Below(S, i) == {j \in S : j < i}
Lowest(S, k) == {i \in S : Cardinality(Below(S, i)) < k}

\* Subsets of a finite set, by inclusion.
LEMMA Counting ==
    ASSUME NEW S, IsFiniteSet(S), NEW B \in SUBSET S, NEW A \in SUBSET B
    PROVE  /\ IsFiniteSet(A) /\ IsFiniteSet(B)
           /\ Cardinality(A) \in Nat /\ Cardinality(B) \in Nat
           /\ Cardinality(A) <= Cardinality(B)
<1>1. IsFiniteSet(B)
  BY FS_Subset
<1>2. IsFiniteSet(A) /\ Cardinality(A) <= Cardinality(B)
  BY <1>1, FS_Subset
<1> QED BY <1>1, <1>2, FS_CardinalityType

LEMMA BelowAndLowest ==
    ASSUME NEW S \in SUBSET Nat, IsFiniteSet(S), NEW k \in Nat
    PROVE  /\ \A i \in S : Below(S, i) \in SUBSET S /\ Cardinality(Below(S, i)) \in Nat
           /\ Lowest(S, k) \in SUBSET S /\ Lowest(S, k) \in SUBSET Lowest(S, k + 1)
           /\ \A i \in S : i \in Lowest(S, k) <=> Cardinality(Below(S, i)) < k
<1>1. ASSUME NEW i \in S PROVE Below(S, i) \in SUBSET S /\ Cardinality(Below(S, i)) \in Nat
  <2>1. Below(S, i) \in SUBSET S
    BY DEF Below
  <2> QED BY <2>1, Counting
<1>2. Lowest(S, k) \in SUBSET S
  BY DEF Lowest
<1>3. ASSUME NEW i \in Lowest(S, k) PROVE i \in Lowest(S, k + 1)
  <2>1. i \in S /\ Cardinality(Below(S, i)) < k
    BY DEF Lowest
  <2>2. Cardinality(Below(S, i)) < k + 1
    BY <1>1, <2>1
  <2> QED BY <2>1, <2>2 DEF Lowest
<1>4. \A i \in S : i \in Lowest(S, k) <=> Cardinality(Below(S, i)) < k
  BY DEF Lowest
<1> QED BY <1>1, <1>2, <1>3, <1>4

\* As long as some are left the next number joins them.
LEMMA LowestGrows ==
    ASSUME NEW S \in SUBSET Nat, IsFiniteSet(S), NEW k \in Nat, k + 1 <= Cardinality(S),
           Cardinality(Lowest(S, k)) >= k
    PROVE  Cardinality(Lowest(S, k + 1)) >= k + 1
<1> DEFINE L == Lowest(S, k)
           M == Lowest(S, k + 1)
<1>1. /\ L \in SUBSET S /\ M \in SUBSET S /\ L \in SUBSET M
      /\ \A i \in S : i \in L <=> Cardinality(Below(S, i)) < k
      /\ \A i \in S : i \in M <=> Cardinality(Below(S, i)) < k + 1
  BY BelowAndLowest
<1>2. \A i \in S : Below(S, i) \in SUBSET S /\ Cardinality(Below(S, i)) \in Nat
  BY BelowAndLowest
<1> HIDE DEF L, M
<1>3. /\ IsFiniteSet(L) /\ Cardinality(L) \in Nat /\ Cardinality(M) \in Nat
      /\ Cardinality(L) <= Cardinality(M) /\ Cardinality(S) \in Nat
  BY <1>1, Counting
<1>4. Cardinality(L) >= k
  BY DEF L
<1>5. CASE L = S
  BY <1>1, <1>3, <1>5 DEF M
<1>6. CASE Cardinality(L) > k
  BY <1>3, <1>6 DEF M
<1>7. CASE L # S /\ Cardinality(L) = k
  <2>1. PICK m \in S \ L : \A i \in S \ L : m <= i
    <3>1. S \ L \in SUBSET Nat /\ S \ L # {}
      BY <1>1, <1>7
    <3> QED BY <3>1, LeastElement
  <2>2. ASSUME NEW j \in L PROVE j < m
    <3>1. j \in S /\ Cardinality(Below(S, j)) < k /\ ~(Cardinality(Below(S, m)) < k)
      BY <1>1
    <3>2. ASSUME m <= j PROVE FALSE
      <4>1. Below(S, m) \in SUBSET Below(S, j)
        <5>1. m \in Nat /\ j \in Nat /\ m <= j
          BY <3>1, <3>2
        <5>2. ASSUME NEW i \in S, i < m PROVE i < j
          BY <5>1, <5>2
        <5> QED BY <5>2 DEF Below
      <4>2. Cardinality(Below(S, m)) <= Cardinality(Below(S, j))
        BY <1>2, <3>1, <4>1, Counting
      <4> QED BY <1>2, <3>1, <4>2
    <3> QED BY <3>1, <3>2
  <2>3. Below(S, m) = L
    <3>1. \A j \in S : j < m => j \in L
      BY <2>1
    <3> QED BY <1>1, <2>2, <3>1 DEF Below
  <2>4. L \cup {m} \in SUBSET M
    BY <1>1, <1>3, <1>7, <2>3
  <2>5. Cardinality(L \cup {m}) = k + 1
    BY <1>3, <1>7, <2>1, FS_AddElement
  <2>6. Cardinality(L \cup {m}) <= Cardinality(M)
    BY <1>1, <2>4, Counting
  <2> QED BY <2>5, <2>6 DEF M
<1> QED BY <1>3, <1>4, <1>5, <1>6, <1>7

\* The lowest n of a finite set of at least n numbers are n.
LEMMA LowestMany ==
    ASSUME NEW S \in SUBSET Nat, IsFiniteSet(S)
    PROVE  \A n \in Nat : n <= Cardinality(S) => Cardinality(Lowest(S, n)) >= n
<1> DEFINE T == {k \in Nat : k <= Cardinality(S) => Cardinality(Lowest(S, k)) >= k}
<1>1. Cardinality(S) \in Nat
  BY FS_CardinalityType
<1>2. 0 \in T
  <2>1. Lowest(S, 0) \in SUBSET S
    BY DEF Lowest
  <2>2. Cardinality(Lowest(S, 0)) \in Nat
    BY <2>1, Counting
  <2> QED BY <2>2
<1>3. ASSUME NEW k \in Nat, k \in T PROVE k + 1 \in T
  BY <1>1, <1>3, LowestGrows
<1>4. T \in SUBSET Nat
  OBVIOUS
<1>5. T = Nat
  <2> HIDE DEF T
  <2> QED BY <1>2, <1>3, <1>4, Induction
<1> QED BY <1>5

\* A request that presents cookies that do not load is answered with clears,
\* and nothing else.
Unloadable(q) ==
    q.route = "page" /\ Content(q.headers) = Torn =>
        /\ q.pc \in {"node", "answered"}
        /\ q.engine = IF q.pc = "node" THEN Nothing ELSE ClearCookies(q.headers, q.budget)
        /\ q.handler = Nothing

ClearingInv ==
    /\ TypeOK
    /\ \A r \in Request :
          /\ req[r].pc # "idle" => req[r].budget \in Budgets
          /\ Unloadable(req[r])

\* A step on the node keeps what was asked, of whom, and with which cookies.
Kept(q, new) ==
    new.route = q.route /\ new.headers = q.headers /\ new.budget = q.budget

LEMMA UpdatesKeep ==
    ASSUME NEW q \in RequestState, NEW u, NEW v, NEW w
    PROVE  /\ Kept(q, [q EXCEPT !.pc = u]) /\ Kept(q, [q EXCEPT !.handler = u])
           /\ Kept(q, [q EXCEPT !.pc = u, !.session = v])
           /\ Kept(q, [q EXCEPT !.handler = u, !.pending = v])
           /\ Kept(q, [q EXCEPT !.pc = u, !.pending = v, !.engine = w])
           /\ Kept(q, [q EXCEPT !.pc = u, !.session = v, !.engine = w])
           /\ Kept(q, [q EXCEPT !.pc = u, !.session = v, !.pending = w])
           /\ Kept(q, Answered(q)) /\ Kept(q, Cleared(q))
           /\ Kept(q, [Answered(q) EXCEPT !.engine = u])
           /\ Kept(q, [Answered(q) EXCEPT !.handler = u])
BY DEF Kept, RequestState, Answered, Cleared

LEMMA FreshKeeps ==
    ASSUME NEW q \in RequestState, NEW g, NEW u
    PROVE  LET fresh == [q EXCEPT !.pc = "handler", !.session.grant = g]
           IN  /\ Kept(q, [fresh EXCEPT !.engine = u])
               /\ Kept(q, [fresh EXCEPT !.pending = TRUE])
               /\ Kept(q, Cleared(fresh))
BY DEF Kept, RequestState, Answered, Cleared

LEMMA StepKeeps ==
    ASSUME NEW r \in Request, req[r] \in RequestState,
           \/ LoadSession(r) \/ Logout(r) \/ Login(r) \/ RefreshSucceeds(r)
           \/ RefreshRejected(r) \/ RefreshFails(r) \/ Handle(r) \/ Respond(r)
    PROVE  \E new : Become(r, new) /\ Kept(req[r], new)
<1> DEFINE q == req[r]
<1> SUFFICES \E new : Become(r, new) /\ Kept(q, new)
  OBVIOUS
<1>1. ASSUME NEW new, Become(r, new), Kept(q, new) PROVE \E x : Become(r, x) /\ Kept(q, x)
  BY <1>1
<1>2. Become(r, Answered(q)) => Kept(q, Answered(q))
  BY UpdatesKeep
<1>3. Become(r, Cleared(q)) => Kept(q, Cleared(q))
  BY UpdatesKeep
<1>4. CASE LoadSession(r)
  <2>1. ASSUME NEW pc, Become(r, [q EXCEPT !.pc = pc, !.session = Content(q.headers)])
        PROVE  \E new : Become(r, new) /\ Kept(q, new)
    <3>1. Kept(q, [q EXCEPT !.pc = pc, !.session = Content(q.headers)])
      BY UpdatesKeep
    <3> QED BY <1>1, <2>1, <3>1
  <2>2. \/ Become(r, Answered(q)) \/ Become(r, Cleared(q))
        \/ \E pc : Become(r, [q EXCEPT !.pc = pc, !.session = Content(q.headers)])
    BY <1>4 DEF LoadSession
  <2> QED BY <1>2, <1>3, <2>1, <2>2
<1>5. CASE Logout(r) \/ RefreshRejected(r)
  BY <1>2, <1>3, <1>5 DEF Logout, RefreshRejected
<1>6. CASE RefreshFails(r)
  <2>1. Kept(q, [q EXCEPT !.pc = "handler"])
    BY UpdatesKeep
  <2> QED BY <1>2, <1>6, <2>1 DEF RefreshFails
<1>7. CASE Login(r)
  <2>1. ASSUME NEW c, Become(r, [Answered(q) EXCEPT !.engine = c])
        PROVE  \E new : Become(r, new) /\ Kept(q, new)
    <3>1. Kept(q, [Answered(q) EXCEPT !.engine = c])
      BY UpdatesKeep
    <3> QED BY <1>1, <2>1, <3>1
  <2>2. \/ Become(r, Answered(q))
        \/ \E c : Become(r, [Answered(q) EXCEPT !.engine = c])
    BY <1>7, Zenon DEF Login
  <2> QED BY <1>2, <2>1, <2>2
<1>8. CASE RefreshSucceeds(r)
  <2> DEFINE fresh == [q EXCEPT !.pc = "handler", !.session.grant = grants + 1]
  <2>1. ASSUME NEW c, Become(r, [fresh EXCEPT !.engine = c])
        PROVE  \E new : Become(r, new) /\ Kept(q, new)
    <3>1. Kept(q, [fresh EXCEPT !.engine = c])
      BY FreshKeeps
    <3> QED BY <1>1, <2>1, <3>1
  <2>2. Kept(q, [fresh EXCEPT !.pending = TRUE]) /\ Kept(q, Cleared(fresh))
    BY FreshKeeps
  <2>3. \/ \E c : Become(r, [fresh EXCEPT !.engine = c])
        \/ Become(r, [fresh EXCEPT !.pending = TRUE])
        \/ Become(r, Cleared(fresh))
    BY <1>8, Zenon DEF RefreshSucceeds
  <2> HIDE DEF fresh
  <2> QED BY <2>1, <2>2, <2>3
<1>9. CASE Handle(r)
  <2>1. ASSUME NEW c, \/ Become(r, [q EXCEPT !.handler = c])
                      \/ Become(r, [q EXCEPT !.handler = c, !.pending = FALSE])
        PROVE  \E new : Become(r, new) /\ Kept(q, new)
    <3>1. /\ Kept(q, [q EXCEPT !.handler = c])
          /\ Kept(q, [q EXCEPT !.handler = c, !.pending = FALSE])
      BY UpdatesKeep
    <3> QED BY <1>1, <2>1, <3>1
  <2>2. \E c : \/ Become(r, [q EXCEPT !.handler = c])
               \/ Become(r, [q EXCEPT !.handler = c, !.pending = FALSE])
    BY <1>9, Zenon DEF Handle
  <2> QED BY <2>1, <2>2
<1>10. CASE Respond(r)
  <2>1. ASSUME NEW c, \/ Become(r, [Answered(q) EXCEPT !.engine = c])
                      \/ Become(r, [Answered(q) EXCEPT !.handler = c])
        PROVE  \E new : Become(r, new) /\ Kept(q, new)
    <3>1. /\ Kept(q, [Answered(q) EXCEPT !.engine = c])
          /\ Kept(q, [Answered(q) EXCEPT !.handler = c])
      BY UpdatesKeep
    <3> QED BY <1>1, <2>1, <3>1
  <2>2. \/ Become(r, Answered(q))
        \/ \E c : \/ Become(r, [Answered(q) EXCEPT !.engine = c])
                  \/ Become(r, [Answered(q) EXCEPT !.handler = c])
    BY <1>10, Zenon DEF Respond
  <2> QED BY <1>2, <2>1, <2>2
<1> QED BY <1>4, <1>5, <1>6, <1>7, <1>8, <1>9, <1>10

LEMMA ClearingInductive ==
    ASSUME ClearingInv, [Next]_vars
    PROVE  ClearingInv'
<1>1. TypeOK'
  BY RequestType, ExpiryType DEF ClearingInv, TypeOK, Next, vars
<1>2. req \in [Request -> RequestState] /\ TypeOK
  BY DEF ClearingInv, TypeOK
<1> DEFINE Good(q) == (q.pc # "idle" => q.budget \in Budgets) /\ Unloadable(q)
<1>3. ASSUME NEW r \in Request, NEW new, Become(r, new), Good(new) PROVE ClearingInv'
  BY <1>1, <1>2, <1>3 DEF Become, ClearingInv
<1>4. Good(Idle)
  BY DEF Idle, Unloadable, Content, EmptyJar, Torn, NoSession
<1>5. ASSUME NEW r \in Request, RequestNext(r) PROVE ClearingInv'
  <2> DEFINE q == req[r]
  <2>1. q \in RequestState /\ q.pc \in Pc /\ Good(q)
    BY <1>2 DEF ClearingInv, RequestState
  <2>2. /\ Answered(q).route = q.route /\ Answered(q).headers = q.headers
        /\ Answered(q).budget = q.budget /\ Answered(q).pc = "answered"
        /\ Cleared(q).route = q.route /\ Cleared(q).headers = q.headers
        /\ Cleared(q).budget = q.budget /\ Cleared(q).pc = "answered"
        /\ Cleared(q).engine = ClearCookies(q.headers, q.budget)
        /\ Cleared(q).handler = q.handler
    BY <2>1 DEF Answered, Cleared, RequestState
  <2>3. CASE Send(r)
    <3>1. PICK route \in {"page", "logout", "login"}, b \in Budgets, headers \in {jar, EmptyJar} :
              Become(r, [Idle EXCEPT !.pc = "node", !.route = route,
                                     !.budget = b, !.headers = headers])
      BY <2>3 DEF Send
    <3>2. Good([Idle EXCEPT !.pc = "node", !.route = route, !.budget = b,
                            !.headers = headers])
      BY DEF Idle, Unloadable
    <3> QED BY <1>3, <3>1, <3>2
  <2>4. CASE LoadSession(r) /\ Content(q.headers) = Torn
    <3>1. Become(r, Cleared(q)) /\ q.pc = "node" /\ q.route = "page"
      BY <2>4 DEF LoadSession, Torn, NoSession
    <3>2. Good(Cleared(q))
      BY <2>1, <2>2, <2>4, <3>1 DEF Unloadable
    <3> QED BY <1>3, <3>1, <3>2
  <2>5. CASE Deliver(r) \/ Lose(r)
    BY <1>3, <1>4, <2>5 DEF Deliver, Lose
  <2>6. CASE /\ ~Send(r) /\ ~Deliver(r) /\ ~Lose(r)
             /\ ~(LoadSession(r) /\ Content(q.headers) = Torn)
    <3>1. q.pc # "idle" /\ ~(q.route = "page" /\ Content(q.headers) = Torn)
      BY <1>5, <2>1, <2>6 DEF RequestNext, LoadSession, Logout, Login, RefreshSucceeds,
         RefreshRejected, RefreshFails, Handle, Respond, Unloadable
    <3>2. PICK new : Become(r, new) /\ Kept(q, new)
      BY <1>5, <2>1, <2>6, StepKeeps DEF RequestNext
    <3>3. Good(new)
      BY <2>1, <3>1, <3>2 DEF Unloadable, Kept
    <3> QED BY <1>3, <3>2, <3>3
  <2> QED BY <1>5, <2>3, <2>4, <2>5, <2>6
<1>6. CASE CookiesExpire \/ UNCHANGED vars
  BY <1>1, <1>6 DEF ClearingInv, CookiesExpire, vars
<1> QED BY <1>5, <1>6 DEF Next

\* What is left of a jar that such an answer clears.
LEMMA ClearingLeaves ==
    ASSUME ClearingInv, NEW r \in Request, Deliver(r), req[r].route = "page",
           req[r].headers = jar, Content(jar) = Torn
    PROVE  /\ req[r].budget \in Budgets
           /\ DOMAIN jar' = {i \in DOMAIN jar : i >= req[r].budget}
                              \ LegacyCleared(jar, req[r].budget)
<1> DEFINE q == req[r]
           clears == ClearCookies(jar, q.budget)
<1>1. /\ q.pc = "answered" /\ q.engine = clears /\ q.handler = Nothing
      /\ q.budget \in Budgets
  BY DEF ClearingInv, Unloadable, Deliver
<1>2. DOMAIN EmptyJar = {}
  BY DEF EmptyJar
<1>3. clears.set = EmptyJar /\ Nothing.set = EmptyJar /\ Nothing.clear = {}
  BY DEF ClearCookies, Nothing
<1> HIDE DEF q, clears
<1>4. DOMAIN Response(q).set = {} /\ Response(q).clear = clears.clear
  <2>1. \A a, b : DOMAIN Then(a, b).set = (DOMAIN a.set \ b.clear) \cup DOMAIN b.set
    BY DEF Then, Apply
  <2>2. /\ DOMAIN Then(Nothing, clears).set = {} /\ Then(Nothing, clears).clear = clears.clear
        /\ DOMAIN Then(clears, Nothing).set = {} /\ Then(clears, Nothing).clear = clears.clear
    <3>1. DOMAIN clears.set = {} /\ DOMAIN Nothing.set = {} /\ Nothing.clear = {}
      BY <1>2, <1>3
    <3>2. \A a, b : DOMAIN a.set = {} /\ DOMAIN b.set = {} => DOMAIN Then(a, b).set = {}
      BY <2>1
    <3>3. Then(Nothing, clears).clear = clears.clear
      <4>1. Then(Nothing, clears).clear = (Nothing.clear \ DOMAIN clears.set) \cup clears.clear
        BY DEF Then
      <4> QED BY <3>1, <4>1
    <3>4. Then(clears, Nothing).clear = clears.clear
      <4>1. Then(clears, Nothing).clear = (clears.clear \ DOMAIN Nothing.set) \cup Nothing.clear
        BY DEF Then
      <4> QED BY <3>1, <4>1
    <3> QED BY <3>1, <3>2, <3>3, <3>4
  <2>3. Response(q) = Then(Nothing, clears) \/ Response(q) = Then(clears, Nothing)
    BY <1>1 DEF Response
  <2> QED BY <2>2, <2>3
<1>5. DOMAIN jar' = DOMAIN jar \ clears.clear
  <2>1. jar' = Apply(jar, Response(q))
    BY DEF Deliver, q
  <2>2. DOMAIN jar' = (DOMAIN jar \ Response(q).clear) \cup DOMAIN Response(q).set
    BY <2>1 DEF Apply
  <2> QED BY <1>4, <2>2
<1>6. clears.clear = 0..(q.budget - 1) \cup LegacyCleared(jar, q.budget)
  BY DEF clears, ClearCookies
<1>7. \A i \in DOMAIN jar : i \in 0..(q.budget - 1) <=> ~(i >= q.budget)
  <2>1. \A i \in DOMAIN jar : i \in Nat
    <3>1. DOMAIN jar \in SUBSET Slot
      BY DEF ClearingInv, TypeOK, Jar
    <3> QED BY <3>1 DEF Slot
  <2> QED BY <1>1, <2>1, Constants
<1> QED BY <1>1, <1>5, <1>6, <1>7 DEF q

\* Under every mixture of budgets: each answer to cookies that do not load
\* takes a full batch of the left slots with it, or the last of them.
THEOREM ClearingProgresses == Spec => ClearingMakesProgress
<1>1. ASSUME ClearingInv, NEW r \in Request, Deliver(r), req[r].route = "page",
             req[r].headers = jar, Content(jar) = Torn
      PROVE  \/ DOMAIN jar' = {}
             \/ /\ Cardinality(DOMAIN jar') + LegacyBatch <= Cardinality(DOMAIN jar)
                /\ \A i \in DOMAIN jar' : i >= req[r].budget
  <2> DEFINE D == DOMAIN jar
             L == {i \in D : i >= req[r].budget}
             C == Lowest(L, LegacyBatch)
  <2>1. D \in SUBSET Nat /\ IsFiniteSet(D)
    <3>1. D \in SUBSET (0..(Slots - 1))
      BY <1>1 DEF ClearingInv, TypeOK, Jar, Slot
    <3>2. IsFiniteSet(0..(Slots - 1)) /\ 0..(Slots - 1) \in SUBSET Nat
      BY Constants, FS_Interval
    <3> QED BY <3>1, <3>2, FS_Subset
  <2>2. L \in SUBSET D /\ L \in SUBSET Nat /\ IsFiniteSet(L)
    <3>1. L \in SUBSET D
      OBVIOUS
    <3> HIDE DEF L
    <3> QED BY <2>1, <3>1, FS_Subset
  <2>3. DOMAIN jar' = L \ C
    <3>1. LegacyCleared(jar, req[r].budget) = C
      BY DEF LegacyCleared, Lowest, Below
    <3> QED BY <1>1, <3>1, ClearingLeaves
  <2>4. \A i \in DOMAIN jar' : i >= req[r].budget
    BY <2>3
  <2>5. LegacyBatch \in Nat
    BY ChunksAssumption
  <2> HIDE DEF L, D
  <2>6. /\ \A i \in L : Below(L, i) \in SUBSET L /\ Cardinality(Below(L, i)) \in Nat
        /\ C \in SUBSET L
        /\ \A i \in L : i \in C <=> Cardinality(Below(L, i)) < LegacyBatch
    BY <2>2, <2>5, BelowAndLowest
  <2>7. CASE Cardinality(L) < LegacyBatch
    <3>1. ASSUME NEW i \in L PROVE i \in C
      <4>1. Cardinality(Below(L, i)) <= Cardinality(L) /\ Cardinality(L) \in Nat
        BY <2>2, <2>6, Counting
      <4> QED BY <2>5, <2>6, <2>7, <4>1
    <3> QED BY <2>3, <3>1
  <2>8. CASE ~(Cardinality(L) < LegacyBatch)
    <3>1. Cardinality(L) \in Nat
      BY <2>2, FS_CardinalityType
    <3>2. Cardinality(C) >= LegacyBatch
      BY <2>2, <2>5, <2>8, <3>1, LowestMany
    <3> HIDE DEF C
    <3>3. DOMAIN jar' \in SUBSET (D \ C) /\ D \cap C = C
      BY <2>2, <2>3, <2>6
    <3>4. /\ IsFiniteSet(D \ C)
          /\ Cardinality(D \ C) = Cardinality(D) - Cardinality(D \cap C)
      BY <2>1, FS_Difference
    <3>5. Cardinality(DOMAIN jar') <= Cardinality(D \ C) /\ Cardinality(DOMAIN jar') \in Nat
      BY <3>3, <3>4, Counting
    <3>6. Cardinality(C) \in Nat /\ Cardinality(D) \in Nat
      <4>1. C \in SUBSET D
        BY <3>3
      <4> QED BY <2>1, <4>1, Counting
    <3>7. Cardinality(DOMAIN jar') + LegacyBatch <= Cardinality(D)
      <4>1. Cardinality(D \ C) = Cardinality(D) - Cardinality(C)
        BY <3>3, <3>4
      <4> QED BY <2>5, <3>2, <3>5, <3>6, <4>1
    <3> QED BY <2>4, <3>7 DEF D
  <2> QED BY <2>7, <2>8
<1>2. Init => ClearingInv
  <2>1. ASSUME Init PROVE ClearingInv
    <3>1. TypeOK
      BY <2>1, InitType
    <3>2. Unloadable(Idle) /\ Idle.pc = "idle"
      BY DEF Idle, Unloadable, Content, EmptyJar, Torn, NoSession
    <3> QED BY <2>1, <3>1, <3>2 DEF Init, ClearingInv
  <2> QED BY <2>1
<1>3. ClearingInv /\ [Next]_vars => ClearingInv'
  BY ClearingInductive
<1>4. ClearingInv /\ [Next]_vars =>
        [\A r \in Request :
            /\ Deliver(r) /\ req[r].route = "page"
            /\ req[r].headers = jar /\ Content(jar) = Torn
            => \/ DOMAIN jar' = {}
               \/ /\ Cardinality(DOMAIN jar') + LegacyBatch <= Cardinality(DOMAIN jar)
                  /\ \A i \in DOMAIN jar' : i >= req[r].budget]_vars
  BY <1>1
<1> QED BY <1>2, <1>3, <1>4, PTL DEF Spec, ClearingMakesProgress
=============================================================================
