----------------------------- MODULE CookieSession -----------------------------
(***************************************************************************)
(* A session that lives in the browser: CookieSessionStore seals it, cuts  *)
(* the sealed value into numbered chunk cookies and clears the slots it    *)
(* does not use; LoginEngine loads, refreshes, saves and clears it; the    *)
(* adapter puts the engine's and the handler's Set-Cookie values on one    *)
(* response.  The browser sends requests with the cookies it has at that   *)
(* moment, and responses reach it in any order or never.                   *)
(*                                                                         *)
(* The nodes share nothing.  Nodes may run with different max_chunks, as   *)
(* they do while a change of the setting is rolled out.                    *)
(***************************************************************************)
EXTENDS Integers, FiniteSets

CONSTANTS
    Request,            \* requests in flight at once; each slot serves many
    Slots,              \* how many chunk slots the largest budget ever used
    Budgets,            \* max_chunks of the nodes
    LegacyBatch,        \* MAX_OBSERVED_LEGACY_CHUNK_CLEARS
    LoginSize,          \* chunks of the session the browser starts with
    EngineCookiesLast,  \* the adapter appends the engine's cookies after the
                        \* handler's (docs/how_to/adapter.md) or before them
    MaxSeals,           \* bound: sealed sessions
    MaxGrants           \* bound: grants of the authorization server

ASSUME ChunksAssumption ==
    /\ Slots \in Nat \ {0}
    /\ Budgets \subseteq 1..Slots
    /\ LegacyBatch \in Nat \ {0}
    /\ LoginSize \in 1..Slots
ASSUME AdapterAssumption == EngineCookiesLast \in BOOLEAN
ASSUME SealsAssumption == MaxSeals \in Nat /\ MaxGrants \in Nat

VARIABLES
    jar,            \* the browser's chunk cookies: a function on slots
    req,            \* the requests and their responses
    seals,          \* sealed sessions so far; every seal is unique
    grants          \* grants so far

vars == <<jar, req, seals, grants>>

Slot == 0..(Slots - 1)

\* A sealed session: its seal, the number of chunks its encoding takes, and
\* the grant its tokens come from.
Session == [seal: Nat \ {0}, size: 1..Slots, grant: Nat]

NoSession == [seal |-> 0, size |-> 0, grant |-> 0]
Torn == [seal |-> 0, size |-> 1, grant |-> 0]

Chunk == [session: Session, slot: Slot]
Jar == UNION {[D -> Chunk] : D \in SUBSET Slot}
EmptyJar == [i \in {} |-> [session |-> NoSession, slot |-> 0]]

\* The session Set-Cookie values of a response: chunks to store, slots to clear.
Cookies == [set: Jar, clear: SUBSET Slot]
Nothing == [set |-> EmptyJar, clear |-> {}]

\* node: arrived; refresh: at the token endpoint; handler: in the
\* application; answered: the response is on its way.
Pc == {"idle", "node", "refresh", "handler", "answered"}

RequestState ==
    [pc: Pc, route: {"page", "logout", "login"}, budget: Budgets \cup {0},
     headers: Jar,                      \* the chunks the request carries
     session: [seal: Nat, size: 0..Slots, grant: Nat], \* that it works with
     pending: BOOLEAN,                  \* ActivePending
     engine: Cookies, handler: Cookies] \* for the response

Idle ==
    [pc |-> "idle", route |-> "page", budget |-> 0, headers |-> EmptyJar,
     session |-> NoSession, pending |-> FALSE, engine |-> Nothing, handler |-> Nothing]

TypeOK ==
    /\ jar \in Jar
    /\ req \in [Request -> RequestState]
    /\ seals \in Nat
    /\ grants \in Nat

---------------------------------------------------------------------------
(* Chunks *)

\* split_into_chunks
Written(s) == [i \in 0..(s.size - 1) |-> [session |-> s, slot |-> i]]

\* collect_session_chunks, reassemble_chunks and the unsealing: the slots spell
\* a contiguous value from 0, and that value is one sealed bundle, whole.
Content(cookies) ==
    IF DOMAIN cookies = {} THEN NoSession
    ELSE IF 0 \in DOMAIN cookies /\ cookies = Written(cookies[0].session)
    THEN cookies[0].session
    ELSE Torn

\* Set-Cookie values applied in the order of the response.
Apply(cookies, answer) ==
    [i \in (DOMAIN cookies \ answer.clear) \cup DOMAIN answer.set |->
        IF i \in DOMAIN answer.set THEN answer.set[i] ELSE cookies[i]]

Then(first, second) ==
    [set |-> Apply(first.set, second),
     clear |-> (first.clear \ DOMAIN second.set) \cup second.clear]

\* Mistake: legacy slots are left for the browser to expire.
LegacyLeft(headers, budget) == {}

\* The batch of slots beyond the budget that the request shows, lowest first.
LegacyCleared(headers, budget) ==
    LET legacy == {i \in DOMAIN headers : i >= budget}
    IN  {i \in legacy : Cardinality({j \in legacy : j < i}) < LegacyBatch}

\* Mistake: a save clears only what the request showed.
SaveClearingObserved(s, headers, budget) ==
    [set |-> Written(s), clear |-> {i \in DOMAIN headers : i >= s.size}]

\* save_session: the chunks, and clears for every other configured slot.
SaveCookies(s, headers, budget) ==
    [set |-> Written(s),
     clear |-> (s.size)..(budget - 1) \cup LegacyCleared(headers, budget)]

\* Mistake: clearing starts after the first chunk.
ClearCookiesFromOne(headers, budget) ==
    [set |-> EmptyJar,
     clear |-> 1..(budget - 1) \cup LegacyCleared(headers, budget)]

\* clear_session_cookie_headers
ClearCookies(headers, budget) ==
    [set |-> EmptyJar,
     clear |-> 0..(budget - 1) \cup LegacyCleared(headers, budget)]

---------------------------------------------------------------------------
(* Steps of a request on its node *)

Become(r, q) == req' = [req EXCEPT ![r] = q]

Answered(q) == [q EXCEPT !.pc = "answered", !.pending = FALSE]

Cleared(q) ==
    [Answered(q) EXCEPT !.engine = ClearCookies(q.headers, q.budget)]

\* The browser starts with the session of an earlier login, on a node whose
\* budget may have been another one.
Init ==
    /\ jar = Written([seal |-> 1, size |-> LoginSize, grant |-> 1])
    /\ req = [r \in Request |-> Idle]
    /\ seals = 1
    /\ grants = 1

\* The callback route need not lie within the cookie path; a callback then
\* shows no session cookies.
Send(r) ==
    /\ req[r].pc = "idle"
    /\ \E route \in {"page", "logout", "login"}, budget \in Budgets :
       \E headers \in {jar} \cup (IF route = "login" THEN {EmptyJar} ELSE {}) :
          Become(r, [Idle EXCEPT !.pc = "node", !.route = route,
                                 !.budget = budget, !.headers = headers])
    /\ UNCHANGED <<jar, seals, grants>>

\* load_session up to the refresh: nothing presented, cookies that do not
\* load, a lifetime that has ended, a refresh that is due, or served.
LoadSession(r) ==
    LET q == req[r]
        session == Content(q.headers)
    IN  /\ q.pc = "node" /\ q.route = "page"
        /\ \/ session = NoSession /\ Become(r, Answered(q))
           \/ session = Torn /\ Become(r, Cleared(q))
           \/ /\ session \notin {NoSession, Torn}
              /\ \/ Become(r, Cleared(q))
                 \/ \E pc \in {"refresh", "handler"} :
                        Become(r, [q EXCEPT !.pc = pc, !.session = session])
        /\ UNCHANGED <<jar, seals, grants>>

\* handle_logout: the clears do not depend on what loads; a rejected origin
\* or an unusable redirect target is an error response without them.
Logout(r) ==
    /\ req[r].pc = "node" /\ req[r].route = "logout"
    /\ \E answered \in {Cleared(req[r]), Answered(req[r])} : Become(r, answered)
    /\ UNCHANGED <<jar, seals, grants>>

\* The sealed form of a session with the tokens of grant, of any size.
Sealed(grant) == {[seal |-> seals + 1, size |-> n, grant |-> grant] : n \in 1..Slots}

\* save_session succeeds with s: it fits the budget of the node.
Saves(q, s) == seals < MaxSeals /\ seals' = seals + 1 /\ s.size <= q.budget

\* The callback of a successful login: create.
Login(r) ==
    LET q == req[r] IN
    /\ q.pc = "node" /\ q.route = "login"
    /\ grants < MaxGrants /\ grants' = grants + 1
    /\ \/ \E s \in Sealed(grants + 1) :
            /\ Saves(q, s)
            /\ Become(r, [Answered(q) EXCEPT
                            !.engine = SaveCookies(s, q.headers, q.budget)])
       \/ Become(r, Answered(q)) /\ UNCHANGED seals
    /\ UNCHANGED jar

\* The exchange succeeds and apply_refresh_and_save seals the result; or the
\* save fails (too large, the sealer, an encoding) and is owed; or the
\* absolute deadline has passed meanwhile.
RefreshSucceeds(r) ==
    LET q == req[r]
        fresh == [q EXCEPT !.pc = "handler", !.session.grant = grants + 1]
    IN  /\ q.pc = "refresh"
        /\ grants < MaxGrants /\ grants' = grants + 1
        /\ \/ \E s \in Sealed(grants + 1) :
                /\ Saves(q, s)
                /\ Become(r, [fresh EXCEPT
                                !.engine = SaveCookies(s, q.headers, q.budget)])
           \/ Become(r, [fresh EXCEPT !.pending = TRUE]) /\ UNCHANGED seals
           \/ Become(r, Cleared(fresh)) /\ UNCHANGED seals
        /\ UNCHANGED jar

\* invalid_grant, or no refresh token and an expired access token: there is
\* no record to compare with, so the browser forgets the session.
RefreshRejected(r) ==
    /\ req[r].pc = "refresh"
    /\ Become(r, Cleared(req[r]))
    /\ UNCHANGED <<jar, seals, grants>>

\* Any other failure: served while the access token lives, else unavailable.
RefreshFails(r) ==
    /\ req[r].pc = "refresh"
    /\ \/ Become(r, [req[r] EXCEPT !.pc = "handler"])
       \/ Become(r, Answered(req[r]))
    /\ UNCHANGED <<jar, seals, grants>>

\* Mistake: the handler saves the session as the request presented it.
SavedFromHeaders(q) == Content(q.headers).grant

\* The handler saves the session it was given.
SavedByHandler(q) == q.session.grant

\* The application saves its changed session, terminates it (abandoning a
\* persist that is owed), or leaves it alone.
Handle(r) ==
    LET q == req[r] IN
    /\ q.pc = "handler" /\ q.handler = Nothing
    /\ \/ \E s \in Sealed(SavedByHandler(q)) :
            /\ Saves(q, s)
            /\ Become(r, [q EXCEPT !.handler = SaveCookies(s, q.headers, q.budget)])
       \/ /\ Become(r, [q EXCEPT !.handler = ClearCookies(q.headers, q.budget),
                                 !.pending = FALSE])
          /\ UNCHANGED seals
    /\ UNCHANGED <<jar, grants>>

\* The handler is done; PendingPersist::commit if a persist is owed.  If that
\* fails, the policy sends the handler's response or a replacement.
Respond(r) ==
    LET q == req[r] IN
    /\ q.pc = "handler"
    /\ \/ ~q.pending /\ Become(r, Answered(q)) /\ UNCHANGED seals
       \/ /\ q.pending
          /\ \/ \E s \in Sealed(q.session.grant) :
                  /\ Saves(q, s)
                  /\ Become(r, [Answered(q) EXCEPT
                                  !.engine = SaveCookies(s, q.headers, q.budget)])
             \/ /\ \E handler \in {q.handler, Nothing} :
                      Become(r, [Answered(q) EXCEPT !.handler = handler])
                /\ UNCHANGED seals
    /\ UNCHANGED <<jar, grants>>

---------------------------------------------------------------------------
(* The browser *)

Response(q) ==
    IF EngineCookiesLast THEN Then(q.handler, q.engine) ELSE Then(q.engine, q.handler)

Deliver(r) ==
    /\ req[r].pc = "answered"
    /\ jar' = Apply(jar, Response(req[r]))
    /\ Become(r, Idle)
    /\ UNCHANGED <<seals, grants>>

\* The request, its future or its response is lost.
Lose(r) ==
    /\ req[r].pc # "idle"
    /\ Become(r, Idle)
    /\ UNCHANGED <<jar, seals, grants>>

\* Max-Age: the chunks of one save expire together.
CookiesExpire ==
    /\ \E i \in DOMAIN jar :
        LET left == {j \in DOMAIN jar : jar[j].session # jar[i].session}
        IN  jar' = [j \in left |-> jar[j]]
    /\ UNCHANGED <<req, seals, grants>>

RequestNext(r) ==
    \/ Send(r) \/ LoadSession(r) \/ Logout(r) \/ Login(r)
    \/ RefreshSucceeds(r) \/ RefreshRejected(r) \/ RefreshFails(r)
    \/ Handle(r) \/ Respond(r) \/ Deliver(r) \/ Lose(r)

Next == CookiesExpire \/ \E r \in Request : RequestNext(r)

Spec == Init /\ [][Next]_vars

---------------------------------------------------------------------------
(* Correctness *)

\* What the response of a request says about the session.
Said(q) ==
    IF q.pc # "answered" \/ Response(q) = Nothing THEN {}
    ELSE {Content(Apply(EmptyJar, Response(q)))}

\* The nodes agree on max_chunks, and nothing is left from a larger value.
OneBudget ==
    /\ \A a, b \in Budgets : a = b
    /\ \A b \in Budgets : LoginSize <= b

Atomic == INSTANCE AtomicCookie
    WITH held <- Content(jar), answers <- [r \in Request |-> Said(req[r])]

\* With OneBudget, chunked cookies behave as a single one: whatever the order in which
\* overlapping responses arrive, and whichever are lost, the browser presents
\* one response's session whole, or none (append_chunk_clears;
\* docs/explanation/cookie_security.md, "Browser state and logout").
BehavesAsOneCookie == Atomic!Spec

\* What the application's handler did to the session is what the browser holds
\* once the response has arrived: terminate_session logs it out, save_session
\* leaves the saved session, also when the same request refreshed the tokens.
\* It needs an adapter that puts the handler's cookies last.
HandlerHasTheLastWord ==
    [][\A r \in Request : Deliver(r) /\ req[r].handler # Nothing =>
          Content(jar') = Content(Apply(EmptyJar, req[r].handler))]_vars

\* A response whose handler terminated the session clears the browser
\* (terminate_session: "the SetCookies that clear the browser").
TerminationClearsBrowser ==
    [][\A r \in Request :
          /\ Deliver(r)
          /\ req[r].handler # Nothing /\ req[r].handler.set = EmptyJar
          => Content(jar') = NoSession]_vars

\* Rotated tokens that were sealed are not lost on the way out: a response
\* that arrives leaves the tokens of its request's refresh in the browser,
\* unless it ends the session (refresh_or_clear, eager persistence).
RefreshReachesBrowser ==
    [][\A r \in Request : Deliver(r) /\ DOMAIN req[r].engine.set # {} =>
          \/ Content(jar') = NoSession
          \/ Content(jar').grant = req[r].engine.set[0].session.grant]_vars

\* Slots left from a larger budget go, although a response clears only a
\* bounded batch of them: when cookies that do not load are presented and
\* nothing else happens before the answer arrives, the browser is left with
\* none, or with that many slots fewer beyond the configured ones.
ClearingMakesProgress ==
    [][\A r \in Request :
          /\ Deliver(r) /\ req[r].route = "page"
          /\ req[r].headers = jar /\ Content(jar) = Torn
          => \/ DOMAIN jar' = {}
             \/ /\ Cardinality(DOMAIN jar') + LegacyBatch <= Cardinality(DOMAIN jar)
                /\ \A i \in DOMAIN jar' : i >= req[r].budget]_vars
=============================================================================
