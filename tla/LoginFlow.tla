------------------------------ MODULE LoginFlow ------------------------------
(***************************************************************************)
(* Logging in: LoginEngine::redirect_to_login starts a flow and seals its  *)
(* state into a cookie of its own, the authorization server sends the      *)
(* browser to the callback, and handle_callback exchanges the code, lets   *)
(* the store-backed driver create the session record, and removes the      *)
(* record the browser had before.  One browser runs flows in several tabs; *)
(* its requests reach nodes whose clocks differ, overlap, and are answered *)
(* in any order or never.                                                  *)
(*                                                                         *)
(* The other ways in which a session ends (its deadline, idleness, a       *)
(* rejected refresh token) belong to Liveness and SessionRequests.         *)
(***************************************************************************)
EXTENDS Integers, FiniteSets

CONSTANTS
    Request,        \* requests in flight at once; each slot serves many
    Flow,           \* OAuth state values; every start draws a new one
    Session,        \* session keys; every create draws a new one
    Node,           \* the application's nodes
    Offset,         \* what each node's clock reads at time 0
    NoSession,      \* no pointer cookie
    NoFlow,         \* not a callback
    Keep,           \* a response that leaves the pointer cookie alone
    LoginStateTtl,  \* login_state_ttl
    MaxClockSkew,   \* MAX_CLOCK_SKEW
    MaxTime         \* bound: the clock

ASSUME ValuesAssumption ==
    /\ NoSession \notin Session /\ Keep \notin Session /\ Keep # NoSession
    /\ NoFlow \notin Flow
ASSUME ClockAssumption ==
    /\ Offset \in [Node -> Nat]
    /\ LoginStateTtl \in Nat /\ MaxClockSkew \in Nat /\ MaxTime \in Nat

VARIABLES
    now,        \* true time
    jar,        \* the browser's pointer cookie and login-state cookies
    flow,       \* each flow: its start, and what the server answered it with
    record,     \* the session records of the external store
    entries,    \* the sessions that have a liveness entry
    req,        \* the requests and their responses
    excused,    \* observed: records whose pointer was lost for a known reason
    answered    \* observed: flows whose callback was answered after it had
                \* shown its login state

vars == <<now, jar, flow, record, entries, req, excused, answered>>

Pointer == Session \cup {NoSession}

Jar == [pointer: Pointer, login: SUBSET Flow]

\* started: the response with its cookie is on its way; sent: it arrived, and
\* the user is at the authorization server.
Stage == {"unused", "started", "sent", "granted", "redeemed", "denied"}
FlowState == [stage: Stage, at: 0..MaxTime, node: Node]

Pc == {"idle", "arrived", "exchange", "insert", "touch", "load_old",
       "delete_old", "clear_old", "answered"}

RequestState ==
    [pc: Pc, route: {"page", "callback", "logout"},
     shown: Jar,                        \* the cookies the request carries
     flow: Flow \cup {NoFlow},          \* callback: the state parameter
     session: Pointer,                  \* callback: the record it inserted
     pointer: Pointer \cup {Keep},      \* response: Set-Cookie for the pointer
     add: SUBSET Flow,                  \* response: login-state cookies set
     clear: SUBSET Flow]                \* response: login-state cookies cleared

Idle ==
    [pc |-> "idle", route |-> "page",
     shown |-> [pointer |-> NoSession, login |-> {}], flow |-> NoFlow,
     session |-> NoSession, pointer |-> Keep, add |-> {}, clear |-> {}]

TypeOK ==
    /\ now \in 0..MaxTime
    /\ jar \in Jar
    /\ flow \in [Flow -> FlowState]
    /\ record \in [Session -> {"unused", "live", "gone"}]
    /\ entries \subseteq Session
    /\ req \in [Request -> RequestState]
    /\ excused \subseteq Session
    /\ answered \subseteq Flow

Clock(n) == now + Offset[n]

Become(r, q) == req' = [req EXCEPT ![r] = q]

Answer(q, pointer, add, clear) ==
    [q EXCEPT !.pc = "answered", !.pointer = pointer, !.add = add, !.clear = clear]

IsLive(s) == s \in Session /\ record[s] = "live"

---------------------------------------------------------------------------
(* The browser and the authorization server *)

Init ==
    /\ now = 0
    /\ \E s \in Session :
        /\ record = [t \in Session |-> IF t = s THEN "live" ELSE "unused"]
        /\ entries = {s}
        /\ jar = [pointer |-> s, login |-> {}]
    /\ \E n \in Node :
        flow = [f \in Flow |-> [stage |-> "unused", at |-> 0, node |-> n]]
    /\ req = [r \in Request |-> Idle]
    /\ excused = {}
    /\ answered = {}

\* A request for a page or for logout, or for the callback of a flow that the
\* authorization server has answered: a navigation there may be repeated.  The
\* path of the login-state cookies is the callback's.
Send(r) ==
    /\ req[r].pc = "idle"
    /\ \/ \E route \in {"page", "logout"} :
            Become(r, [Idle EXCEPT !.pc = "arrived", !.route = route,
                                   !.shown.pointer = jar.pointer])
       \/ \E f \in Flow :
            /\ flow[f].stage \in {"granted", "redeemed", "denied"}
            /\ Become(r, [Idle EXCEPT !.pc = "arrived", !.route = "callback",
                                      !.shown = jar, !.flow = f])
    /\ UNCHANGED <<now, jar, flow, record, entries, excused, answered>>

\* The user signs in, or does not: the browser is sent to the callback.
ServerAnswers(f) ==
    /\ flow[f].stage = "sent"
    /\ \E stage \in {"granted", "denied"} :
        flow' = [flow EXCEPT ![f].stage = stage]
    /\ UNCHANGED <<now, jar, record, entries, req, excused, answered>>

\* The response arrives: its cookies replace those of their names.
Deliver(r) ==
    LET q == req[r] IN
    /\ q.pc = "answered"
    /\ jar' = [pointer |-> IF q.pointer = Keep THEN jar.pointer ELSE q.pointer,
               login |-> (jar.login \ q.clear) \cup q.add]
    /\ flow' = [f \in Flow |->
                   IF f \in q.add THEN [flow[f] EXCEPT !.stage = "sent"] ELSE flow[f]]
    /\ excused' = IF q.pointer # Keep /\ jar.pointer # q.shown.pointer
                     THEN excused \cup ({jar.pointer} \cap Session) ELSE excused
    /\ answered' = IF q.route = "callback" /\ q.flow \in q.shown.login
                        /\ flow[q.flow].stage # "denied"
                      THEN answered \cup {q.flow} ELSE answered
    /\ Become(r, Idle)
    /\ UNCHANGED <<now, record, entries>>

\* The node stops, the request is cancelled, or its response is lost.
Lose(r) ==
    /\ req[r].pc # "idle"
    /\ excused' = excused \cup ({req[r].session} \cap Session)
    /\ Become(r, Idle)
    /\ UNCHANGED <<now, jar, flow, record, entries, answered>>

\* Max-Age has passed, or the browser's limit on cookies evicts it.
LoginCookieGoes(f) ==
    /\ f \in jar.login
    /\ jar' = [jar EXCEPT !.login = @ \ {f}]
    /\ UNCHANGED <<now, flow, record, entries, req, excused, answered>>

Tick ==
    /\ now < MaxTime
    /\ now' = now + 1
    /\ UNCHANGED <<jar, flow, record, entries, req, excused, answered>>
---------------------------------------------------------------------------
(* The node: pages *)

\* A page that needs a session.  A live record is served; otherwise the pointer
\* that leads nowhere is cleared, and redirect_to_login answers an API request
\* with 401 and a navigation with a new flow, unless that cannot be started.
Page(r) ==
    LET q == req[r]
        pointer == IF q.shown.pointer = NoSession THEN Keep ELSE NoSession
    IN  /\ q.pc = "arrived" /\ q.route = "page"
        /\ IF IsLive(q.shown.pointer)
           THEN Become(r, Answer(q, Keep, {}, {})) /\ UNCHANGED flow
           ELSE \/ Become(r, Answer(q, pointer, {}, {})) /\ UNCHANGED flow
                \/ \E f \in Flow, n \in Node :
                    /\ flow[f].stage = "unused"
                    /\ flow' = [flow EXCEPT ![f] =
                                   [stage |-> "started", at |-> now, node |-> n]]
                    /\ Become(r, Answer(q, pointer, {f}, {}))
        /\ UNCHANGED <<now, jar, record, entries, excused, answered>>

---------------------------------------------------------------------------
(* The node: the callback *)

\* Mistake: a failed callback clears every login-state cookie it was shown.
CallbackErrorSweeping(q) == Answer(q, Keep, {}, q.shown.login)

\* Mistake: an error page sends no cookies.
CallbackErrorLeaving(q) == Answer(q, Keep, {}, {})

\* callback_error: the flow that failed is over, the other tabs' are not.
CallbackError(q) == Answer(q, Keep, {}, {q.flow})

\* login_state_sweep: what the request shows; a flow it does not show stays.
LoginStateSweep(q) == q.shown.login

\* handle_as_error: the error names its flow, if the server echoed the state.
HandleAsError(r) ==
    LET q == req[r] IN
    /\ q.pc = "arrived" /\ q.route = "callback"
    /\ flow[q.flow].stage = "denied"
    /\ \E echoed \in {{q.flow}, {}} :
        Become(r, Answer(q, Keep, {}, echoed \cap q.shown.login))
    /\ UNCHANGED <<now, jar, flow, record, entries, excused, answered>>

\* The state names no cookie of the request: home if it shows a session that
\* has_usable_session accepts, an error without cookies otherwise.
NoLoginState(r) ==
    LET q == req[r] IN
    /\ q.pc = "arrived" /\ q.route = "callback"
    /\ flow[q.flow].stage \in {"granted", "redeemed"}
    /\ q.flow \notin q.shown.login
    /\ \/ IsLive(q.shown.pointer) /\ Become(r, Answer(q, Keep, {}, LoginStateSweep(q)))
       \/ Become(r, Answer(q, Keep, {}, {}))
    /\ UNCHANGED <<now, jar, flow, record, entries, excused, answered>>

\* is_too_far_future
IsTooFarFuture(timestamp, clock) == timestamp > clock + MaxClockSkew

\* elapsed_since: zero for a timestamp ahead of the clock.
ElapsedSince(start, clock) == IF clock >= start THEN clock - start ELSE 0

\* Mistake: a timestamp ahead of the clock is always a clock that jumped.
LoginStateAcceptedNoSkew(createdAt, clock) ==
    createdAt <= clock /\ ElapsedSince(createdAt, clock) <= LoginStateTtl

\* decode_login_state, once the payload is open.
LoginStateAccepted(createdAt, clock) ==
    /\ ~IsTooFarFuture(createdAt, clock)
    /\ ElapsedSince(createdAt, clock) <= LoginStateTtl

CreatedAt(f) == flow[f].at + Offset[flow[f].node]

ShowsLoginState(q) ==
    /\ q.pc = "arrived" /\ q.route = "callback"
    /\ flow[q.flow].stage \in {"granted", "redeemed"}
    /\ q.flow \in q.shown.login

DecodedBy(r, n) ==
    Become(r, IF LoginStateAccepted(CreatedAt(req[r].flow), Clock(n))
              THEN [req[r] EXCEPT !.pc = "exchange"] ELSE CallbackError(req[r]))

DecodeLoginState(r) ==
    /\ ShowsLoginState(req[r])
    /\ \E n \in Node : DecodedBy(r, n)
    /\ UNCHANGED <<now, jar, flow, record, entries, excused, answered>>

\* The value does not open: its key is gone, or the cipher fails.
LoginStateUnreadable(r) ==
    /\ ShowsLoginState(req[r])
    /\ Become(r, CallbackError(req[r]))
    /\ UNCHANGED <<now, jar, flow, record, entries, excused, answered>>

\* The code is good for one exchange, whose answer may be lost.
CompleteGrant(r) ==
    LET q == req[r] IN
    /\ q.pc = "exchange"
    /\ \/ /\ flow[q.flow].stage = "granted"
          /\ flow' = [flow EXCEPT ![q.flow].stage = "redeemed"]
          /\ \/ Become(r, [q EXCEPT !.pc = "insert"])
             \/ Become(r, CallbackError(q))
       \/ UNCHANGED flow /\ Become(r, CallbackError(q))
    /\ UNCHANGED <<now, jar, record, entries, excused, answered>>

\* Mistake: the superseded record is removed before the new one exists.
CreateRemovingFirst(r) ==
    LET q == req[r]
        removed == [s \in Session |->
                      IF s = q.shown.pointer /\ IsLive(s) THEN "gone" ELSE record[s]]
    IN  /\ q.pc = "insert"
        /\ \/ Become(r, CallbackError(q)) /\ record' = removed
           \/ \E s \in Session :
                /\ record[s] = "unused"
                /\ record' = [removed EXCEPT ![s] = "live"]
                /\ Become(r, [q EXCEPT !.pc = "touch", !.session = s])
        /\ UNCHANGED <<now, jar, flow, entries, excused, answered>>

\* Mistake: the browser gets its pointer although the insert failed.
CreateRegardless(r) ==
    LET q == req[r] IN
    /\ q.pc = "insert"
    /\ \E s \in Session :
        /\ record[s] = "unused"
        /\ record' \in {record, [record EXCEPT ![s] = "live"]}
        /\ Become(r, [q EXCEPT !.pc = "touch", !.session = s])
    /\ UNCHANGED <<now, jar, flow, entries, excused, answered>>

\* create_session: the session and its cookies are built, then the record is
\* inserted.  Any of it may fail; a failed insert may have taken effect.
Create(r) ==
    LET q == req[r] IN
    /\ q.pc = "insert"
    /\ \/ Become(r, CallbackError(q)) /\ UNCHANGED <<record, excused>>
       \/ \E s \in Session :
            /\ record[s] = "unused"
            /\ record' = [record EXCEPT ![s] = "live"]
            /\ \/ /\ Become(r, [q EXCEPT !.pc = "touch", !.session = s])
                  /\ UNCHANGED excused
               \/ Become(r, CallbackError(q)) /\ excused' = excused \cup {s}
    /\ UNCHANGED <<now, jar, flow, entries, answered>>

\* Login is the session's first activity; recording it may fail.
Touch(r) ==
    LET q == req[r] IN
    /\ q.pc = "touch"
    /\ Become(r, [q EXCEPT !.pc = "load_old"])
    /\ entries' \in {entries, entries \cup {q.session}}
    /\ UNCHANGED <<now, jar, flow, record, excused, answered>>

---------------------------------------------------------------------------
(* The node: removing the record a callback or a logout was shown *)

\* A rejected Origin; nothing is loaded and no cookie is sent.
RejectOrigin(r) ==
    /\ req[r].pc = "arrived" /\ req[r].route = "logout"
    /\ Become(r, Answer(req[r], Keep, {}, {}))
    /\ UNCHANGED <<now, jar, flow, record, entries, excused, answered>>

\* handle_logout loads the session and builds the clears first.
Logout(r) ==
    /\ req[r].pc = "arrived" /\ req[r].route = "logout"
    /\ Become(r, [req[r] EXCEPT !.pc = "load_old"])
    /\ UNCHANGED <<now, jar, flow, record, entries, excused, answered>>

\* build_callback_redirect, and the response of handle_logout.
Finished(q) ==
    IF q.route = "callback" THEN Answer(q, q.session, {}, LoginStateSweep(q))
    ELSE Answer(q, NoSession, {}, {})

\* Mistake: a login leaves the record it supersedes to its deadline.
LoadOldSkipped(r) ==
    /\ req[r].pc = "load_old"
    /\ Become(r, Finished(req[r]))
    /\ UNCHANGED <<now, jar, flow, record, entries, excused, answered>>

\* delete_superseded_session and load_session_for_logout; only the first
\* clears the liveness entry of a record that is not there.
LoadOld(r) ==
    LET q == req[r]
        old == q.shown.pointer
    IN  /\ q.pc = "load_old"
        /\ \/ /\ old = NoSession
              /\ Become(r, Finished(q)) /\ UNCHANGED excused
           \/ /\ IsLive(old)
              /\ Become(r, [q EXCEPT !.pc = "delete_old"]) /\ UNCHANGED excused
           \/ /\ old # NoSession /\ ~IsLive(old)
              /\ Become(r, IF q.route = "callback"
                           THEN [q EXCEPT !.pc = "clear_old"]
                           ELSE Finished(q))
              /\ UNCHANGED excused
           \/ /\ old # NoSession
              /\ Become(r, Finished(q))
              /\ excused' = excused \cup {old}
        /\ UNCHANGED <<now, jar, flow, record, entries, answered>>

\* The delete; one that fails may have taken effect.
DeleteOld(r) ==
    LET q == req[r]
        old == q.shown.pointer
    IN  /\ q.pc = "delete_old"
        /\ \/ /\ record' = [record EXCEPT ![old] = "gone"]
              /\ Become(r, [q EXCEPT !.pc = "clear_old"])
              /\ UNCHANGED excused
           \/ /\ record' \in {record, [record EXCEPT ![old] = "gone"]}
              /\ Become(r, Finished(q))
              /\ excused' = excused \cup {old}
        /\ UNCHANGED <<now, jar, flow, entries, answered>>

\* The liveness entry of a record that is gone; a failure is only counted.
ClearOld(r) ==
    LET q == req[r] IN
    /\ q.pc = "clear_old"
    /\ entries' \in {entries, entries \ {q.shown.pointer}}
    /\ Become(r, Finished(q))
    /\ UNCHANGED <<now, jar, flow, record, excused, answered>>

---------------------------------------------------------------------------

RequestNext(r) ==
    \/ Send(r) \/ Deliver(r) \/ Lose(r) \/ Page(r)
    \/ HandleAsError(r) \/ NoLoginState(r) \/ DecodeLoginState(r)
    \/ LoginStateUnreadable(r) \/ CompleteGrant(r) \/ Create(r) \/ Touch(r)
    \/ RejectOrigin(r) \/ Logout(r) \/ LoadOld(r) \/ DeleteOld(r) \/ ClearOld(r)

Next ==
    \/ \E r \in Request : RequestNext(r)
    \/ \E f \in Flow : ServerAnswers(f) \/ LoginCookieGoes(f)
    \/ Tick

Spec == Init /\ [][Next]_vars

---------------------------------------------------------------------------
(* Correctness *)

\* Tabs log in side by side: the answer to one callback takes another flow's
\* login state only if the browser has a session by then, made by this
\* callback or shown by it (login_state_sweep, callback_error, handle_as_error).
TabsAreIndependent ==
    [][\A r \in Request : Deliver(r) =>
          \A f \in jar.login \ jar'.login :
             \/ f = req[r].flow
             \/ req[r].session # NoSession
             \/ req[r].shown.pointer # NoSession]_vars

\* "Every failure path clears it so a stale flow doesn't replay": once a
\* callback that showed its login state is answered, no request of that
\* browser shows this state again (handle_callback).
FlowsDoNotReplay == answered \cap jar.login = {}

\* A login completes only within its time and the difference of the two
\* clocks it was measured with, and is not refused for its age before that, as
\* long as the clocks agree within MAX_CLOCK_SKEW (decode_login_state).
LoginsHaveTheirTime ==
    [][\A r \in Request, n \in Node : DecodeLoginState(r) /\ DecodedBy(r, n) =>
          LET f == req[r].flow
              age == now - flow[f].at
              ahead == Offset[flow[f].node] - Offset[n]
          IN  /\ req'[r].pc = "exchange" => age <= LoginStateTtl + ahead
              /\ ahead <= MaxClockSkew /\ age <= LoginStateTtl + ahead
                    => req'[r].pc = "exchange"]_vars

\* What belonged to an old session goes for cause and in order: its record only
\* for a logout that showed it or once another record replaces it, so that a
\* login that fails leaves the browser what it had, and its liveness entry only
\* after the record, so that the idle history of what may still be loaded is
\* never erased (SessionDriver::create, delete_superseded_session, revoke_session).
OldSessionsGoInOrder ==
    [][\A s \in Session :
          /\ record[s] = "live" /\ record'[s] = "gone" =>
                \E r \in Request :
                   /\ req[r].shown.pointer = s
                   /\ req[r].route = "logout" \/ IsLive(req[r].session)
          /\ s \in entries \ entries' => record[s] = "gone"]_vars

\* The pointer a successful callback answers with leads to a live record when
\* it reaches the browser, whatever other requests removed in between.
LoginsHold ==
    \A r \in Request :
        req[r].pc = "answered" /\ req[r].pointer \in Session => IsLive(req[r].pointer)

\* No record outlives its pointer unnoticed: a live record is the browser's, or
\* of a login under way, unless a store call failed, a request or response was
\* lost, or a response replaced a pointer its request had not shown
\* (delete_superseded_session: an old record must not wait for its deadline).
OrphansAreExplained ==
    \A s \in Session : record[s] = "live" =>
        \/ s = jar.pointer
        \/ \E r \in Request : req[r].pc # "idle" /\ req[r].session = s
        \/ s \in excused
=============================================================================
