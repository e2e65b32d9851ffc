--------------------------- MODULE SessionRequests ---------------------------
(***************************************************************************)
(* Every request that carries one session's pointer cookie, served by      *)
(* LoginEngine over StoreBackedSessionStore, possibly on different server  *)
(* nodes: loading and refreshing the session, the application's handler    *)
(* (update, save, terminate), the persist owed after the response, logout, *)
(* and the login that supersedes the session.  Requests share nothing but  *)
(* the stored record and the authorization server, so a step is one        *)
(* backend call together with the local computation up to the next await.  *)
(***************************************************************************)
EXTENDS ExternalStore, AuthServer

CONSTANTS
    Routes,         \* what requests are for: "page", "logout", "login"
    Handlers,       \* what page handlers do: "update", "save", "terminate", "leave"
    MaxAttempts,    \* UPDATE_MAX_ATTEMPTS: compare_and_swap tries of a call
    MaxTries,       \* REFRESH_MAX_ATTEMPTS: exchanges one request may send
    MaxFaults       \* bound: failed backend calls, dropped requests, lost answers

ASSUME WorkloadAssumption ==
    /\ Routes \subseteq {"page", "logout", "login"}
    /\ Handlers \subseteq {"update", "save", "terminate", "leave"}
ASSUME BoundsAssumption ==
    /\ MaxAttempts \in Nat \ {0}
    /\ MaxTries \in Nat \ {0}
    /\ MaxFaults \in Nat

VARIABLES
    req,            \* the local state of each request
    faults          \* faults so far, at most MaxFaults

vars == <<storeVars, serverVars, req, faults>>

\* start: not read yet; refresh: refresh_or_clear entered; exchange: waiting
\* for the token endpoint; load, cas: inside a driver call's optimistic loop;
\* cleanup: delete_tombstone; delete: unconditional revoke; handler: in the
\* application; respond: the application has answered; done: answered.
Pc == {"start", "refresh", "exchange", "load", "cas", "cleanup", "delete",
       "handler", "respond", "done"}

\* The driver call the request waits for: apply_refresh_and_save from
\* refresh_or_clear (eager) or from PendingPersist::commit (deferred),
\* update, save_session, revoke_observed (teardown).
Call == {"none", "eager", "deferred", "update", "save", "teardown"}

\* What load_session answered (Cleared by its reason), or how the request ended.
Outcome == {"none", "Active", "ActivePending", "RefreshUnavailable",
            "ClearedPolicy", "ClearedRejected", "ClearedNoToken", "ClearedInvalid",
            "LoadFailed", "PersistFailed", "LoggedOut", "Superseded", "Dropped"}

Reply == {"none", "Ok", "Gone", "Conflict", "Unavailable", "Store", "Refused"}

NoResponse == [token_expiry |-> 0, refresh_token |-> NoToken]

RequestState ==
    [pc: Pc, call: Call, outcome: Outcome,
     reply: Reply,                 \* of the handler's own update or save
     held: SessionState,           \* the session the request works with
     expected: 0..MaxRevision,     \* expected_refresh_revision
     response: [token_expiry: Nat, refresh_token: Token],
     attempt: Nat,                 \* of the loop the request is in
     write: Write]                 \* argument of its compare_and_swap

FreshRequest ==
    [pc |-> "start", call |-> "none", outcome |-> "none", reply |-> "none",
     held |-> FromCompleted(NoToken), expected |-> 0, response |-> NoResponse,
     attempt |-> 0, write |-> NoWrite]

TypeOK ==
    /\ StoreTypeOK
    /\ ServerTypeOK
    /\ req \in [Request -> RequestState]
    /\ faults \in 0..MaxFaults

Init ==
    /\ StoreInit
    /\ ServerInit(stored.refresh_token)
    /\ req = [r \in Request |-> FreshRequest]
    /\ faults = 0

---------------------------------------------------------------------------
(* Computations on sessions *)

\* Mistake: a response without a refresh token drops the old one.
RefreshedDroppingToken(s, response) ==
    [s EXCEPT !.token_expiry = response.token_expiry,
              !.refresh_token = response.refresh_token]

\* SessionState::refreshed: a response without a refresh token keeps the old one.
Refreshed(s, response) ==
    [s EXCEPT !.token_expiry = response.token_expiry,
              !.refresh_token = IF response.refresh_token = NoToken
                                THEN @ ELSE response.refresh_token]

\* What commit_refresh writes over the fresh record.
CommitCandidate(fresh, response) ==
    [Refreshed(fresh, response) EXCEPT
        !.refresh_revision = fresh.refresh_revision + 1]

\* The closure of an update: it changes application fields only.
Mutated(s, r) == [s EXCEPT !.app = @ \cup {r}]

\* Mistake: a whole-session save checks its revision only.
MatchesRevisionOnly(s, persisted) ==
    s.refresh_revision = persisted.refresh_revision

\* matches_persisted_refresh
MatchesPersistedRefresh(s, persisted) ==
    /\ s.refresh_revision = persisted.refresh_revision
    /\ Credentials(s) = Credentials(persisted)

\* Mistake: the revision of a tombstone does not saturate.
TombstoneOverflowing(s) ==
    [s EXCEPT !.terminated = TRUE, !.refresh_token = NoToken,
              !.refresh_revision = @ + 1]

\* The tombstone of revoke_observed_session: no credential, next revision
\* (saturating), everything else as stored.
Tombstone(s) ==
    [s EXCEPT !.terminated = TRUE,
              !.refresh_token = NoToken,
              !.refresh_revision = IF @ < MaxRevision THEN @ + 1 ELSE @]

---------------------------------------------------------------------------
(* How a request moves on; q is its local state *)

Become(r, q) == req' = [req EXCEPT ![r] = q]

\* The request is answered and its locals go out of scope.
Finish(q, outcome) ==
    [q EXCEPT !.pc = "done", !.call = "none", !.outcome = outcome,
              !.held = FromCompleted(NoToken), !.expected = 0, !.response = NoResponse, !.attempt = 0,
              !.write = NoWrite]

Serve(q, outcome, session) ==
    [q EXCEPT !.pc = "handler", !.call = "none", !.outcome = outcome,
              !.held = session, !.attempt = 0, !.write = NoWrite]

Enter(q, call) == [q EXCEPT !.pc = "load", !.call = call, !.attempt = 0]

\* Mistake: only an unavailable store leaves the persist owed.
EagerReturnedForgettingConflict(q, reply, session) ==
    CASE reply \in {"Ok", "Conflict"} ->
            [Serve(q, "Active", session) EXCEPT !.expected = 0, !.response = NoResponse]
      [] reply = "Gone" -> Finish(q, "ClearedInvalid")
      [] OTHER -> Serve(q, "ActivePending", Refreshed(q.held, q.response))

\* apply_refresh_and_save returned to refresh_or_clear.
EagerReturned(q, reply, session) ==
    CASE reply = "Ok" -> [Serve(q, "Active", session) EXCEPT
                             !.expected = 0, !.response = NoResponse]
      [] reply = "Gone" -> Finish(q, "ClearedInvalid")
      [] OTHER -> Serve(q, "ActivePending", Refreshed(q.held, q.response))

\* Mistake: an owed persist that fails is tried again until it succeeds.
DeferredReturnedRetrying(q, reply) ==
    IF reply = "Ok" THEN Finish(q, "Active")
                    ELSE [q EXCEPT !.pc = "respond", !.attempt = 0, !.write = NoWrite]

\* apply_refresh_and_save returned to PendingPersist::commit.
DeferredReturned(q, reply) ==
    Finish(q, IF reply = "Ok" THEN "Active" ELSE "PersistFailed")

\* Mistake: the browser is told to forget the session though the check failed.
TeardownReturnedGuessing(q, reply) ==
    Finish(q, IF q.held.refresh_token = NoToken THEN "ClearedNoToken"
              ELSE "ClearedRejected")

\* revoke_observed returned to teardown_observed; Ok(None) is "Ok",
\* Ok(Some(current)) is "Superseded" and handled where it arises.
TeardownReturned(q, reply) ==
    Finish(q, IF reply # "Ok" THEN "RefreshUnavailable"
              ELSE IF q.held.refresh_token = NoToken THEN "ClearedNoToken"
              ELSE "ClearedRejected")

HandlerReturned(q, reply) ==
    [q EXCEPT !.pc = "respond", !.call = "none", !.reply = reply,
              !.attempt = 0, !.write = NoWrite]

\* A driver call returns reply; session is what Ok carries.
Returned(q, reply, session) ==
    CASE q.call = "eager" -> EagerReturned(q, reply, session)
      [] q.call = "deferred" -> DeferredReturned(q, reply)
      [] q.call = "teardown" ->
            TeardownReturned(q, IF reply = "Gone" THEN "Ok" ELSE reply)
      [] OTHER -> HandlerReturned(q, reply)

---------------------------------------------------------------------------
(* Loading a session: LoginEngine::load_session up to the refresh *)

\* A clock, lifetime or idle check ends the session (terminate_best_effort),
\* the access token is due for refresh, or the session is served as it is.
\* An expired token is always due.
LoadSession(r) ==
    /\ "page" \in Routes
    /\ req[r].pc = "start"
    /\ \/ /\ ~LoadLive
          /\ Become(r, Finish(req[r], "ClearedInvalid"))
       \/ /\ LoadLive
          /\ \E pc \in {"delete", "refresh"} :
                Become(r, [req[r] EXCEPT
                    !.pc = pc, !.held = stored,
                    !.outcome = IF pc = "delete" THEN "ClearedPolicy" ELSE "none"])
       \/ /\ LoadLive
          /\ stored.token_expiry \notin expired
          /\ Become(r, Serve(req[r], "Active", stored))
    /\ UNCHANGED <<storeVars, serverVars, faults>>

\* handle_logout: revoke the loaded session, whatever its state; a session
\* that cannot be loaded is only cleared from the browser.
Logout(r) ==
    /\ "logout" \in Routes
    /\ req[r].pc = "start"
    /\ Become(r, IF LoadLive THEN [req[r] EXCEPT !.pc = "delete", !.outcome = "LoggedOut"]
                             ELSE Finish(req[r], "LoggedOut"))
    /\ UNCHANGED <<storeVars, serverVars, faults>>

\* delete_superseded_session at a new login: the raw record, tombstone or not.
Supersede(r) ==
    /\ "login" \in Routes
    /\ req[r].pc = "start"
    /\ Become(r, IF present THEN [req[r] EXCEPT !.pc = "delete", !.outcome = "Superseded"]
                            ELSE Finish(req[r], "Superseded"))
    /\ UNCHANGED <<storeVars, serverVars, faults>>

---------------------------------------------------------------------------
(* refresh_or_clear *)

StartRefresh(r) ==
    LET q == [req[r] EXCEPT !.expected = req[r].held.refresh_revision]
    IN  /\ req[r].pc = "refresh"
        /\ \/ /\ q.held.refresh_token # NoToken
              /\ Become(r, [q EXCEPT !.pc = "exchange", !.attempt = 0])
           \/ /\ q.held.refresh_token = NoToken
              /\ q.held.token_expiry \notin expired
              /\ Become(r, Serve(q, "Active", q.held))
           \/ /\ q.held.refresh_token = NoToken
              /\ q.held.token_expiry \in expired
              /\ Become(r, Enter(q, "teardown"))
        /\ UNCHANGED <<storeVars, serverVars, faults>>

\* The token endpoint answers with new tokens: commit them at once.
ExchangeSucceeds(r) ==
    /\ req[r].pc = "exchange"
    /\ \E answer \in Policy :
        /\ Exchange(req[r].held.refresh_token, answer)
        /\ Become(r, [Enter(req[r], "eager") EXCEPT !.response = Response(answer)])
    /\ UNCHANGED <<storeVars, faults>>

\* invalid_grant
ExchangeRejected(r) ==
    /\ req[r].pc = "exchange"
    /\ req[r].held.refresh_token \notin valid
    /\ Become(r, Enter(req[r], "teardown"))
    /\ UNCHANGED <<storeVars, serverVars, faults>>

\* After a failure that is no verdict on the token: another try while the
\* error advises one and the budget lasts, else the session is served while
\* its access token lives.
ExchangeFailed(r) ==
    LET q == req[r]
    IN  \/ q.attempt + 1 < MaxTries /\ Become(r, [q EXCEPT !.attempt = @ + 1])
        \/ Become(r, IF q.held.token_expiry \in expired
                     THEN Finish(q, "RefreshUnavailable")
                     ELSE [Serve(q, "Active", q.held) EXCEPT !.expected = 0])

ExchangeUnavailable(r) ==
    /\ req[r].pc = "exchange"
    /\ ExchangeFailed(r)
    /\ UNCHANGED <<storeVars, serverVars, faults>>

\* The server issued new tokens and the answer was lost on the way.
ExchangeAnswerLost(r) ==
    /\ req[r].pc = "exchange"
    /\ faults < MaxFaults
    /\ \E answer \in Policy : Exchange(req[r].held.refresh_token, answer)
    /\ ExchangeFailed(r)
    /\ faults' = faults + 1
    /\ UNCHANGED storeVars

---------------------------------------------------------------------------
(* The optimistic loops of StoreBackedSessionStore *)

\* The load succeeded and the call goes on to write session.
Propose(r, session) ==
    Become(r, [req[r] EXCEPT !.pc = "cas",
                             !.write = [base |-> version, session |-> session]])

ReturnTo(r, reply, session) == Become(r, Returned(req[r], reply, session))

\* Mistake: a response commits over whatever generation is stored.
CommitsAnyRevision(fresh, expected) == TRUE

\* commit_refresh writes only over the generation the exchange started from.
CommitsOver(fresh, expected) == fresh.refresh_revision = expected

LoadForCommit(r) ==
    LET q == req[r]
    IN  /\ q.pc = "load" /\ q.call \in {"eager", "deferred"}
        /\ \/ /\ ~LoadLive
              /\ ReturnTo(r, "Gone", q.held)
           \/ /\ LoadLive /\ ~CommitsOver(stored, q.expected)
              /\ ReturnTo(r, "Ok", stored)
           \/ /\ LoadLive /\ CommitsOver(stored, q.expected)
              /\ stored.refresh_revision = MaxRevision
              /\ ReturnTo(r, "Store", q.held)
           \/ /\ LoadLive /\ CommitsOver(stored, q.expected)
              /\ stored.refresh_revision < MaxRevision
              /\ Propose(r, CommitCandidate(stored, q.response))
        /\ UNCHANGED <<storeVars, serverVars, faults>>

\* try_update: the closure sees the fresh record and may refuse.
LoadForUpdate(r) ==
    LET q == req[r]
    IN  /\ q.pc = "load" /\ q.call = "update"
        /\ \/ ~LoadLive /\ ReturnTo(r, "Gone", q.held)
           \/ LoadLive /\ ReturnTo(r, "Refused", q.held)
           \/ LoadLive /\ Propose(r, Mutated(stored, r))
        /\ UNCHANGED <<storeVars, serverVars, faults>>

\* save_session: the caller's copy replaces the record, if it holds exactly
\* the stored credentials.
LoadForSave(r) ==
    LET q == req[r]
    IN  /\ q.pc = "load" /\ q.call = "save"
        /\ \/ ~LoadLive /\ ReturnTo(r, "Gone", q.held)
           \/ /\ LoadLive /\ ~MatchesPersistedRefresh(q.held, stored)
              /\ ReturnTo(r, "Conflict", q.held)
           \/ /\ LoadLive /\ MatchesPersistedRefresh(q.held, stored)
              /\ Propose(r, [q.held EXCEPT !.token_expiry = stored.token_expiry])
        /\ UNCHANGED <<storeVars, serverVars, faults>>

\* Mistake: a rejected request ends whatever generation is stored.
RevokesAnyRevision(current, observed) == TRUE

\* revoke_observed_session ends only the generation the caller observed.
RevokesOver(current, observed) ==
    current.refresh_revision = observed.refresh_revision

LoadForTeardown(r) ==
    LET q == req[r]
    IN  /\ q.pc = "load" /\ q.call = "teardown"
        /\ \/ /\ ~present
              /\ ReturnTo(r, "Ok", q.held)
           \/ /\ present /\ stored.terminated
              /\ Become(r, [q EXCEPT !.pc = "cleanup"])
           \/ /\ LoadLive /\ ~RevokesOver(stored, q.held)
              /\ Become(r, IF stored.token_expiry \in expired
                           THEN Finish(q, "RefreshUnavailable")
                           ELSE [Serve(q, "Active", stored) EXCEPT !.expected = 0])
           \/ /\ LoadLive /\ RevokesOver(stored, q.held)
              /\ Propose(r, Tombstone(stored))
        /\ UNCHANGED <<storeVars, serverVars, faults>>

\* The compare_and_swap of any loop reaches the store and is answered.
AnswerWrite(r) ==
    LET q == req[r]
        outcome == SaveOutcome(q.write.base)
    IN  /\ q.pc = "cas"
        /\ CompareAndSwap(q.write)
        /\ \/ /\ outcome = "Committed" /\ q.call # "teardown"
              /\ ReturnTo(r, "Ok", q.write.session)
           \/ /\ outcome = "Committed" /\ q.call = "teardown"
              /\ Become(r, [q EXCEPT !.pc = "cleanup", !.write = NoWrite])
           \/ /\ outcome = "Missing"
              /\ ReturnTo(r, "Gone", q.held)
           \/ /\ outcome = "Conflict" /\ q.attempt + 1 < MaxAttempts
              /\ Become(r, [q EXCEPT !.pc = "load", !.attempt = @ + 1, !.write = NoWrite])
           \/ /\ outcome = "Conflict" /\ q.attempt + 1 = MaxAttempts
              /\ ReturnTo(r, "Conflict", q.held)
        /\ UNCHANGED <<lateWrites, lateDelete, serverVars, faults>>

\* delete_tombstone, best effort.
CleanUp(r) ==
    /\ req[r].pc = "cleanup"
    /\ Delete
    /\ ReturnTo(r, "Ok", req[r].held)
    /\ UNCHANGED <<version, stored, lateWrites, lateDelete, serverVars, faults>>

\* revoke_session.
DeleteRecord(r) ==
    /\ req[r].pc = "delete"
    /\ Delete
    /\ Become(r, Finish(req[r], req[r].outcome))
    /\ UNCHANGED <<version, stored, lateWrites, lateDelete, serverVars, faults>>

---------------------------------------------------------------------------
(* The application and the end of the response *)

\* The handler updates, saves its own changed copy, ends the session
\* (terminate_session, PendingPersist::abandon), or leaves it alone.
Handle(r) ==
    LET q == req[r]
    IN  /\ q.pc = "handler"
        /\ \/ "update" \in Handlers /\ Become(r, Enter(q, "update"))
           \/ "save" \in Handlers /\ Become(r, Enter([q EXCEPT !.held = Mutated(@, r)], "save"))
           \/ "terminate" \in Handlers /\ Become(r, [q EXCEPT !.pc = "delete", !.outcome = "LoggedOut"])
           \/ "leave" \in Handlers /\ Become(r, [q EXCEPT !.pc = "respond"])
        /\ UNCHANGED <<storeVars, serverVars, faults>>

\* Enter PendingPersist::commit if a persist is owed.
Respond(r) ==
    LET q == req[r]
    IN  /\ q.pc = "respond"
        /\ Become(r, IF q.outcome = "ActivePending" THEN Enter(q, "deferred")
                                                    ELSE Finish(q, q.outcome))
        /\ UNCHANGED <<storeVars, serverVars, faults>>

---------------------------------------------------------------------------
(* Faults *)

\* A call to the store that is cut short stays on its way.
LeaveBehind(q) ==
    /\ lateWrites' = lateWrites \cup {w \in {q.write} : q.pc = "cas"}
    /\ lateDelete' = (lateDelete \/ q.pc \in {"cleanup", "delete"})
    /\ UNCHANGED <<present, version, stored>>

\* The store reports an error.  Deletes are best effort.
BackendFails(r) ==
    LET q == req[r]
    IN  /\ faults < MaxFaults
        /\ \/ q.pc = "start" /\ Become(r, Finish(q, "LoadFailed"))
           \/ q.pc \in {"load", "cas"} /\ ReturnTo(r, "Unavailable", q.held)
           \/ q.pc = "cleanup" /\ ReturnTo(r, "Ok", q.held)
           \/ q.pc = "delete" /\ Become(r, Finish(q, q.outcome))
        /\ LeaveBehind(q)
        /\ faults' = faults + 1
        /\ UNCHANGED serverVars

\* The node stops, or the client goes away and the future is dropped.
DropRequest(r) ==
    /\ faults < MaxFaults
    /\ req[r].pc \notin {"start", "done"}
    /\ Become(r, Finish(req[r], "Dropped"))
    /\ LeaveBehind(req[r])
    /\ faults' = faults + 1
    /\ UNCHANGED serverVars

---------------------------------------------------------------------------

\* Steps of a request that its executor runs to completion.
Progress(r) ==
    \/ StartRefresh(r) \/ ExchangeSucceeds(r) \/ ExchangeRejected(r)
    \/ ExchangeUnavailable(r)
    \/ LoadForCommit(r) \/ LoadForUpdate(r) \/ LoadForSave(r) \/ LoadForTeardown(r)
    \/ AnswerWrite(r) \/ CleanUp(r) \/ DeleteRecord(r)
    \/ Handle(r) \/ Respond(r)

RequestNext(r) ==
    \/ LoadSession(r) \/ Logout(r) \/ Supersede(r)
    \/ Progress(r)
    \/ ExchangeAnswerLost(r) \/ BackendFails(r) \/ DropRequest(r)

EnvironmentNext ==
    \/ (LateWriteArrives \/ LateDeleteArrives) /\ UNCHANGED <<serverVars, req, faults>>
    \/ (AccessTokenExpires \/ WithdrawTokens) /\ UNCHANGED <<storeVars, req, faults>>

Next ==
    \/ \E r \in Request : RequestNext(r)
    \/ EnvironmentNext

Spec == Init /\ [][Next]_vars

\* A server polls every request it has begun until it is answered.
FairSpec == Spec /\ \A r \in Request : WF_vars(Progress(r))

---------------------------------------------------------------------------
(* Correctness *)

\* A refresh credential no request can use any more: the server refuses the
\* refresh token, or there is none and the access token has expired.
NoLongerUsable(s) ==
    IF s.refresh_token = NoToken THEN s.token_expiry \in expired
                                 ELSE s.refresh_token \notin valid

\* Once the session has ended (deleted, or terminated by a tombstone) no step
\* of any request, and no write that arrives late, makes it load again
\* (store_session.rs, compare_and_swap contract and revoke_observed_session).
TerminationIsFinal == [][Ended => Ended']_vars

\* A conditional teardown ends only a session whose stored credentials are
\* really unusable: a verdict on credentials another request has since
\* replaced destroys nothing (engine/mod.rs, teardown_observed).
TombstoneIsJustified ==
    [][LoadLive /\ stored'.terminated => NoLongerUsable(stored)]_vars

\* Stored credentials change only by a refresh that moves the record to the
\* next revision and to a later grant.  So a response commits at most once,
\* whichever acknowledgement is lost and however often it is tried again, an
\* older generation never comes back, and a whole-session save cannot publish
\* a pending refresh (commit_refresh, save_session, PendingPersist::commit).
CredentialsOnlyAdvance ==
    [][LoadLive /\ LoadLive' /\ Credentials(stored') # Credentials(stored)
        => /\ stored'.refresh_revision = stored.refresh_revision + 1
           /\ stored'.token_expiry > stored.token_expiry]_vars

\* When load_session tells the browser to forget its pointer because of the
\* session's credentials, or because the record is gone, the session has
\* ended: no other holder of the pointer is left authenticated by it.
ClearedMeansEnded ==
    \A r \in Request :
        req[r].outcome \in {"ClearedRejected", "ClearedNoToken", "ClearedInvalid"} => Ended

\* A request served without an owed persist holds no credentials but those
\* committed under its revision: it never runs ahead of the record and never
\* disagrees with it about the current revision.
Copies(q) ==
    /\ q.pc \in Pc \ {"start", "done", "delete"}
    /\ q.outcome # "ActivePending"

CopiesAgreeWithRecord ==
    LoadLive =>
        \A r \in Request : Copies(req[r]) =>
            /\ req[r].held.refresh_revision <= stored.refresh_revision
            /\ req[r].held.refresh_revision = stored.refresh_revision =>
                   Credentials(req[r].held) = Credentials(stored)

\* Under strict rotation, where every exchange retires the token it was given,
\* concurrency never strands a refresh token in silence: as long as nothing
\* fails, whenever the record's token has been retired, a request still holds
\* its successor under the record's generation and may commit it, or both of
\* that request's persists were refused and PendingPersist::commit said so
\* (docs/explanation/refresh.md, eager persistence).  With a server that
\* retires only sometimes this does not hold, as the same page says: the
\* answer that lost the revision may be the one that counts.
RotationNotStranded ==
    faults = 0 /\ ~withdrawn /\ LoadLive /\ Policy = {"retire"}
        /\ stored.refresh_token \notin valid \cup {NoToken}
    => \E r \in Request :
            \/ /\ req[r].response.refresh_token \in valid
               /\ req[r].expected = stored.refresh_revision
            \/ req[r].outcome = "PersistFailed"

\* In an application whose handlers use update and not whole-session saves, an
\* update that was answered Ok is in the record until the session ends, and
\* one that was refused, or answered Conflict or Gone, never is.
UpdateAnswersAreTrue ==
    "save" \notin Handlers =>
        \A r \in Request :
            /\ req[r].reply = "Ok" => r \in stored.app
            /\ req[r].reply \in {"Gone", "Conflict", "Refused"} => r \notin stored.app

\* Every request a server begins is answered: conflicts, failing backends and
\* an unreachable authorization server only use up its budgets.
RequestsAreAnswered ==
    \A r \in Request : req[r].pc \notin {"start", "done"} ~> req[r].pc = "done"

\* What a pointer to the session gives access to.
Visible ==
    IF LoadLive
    THEN [refresh_revision |-> stored.refresh_revision,
          refresh_token |-> stored.refresh_token,
          token_expiry |-> stored.token_expiry,
          app |-> stored.app]
    ELSE [refresh_revision |-> 0, refresh_token |-> NoToken,
          token_expiry |-> 0, app |-> {}]

Atomic == INSTANCE AtomicSession WITH live <- LoadLive, session <- Visible

\* The requests, the driver, the store and everything still in flight behave
\* as one session that is refreshed, edited and ended atomically.
BehavesAtomically == Atomic!Spec
=============================================================================
