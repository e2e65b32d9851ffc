------------------------------- MODULE Liveness -------------------------------
(***************************************************************************)
(* One store-backed session on the clock: the record with its storage      *)
(* deadline, the liveness entry with its own, the order in which           *)
(* load_session consults them, and the writes that move the deadlines out. *)
(* Both backends reap what has passed its deadline, independently of each  *)
(* other, and a missing entry reads as active.                             *)
(*                                                                         *)
(* Time is a number of ticks.  A request captures the clock once, after it *)
(* loaded the record, and works with that instant while time moves on; the *)
(* constants Latency and ReapLag bound how far.                            *)
(***************************************************************************)
EXTENDS Integers

CONSTANTS
    Request,            \* requests in flight at once; each slot serves many
    IdleTimeout,        \* LivenessConfig::idle_timeout
    TouchMinInterval,   \* LivenessConfig::touch_min_interval
    RefreshMargin,      \* LoginConfig::token_refresh_margin
    TokenLifetime,      \* of every access token
    ExpireAt,           \* the session's effective absolute deadline; later
                        \* than MaxTime for a delegated lifetime
    Kinds,              \* the answers counts_as_activity may give
    Latency,            \* a request is answered within Latency ticks
    ReapLag,            \* a record is gone ReapLag ticks after its deadline
    MaxFaults,          \* bound: failed backend calls and dropped requests
    MaxTime             \* bound: the clock stops there

ASSUME ConfigAssumption ==
    /\ IdleTimeout \in Nat \ {0}
    /\ TouchMinInterval \in 0..(IdleTimeout - 1)
    /\ RefreshMargin \in Nat
    /\ TokenLifetime \in Nat \ {0}
    /\ ExpireAt \in Nat
ASSUME EnvironmentAssumption ==
    /\ Kinds \subseteq BOOLEAN
    /\ Latency \in 0..TokenLifetime
    /\ ReapLag \in Nat
    /\ MaxFaults \in Nat
    /\ MaxTime \in Nat

VARIABLES
    now,            \* the wall clock of every node
    record,         \* the stored session
    entry,          \* its liveness entry
    req,            \* the local state of each request
    faults,         \* faults so far, at most MaxFaults
    anchor,         \* history: the token expiry the entry's deadline rests on
    lastActivity,   \* history: arrival of the latest request that counted as
                    \* activity and that check_liveness let through
    lastServed      \* history: arrival of the latest request served

history == <<anchor, lastActivity, lastServed>>
vars == <<now, record, entry, req, faults, history>>

\* liveness: in last_active; touch: in touch; exchange: at the token
\* endpoint; commit: in apply_refresh_and_save; terminate: in delete; clear:
\* in the liveness store's clear; handler: the application runs; pending:
\* the application runs and the refreshed tokens are still to be stored.
Pc == {"idle", "liveness", "touch", "exchange", "commit", "terminate",
       "clear", "handler", "pending"}

RequestState ==
    [pc: Pc, since: Nat,                \* the captured `now`
     counts: BOOLEAN,                   \* record_activity
     expiry: Nat, revision: Nat,        \* of the session it holds
     response: Nat]                     \* token expiry of the exchange's answer

Idle == [pc |-> "idle", since |-> 0, counts |-> FALSE, expiry |-> 0,
         revision |-> 0, response |-> 0]

Record == [present: BOOLEAN, revision: Nat, expiry: Nat, deadline: Nat]
Entry == [present: BOOLEAN, last: Nat, deadline: Nat]

NoRecord == [present |-> FALSE, revision |-> 0, expiry |-> 0, deadline |-> 0]
NoEntry == [present |-> FALSE, last |-> 0, deadline |-> 0]

TypeOK ==
    /\ now \in Nat
    /\ record \in Record
    /\ entry \in Entry
    /\ req \in [Request -> RequestState]
    /\ faults \in 0..MaxFaults
    /\ anchor \in Nat /\ lastActivity \in Nat /\ lastServed \in Nat

Later(a, b) == IF a >= b THEN a ELSE b
Earlier(a, b) == IF a <= b THEN a ELSE b

---------------------------------------------------------------------------
(* Deadlines, verdicts and throttles *)

\* Mistake: records are kept until the session's absolute deadline.
WriteDeadlineAtCap(expiry, at) == ExpireAt

\* Mistake: a sliding window that forgets when the token expires.
SlidingDeadline(expiry, at) == Earlier(ExpireAt, at + IdleTimeout)

\* storage_deadline and write_deadline: what every insert and
\* compare_and_swap tells the record's backend.
WriteDeadline(expiry, at) == Earlier(ExpireAt, Later(expiry, at) + IdleTimeout)

\* What touch tells the liveness backend.
EntryDeadline(expiry, at) == Earlier(ExpireAt, Later(expiry, at) + IdleTimeout)

\* duration_since, zero for an instant in the future.
Elapsed(at, last) == IF at >= last THEN at - last ELSE 0

\* LivenessConfig::verdict; a missing entry and one from the future are active.
Verdict(at) ==
    IF entry.present /\ Elapsed(at, entry.last) > IdleTimeout
    THEN "Expired" ELSE "Active"

\* Mistake: one touch per idle timeout.
TouchDueOncePerIdle(at) == entry.present => Elapsed(at, entry.last) >= IdleTimeout

TouchDue(at) == entry.present => Elapsed(at, entry.last) >= TouchMinInterval

\* The backend's touch: neither the activity time nor retention moves back.
Touched(at, deadline) ==
    [present |-> TRUE,
     last |-> IF entry.present THEN Later(entry.last, at) ELSE at,
     deadline |-> IF entry.present THEN Later(entry.deadline, deadline) ELSE deadline]

\* refresh_due: certain within three quarters of the margin, random in the rest.
RefreshDue(expiry, at) ==
    LET remaining == expiry - at IN
    IF remaining <= RefreshMargin - (RefreshMargin \div 4) THEN {TRUE}
    ELSE IF remaining > RefreshMargin THEN {FALSE}
    ELSE BOOLEAN

---------------------------------------------------------------------------
(* Steps of a request *)

Goto(r, pc) == req' = [req EXCEPT ![r].pc = pc]

\* The request is answered (or dropped) and its locals go.
Leave(r) == req' = [req EXCEPT ![r] = Idle]

Fault == faults < MaxFaults /\ faults' = faults + 1

\* create_session: the insert, then the first touch, which is best effort.
Init ==
    LET deadline == WriteDeadline(TokenLifetime, 0) IN
    /\ now = 0
    /\ record = [present |-> TRUE, revision |-> 0, expiry |-> TokenLifetime,
                 deadline |-> deadline]
    /\ req = [r \in Request |-> Idle]
    /\ lastActivity = 0 /\ lastServed = 0
    /\ \/ /\ entry = [present |-> TRUE, last |-> 0, deadline |-> deadline]
          /\ anchor = TokenLifetime
          /\ faults = 0
       \/ /\ entry = NoEntry
          /\ anchor = 0
          /\ MaxFaults > 0 /\ faults = 1

\* A request arrives with the session's cookie and finds the record.
Load(r) ==
    /\ req[r].pc = "idle"
    /\ record.present
    /\ \E counts \in Kinds :
        req' = [req EXCEPT ![r] =
                    [pc |-> IF now > ExpireAt THEN "terminate" ELSE "liveness",
                     since |-> now, counts |-> counts, expiry |-> record.expiry,
                     revision |-> record.revision, response |-> 0]]
    /\ UNCHANGED <<now, record, entry, faults, history>>

\* check_liveness answered Active: refresh if it is due, else serve.
Proceed(r) ==
    /\ \E due \in RefreshDue(req[r].expiry, req[r].since) :
        Goto(r, IF due THEN "exchange" ELSE "handler")
    /\ lastActivity' = IF req[r].counts THEN Later(lastActivity, req[r].since)
                       ELSE lastActivity
    /\ UNCHANGED lastServed

LivenessUnreadable(r) ==
    /\ req[r].pc = "liveness"
    /\ Fault
    /\ Proceed(r)
    /\ UNCHANGED <<now, record, entry, anchor>>

IdleExpired(r) ==
    /\ req[r].pc = "liveness"
    /\ Verdict(req[r].since) = "Expired"
    /\ Goto(r, "terminate")
    /\ UNCHANGED <<now, record, entry, faults, history>>

NothingToRecord(r) ==
    /\ req[r].pc = "liveness"
    /\ Verdict(req[r].since) = "Active"
    /\ ~(req[r].counts /\ TouchDue(req[r].since))
    /\ Proceed(r)
    /\ UNCHANGED <<now, record, entry, faults, anchor>>

BeginTouch(r) ==
    /\ req[r].pc = "liveness"
    /\ Verdict(req[r].since) = "Active"
    /\ req[r].counts /\ TouchDue(req[r].since)
    /\ Goto(r, "touch")
    /\ UNCHANGED <<now, record, entry, faults, history>>

\* The deadline comes from the session as loaded, before any refresh.
Touch(r) ==
    LET q == req[r] IN
    /\ q.pc = "touch"
    /\ entry' = Touched(q.since, EntryDeadline(q.expiry, q.since))
    /\ anchor' = IF entry.present THEN Later(anchor, q.expiry) ELSE q.expiry
    /\ Proceed(r)
    /\ UNCHANGED <<now, record, faults>>

TouchFails(r) ==
    /\ req[r].pc = "touch"
    /\ Fault
    /\ Proceed(r)
    /\ UNCHANGED <<now, record, entry, anchor>>

\* terminate_best_effort after an Expired or MaxLifetime verdict: delete,
\* and only when that succeeded clear the liveness entry.
Terminate(r) ==
    /\ req[r].pc = "terminate"
    /\ record' = NoRecord
    /\ Goto(r, "clear")
    /\ UNCHANGED <<now, entry, faults, history>>

TerminateFails(r) ==
    /\ req[r].pc = "terminate"
    /\ Fault
    /\ Leave(r)
    /\ UNCHANGED <<now, record, entry, history>>

Clear(r) ==
    /\ req[r].pc = "clear"
    /\ entry' = NoEntry
    /\ anchor' = 0
    /\ Leave(r)
    /\ UNCHANGED <<now, record, faults, lastActivity, lastServed>>

ClearFails(r) ==
    /\ req[r].pc = "clear"
    /\ Fault
    /\ Leave(r)
    /\ UNCHANGED <<now, record, entry, history>>

\* The token endpoint issues an access token; its lifetime runs from here.
ExchangeSucceeds(r) ==
    /\ req[r].pc = "exchange"
    /\ req' = [req EXCEPT ![r].pc = "commit",
                          ![r].response = now + TokenLifetime]
    /\ UNCHANGED <<now, record, entry, faults, history>>

\* No verdict on the refresh token: serve while the access token is valid.
ExchangeFails(r) ==
    /\ req[r].pc = "exchange"
    /\ IF now < req[r].expiry THEN Goto(r, "handler") ELSE Leave(r)
    /\ UNCHANGED <<now, record, entry, faults, history>>

\* invalid_grant, or no refresh token: teardown_observed ends the session
\* unless another request refreshed it.
TokenRejected(r) ==
    LET q == req[r]
        superseded == record.present /\ record.revision # q.revision
    IN
    /\ q.pc = "exchange"
    /\ IF superseded
       THEN /\ IF now < record.expiry THEN Goto(r, "handler") ELSE Leave(r)
            /\ UNCHANGED record
       ELSE /\ record' = NoRecord
            /\ IF record.present THEN Goto(r, "clear") ELSE Leave(r)
    /\ UNCHANGED <<now, entry, faults, history>>

\* commit_refresh: the record as it is after the call.
CommitRefresh(q) ==
    IF record.present /\ record.revision = q.revision
    THEN record' = [present |-> TRUE, revision |-> q.revision + 1,
                    expiry |-> q.response,
                    deadline |-> WriteDeadline(q.response, now)]
    ELSE UNCHANGED record

\* The eager persist; a record that is gone clears the browser's cookies.
Commit(r) ==
    /\ req[r].pc = "commit"
    /\ CommitRefresh(req[r])
    /\ IF record.present THEN Goto(r, "handler") ELSE Leave(r)
    /\ UNCHANGED <<now, entry, faults, history>>

CommitFails(r) ==
    /\ req[r].pc = "commit"
    /\ Fault
    /\ Goto(r, "pending")
    /\ UNCHANGED <<now, record, entry, history>>

\* StoreBackedSessionStore::update or save from the application's handler.
Update(r) ==
    /\ req[r].pc \in {"handler", "pending"}
    /\ record.present
    /\ record' = [record EXCEPT !.deadline = WriteDeadline(record.expiry, now)]
    /\ UNCHANGED <<now, entry, req, faults, history>>

Answer(r) ==
    /\ req[r].pc = "handler"
    /\ lastServed' = Later(lastServed, req[r].since)
    /\ Leave(r)
    /\ UNCHANGED <<now, record, entry, faults, anchor, lastActivity>>

\* The answer, then PendingPersist::commit.
AnswerAndPersist(r) ==
    /\ req[r].pc = "pending"
    /\ CommitRefresh(req[r])
    /\ lastServed' = Later(lastServed, req[r].since)
    /\ Leave(r)
    /\ UNCHANGED <<now, entry, faults, anchor, lastActivity>>

\* The client goes away, or PendingPersist::commit fails.
Drop(r) ==
    /\ req[r].pc # "idle"
    /\ Fault
    /\ Leave(r)
    /\ UNCHANGED <<now, record, entry, history>>

RequestStep(r) ==
    \/ Load(r) \/ LivenessUnreadable(r) \/ IdleExpired(r) \/ NothingToRecord(r)
    \/ BeginTouch(r) \/ Touch(r) \/ TouchFails(r)
    \/ Terminate(r) \/ TerminateFails(r) \/ Clear(r) \/ ClearFails(r)
    \/ ExchangeSucceeds(r) \/ ExchangeFails(r) \/ TokenRejected(r)
    \/ Commit(r) \/ CommitFails(r) \/ Update(r)
    \/ Answer(r) \/ AnswerAndPersist(r) \/ Drop(r)

---------------------------------------------------------------------------
(* The backends and the clock *)

RecordReaped ==
    /\ record.present /\ now >= record.deadline
    /\ record' = NoRecord
    /\ UNCHANGED <<now, entry, req, faults, history>>

EntryReaped ==
    /\ entry.present /\ now >= entry.deadline
    /\ entry' = NoEntry
    /\ UNCHANGED <<now, record, req, faults, history>>

\* Time waits for requests older than Latency and for the reaping of records.
Tick ==
    /\ now < MaxTime
    /\ \A r \in Request : req[r].pc # "idle" => now < req[r].since + Latency
    /\ record.present => now < record.deadline + ReapLag
    /\ now' = now + 1
    /\ UNCHANGED <<record, entry, req, faults, history>>

Next ==
    \/ \E r \in Request : RequestStep(r)
    \/ RecordReaped \/ EntryReaped \/ Tick

Spec == Init /\ [][Next]_vars

---------------------------------------------------------------------------
(* Properties *)

LetThrough(r) ==
    /\ req[r].pc \in {"liveness", "touch"}
    /\ req'[r].pc \in {"exchange", "handler"}

\* Idle enforcement fails open for a bounded time only: a request that
\* check_liveness lets through, with or without an entry, arrived at most one
\* token lifetime past the idle timeout of the latest activity (plus what
\* the environment adds), because every write of the record is paid for by
\* a refresh or an update of a request that was activity itself.
\* docs/explanation/liveness.md, "Entry TTLs and fail-open".
FailOpenIsBounded ==
    [][\A r \in Request : LetThrough(r) =>
          req[r].since <= lastActivity + TokenLifetime + IdleTimeout
                            + Latency + ReapLag]_vars

\* Traffic keeps a session alive through the throttle: a request that finds
\* the session idle arrived more than the idle timeout less one touch
\* interval after the latest activity, whatever touches of concurrent
\* requests, arriving in any order, and reaped entries did in between.
\* LivenessConfig::touch_min_interval.
ActiveSessionsSurvive ==
    [][\A r \in Request :
          /\ req[r].pc = "liveness" /\ req'[r].pc = "terminate"
          /\ faults = 0
          => req[r].since + TouchMinInterval > lastActivity + IdleTimeout]_vars

\* As long as no backend call fails, the entry outlives its record until a
\* refresh moves the record's deadline alone: while the token expiry that the
\* entry's deadline rests on is the stored one, the record goes first, or at
\* most a request's latency later.  A reaped entry before a live record
\* would make an idle session active again (check_liveness, "Entry TTL").
EntryOutlivesRecord ==
    faults = 0 /\ record.present /\ anchor = record.expiry =>
        record.deadline <= (IF entry.present THEN entry.deadline ELSE now) + Latency

\* Storage never ends a session in use: the backend takes the record no
\* earlier than the idle timeout after the latest request served from it,
\* or at the absolute deadline, although only refreshes and updates, not the
\* requests themselves, move the record's deadline (the TTL contract).
UsedRecordsAreKept ==
    [][record.present /\ ~record'.present /\ UNCHANGED req /\ faults = 0 =>
          now >= Earlier(ExpireAt, lastServed + IdleTimeout)]_vars
=============================================================================
