---------------------------- MODULE LivenessProofs ----------------------------
(***************************************************************************)
(* Theorems about Liveness, for every configuration, latency and number of *)
(* requests.  They rest on one inductive invariant, IInv: what a request   *)
(* in flight knows about the record it loaded (Observed, Current), what    *)
(* the record's deadline is worth (RecordOK, PaidFor) and what the entry's *)
(* deadline is worth (EntryOK).  The throttle of touches needs a second    *)
(* one, ThrottleInv: how far the entry is behind the latest activity.      *)
(***************************************************************************)
EXTENDS Liveness, TLAPS

Busy(r) == req[r].pc # "idle"

\* A request is young, and the token it loaded was issued before it arrived.
Young(r) == Busy(r) =>
    /\ req[r].since <= now
    /\ now <= req[r].since + Latency
    /\ req[r].expiry <= req[r].since + TokenLifetime

\* A refreshed access token was issued while its request was in flight.
Refreshed(r) == req[r].pc \in {"commit", "pending"} =>
    /\ req[r].since + TokenLifetime <= req[r].response
    /\ req[r].response <= req[r].since + Latency + TokenLifetime
    /\ req[r].response <= now + TokenLifetime

\* The record is the one the request loaded, or a later refresh of it.
Observed(r) == Busy(r) /\ record.present =>
    /\ req[r].revision <= record.revision
    /\ req[r].revision = record.revision => req[r].expiry = record.expiry
    /\ req[r].revision < record.revision => req[r].since <= record.expiry

\* A request that is served arrived before the stored token expires.
Current(r) == req[r].pc = "handler" /\ record.present =>
    req[r].since <= record.expiry

\* A request that got past the check counts, if it counts as activity.
Counted(r) ==
    /\ req[r].pc \in {"exchange", "commit", "handler", "pending"} /\ req[r].counts =>
          req[r].since <= lastActivity
    /\ Busy(r) => req[r].counts \in Kinds

\* Every request counts as activity (ActivityPolicy::AllRequests).
AllActivity == Kinds \subseteq {TRUE}

FailOpenBound == lastActivity + TokenLifetime + IdleTimeout + Latency + ReapLag

\* If every request is activity, it arrives within the bound.
Bounded(r) == AllActivity /\ req[r].pc \in {"liveness", "touch"} =>
    req[r].since <= FailOpenBound

RequestOK(r) ==
    /\ Young(r)
    /\ Refreshed(r)
    /\ Observed(r)
    /\ Current(r)
    /\ Counted(r)
    /\ Bounded(r)

RecordOK == record.present =>
    /\ 0 < record.expiry
    /\ record.expiry <= now + TokenLifetime
    /\ Earlier(ExpireAt, record.expiry + IdleTimeout) <= record.deadline

\* If every request is activity, activity pays for the record's retention.
PaidFor == AllActivity /\ record.present =>
    /\ record.expiry <= lastActivity + Latency + TokenLifetime
    /\ record.deadline <= lastActivity + Latency + TokenLifetime + IdleTimeout
    /\ now <= FailOpenBound

EntryOK ==
    IF entry.present THEN Earlier(ExpireAt, anchor + IdleTimeout) <= entry.deadline
    ELSE anchor = 0 \/ Earlier(ExpireAt, anchor + IdleTimeout) <= now

\* While nothing fails: retention follows the token, and so does service.
NothingFailed == faults = 0 =>
    /\ \A r \in Request : req[r].pc # "pending"
    /\ record.present =>
          /\ record.deadline <= Earlier(ExpireAt, record.expiry + Latency + IdleTimeout)
          /\ lastServed <= record.expiry

IInv ==
    /\ TypeOK
    /\ \A r \in Request : RequestOK(r)
    /\ RecordOK
    /\ PaidFor
    /\ EntryOK
    /\ NothingFailed
    /\ lastServed <= now /\ lastActivity <= now

---------------------------------------------------------------------------
LEMMA ConstantsType ==
    /\ IdleTimeout \in Nat /\ 0 < IdleTimeout
    /\ TouchMinInterval \in Nat /\ TouchMinInterval < IdleTimeout
    /\ TokenLifetime \in Nat /\ 0 < TokenLifetime
    /\ Latency \in Nat /\ Latency <= TokenLifetime
    /\ RefreshMargin \in Nat /\ ExpireAt \in Nat
    /\ ReapLag \in Nat /\ MaxFaults \in Nat
BY ConfigAssumption, EnvironmentAssumption

LEMMA BoundGrows ==
    ASSUME NEW a \in Nat, NEW b \in Nat, a <= b
    PROVE  LET Bound(x) == x + TokenLifetime + IdleTimeout + Latency + ReapLag IN
           Bound(a) \in Nat /\ Bound(b) \in Nat /\ Bound(a) <= Bound(b)
BY ConstantsType

(* What a step may do to the record *)

\* The whole record survives, a refresh replaces it, or it goes.
RecordMoves ==
    \/ record' = record
    \/ record' = NoRecord
    \/ /\ record.present /\ record'.present
       /\ record'.revision = record.revision
       /\ record'.expiry = record.expiry
    \/ /\ record.present /\ record'.present
       /\ record'.revision = record.revision + 1
       /\ now <= record'.expiry

\* Whatever other requests and the backends do to the record, what a request
\* relies on stays true while its own state does not change.
LEMMA OthersStable ==
    ASSUME IInv, NEW s \in Request, TypeOK',
           RecordMoves, now' = now, req'[s] = req[s],
           lastActivity <= lastActivity'
    PROVE  RequestOK(s)'
<1>1. TypeOK /\ RequestOK(s)
  BY DEF IInv
<1> USE ConstantsType, <1>1
<1>2. /\ req[s] \in RequestState /\ req'[s] \in RequestState
      /\ now \in Nat /\ lastActivity \in Nat /\ lastActivity' \in Nat
      /\ record \in Record /\ record' \in Record
  BY DEF TypeOK
<1>3. Young(s)' /\ Refreshed(s)'
  BY <1>2 DEF RequestOK, Young, Refreshed, Busy
<1>4. Observed(s)'
  BY <1>2 DEF RequestOK, Young, Observed, Busy, RecordMoves, NoRecord, Record, RequestState
<1>5. Current(s)'
  BY <1>2 DEF RequestOK, Young, Current, Busy, RecordMoves, NoRecord, Record, RequestState
<1>6. Counted(s)'
  BY <1>2 DEF RequestOK, Counted, Busy, RequestState
<1>7. Bounded(s)'
  <2>1. FailOpenBound <= FailOpenBound' /\ FailOpenBound \in Nat /\ FailOpenBound' \in Nat
    BY <1>2, BoundGrows DEF FailOpenBound
  <2>2. req[s].since \in Nat /\ Bounded(s)
    BY <1>2 DEF RequestState, RequestOK
  <2> QED BY <2>1, <2>2 DEF Bounded
<1> QED BY <1>3, <1>4, <1>5, <1>6, <1>7 DEF RequestOK

LEMMA InitIInv == Init => IInv
<1> SUFFICES ASSUME Init PROVE IInv
  OBVIOUS
<1> USE ConstantsType
<1>1. TypeOK
  <2>1. WriteDeadline(TokenLifetime, 0) \in Nat
    BY DEF WriteDeadline, Later, Earlier
  <2>2. req \in [Request -> RequestState]
    BY DEF Init, RequestState, Idle, Pc
  <2>3. record \in Record
    BY <2>1 DEF Init, Record
  <2>4. entry \in Entry
    <3>1. NoEntry \in Entry
      BY DEF Entry, NoEntry
    <3>2. [present |-> TRUE, last |-> 0,
           deadline |-> WriteDeadline(TokenLifetime, 0)] \in Entry
      BY <2>1 DEF Entry
    <3> QED BY <3>1, <3>2 DEF Init
  <2> QED BY <2>2, <2>3, <2>4 DEF Init, TypeOK
<1>2. ASSUME NEW r \in Request PROVE RequestOK(r) /\ req[r].pc = "idle"
  BY DEF Init, RequestOK, Young, Refreshed, Observed, Current, Counted,
         Bounded, Busy, Idle
<1>3. RecordOK
  BY DEF Init, RecordOK, WriteDeadline, Earlier, Later
<1>4. PaidFor
  BY DEF Init, PaidFor, FailOpenBound, WriteDeadline, Earlier, Later
<1>5. EntryOK
  BY DEF Init, EntryOK, WriteDeadline, Earlier, Later, NoEntry
<1>6. NothingFailed
  BY <1>2 DEF Init, NothingFailed, WriteDeadline, Earlier, Later
<1> QED BY <1>1, <1>2, <1>3, <1>4, <1>5, <1>6 DEF IInv, Init

---------------------------------------------------------------------------
(* Steps of one request *)

LEMMA DeadlinesType ==
    ASSUME NEW e \in Nat, NEW at \in Nat
    PROVE  WriteDeadline(e, at) \in Nat /\ EntryDeadline(e, at) \in Nat
BY ConstantsType DEF WriteDeadline, EntryDeadline, Later, Earlier

\* Steps that leave deadlines, history and the clock alone, except that they
\* may end the record: only the moving request is affected.
LEMMA RequestMove ==
    ASSUME IInv, TypeOK', NEW r \in Request,
           \A s \in Request \ {r} : req'[s] = req[s],
           now' = now, record' = record \/ record' = NoRecord,
           UNCHANGED <<entry, anchor, lastServed>>,
           faults <= faults', req'[r].pc = "pending" => faults' # 0,
           lastActivity <= lastActivity', lastActivity' <= now,
           RequestOK(r)'
    PROVE  IInv'
<1> USE ConstantsType
<1>1. \A s \in Request : RequestOK(s)'
  <2> TAKE s \in Request
  <2>1. CASE s = r
    BY <2>1
  <2>2. CASE s # r
    BY <2>2, OthersStable DEF RecordMoves
  <2> QED BY <2>1, <2>2
<1>2. record'.present => record' = record
  BY DEF NoRecord
<1>3. RecordOK'
  BY <1>2 DEF IInv, RecordOK
<1>4. PaidFor'
  <2>1. lastActivity \in Nat /\ lastActivity' \in Nat /\ now \in Nat
        /\ record \in Record
    BY DEF IInv, TypeOK
  <2>2. /\ FailOpenBound <= FailOpenBound'
        /\ FailOpenBound \in Nat /\ FailOpenBound' \in Nat
    BY <2>1, BoundGrows DEF FailOpenBound
  <2>3. SUFFICES ASSUME AllActivity, record'.present
        PROVE  PaidFor!2'
    BY DEF PaidFor, AllActivity
  <2>4. /\ record.expiry <= lastActivity + Latency + TokenLifetime
        /\ record.deadline <= lastActivity + Latency + TokenLifetime + IdleTimeout
        /\ now <= FailOpenBound
    BY <1>2, <2>3 DEF IInv, PaidFor
  <2>5. record.expiry \in Nat /\ record.deadline \in Nat
    BY <2>1 DEF Record
  <2> QED BY <1>2, <2>1, <2>2, <2>3, <2>4, <2>5
<1>5. EntryOK'
  BY DEF IInv, EntryOK
<1>6. NothingFailed'
  <2> SUFFICES ASSUME faults' = 0 PROVE NothingFailed!2'
    BY DEF NothingFailed
  <2>1. faults = 0
    BY DEF IInv, TypeOK
  <2>2. \A s \in Request : req'[s].pc # "pending"
    BY <2>1 DEF IInv, NothingFailed
  <2> QED BY <1>2, <2>1, <2>2 DEF IInv, NothingFailed
<1> QED BY <1>1, <1>3, <1>4, <1>5, <1>6 DEF IInv

---------------------------------------------------------------------------
(* Types *)

LEMMA TypeStep == TypeOK /\ [Next]_vars => TypeOK'
<1> SUFFICES ASSUME TypeOK, [Next]_vars PROVE TypeOK'
  OBVIOUS
<1> USE ConstantsType
<1>1. \A pc \in Pc : \A q \in RequestState : [q EXCEPT !.pc = pc] \in RequestState
  BY DEF RequestState
<1>2. Idle \in RequestState /\ NoRecord \in Record /\ NoEntry \in Entry
  BY DEF Idle, NoRecord, NoEntry, RequestState, Record, Entry, Pc
<1>3. ASSUME NEW r \in Request, NEW pc \in Pc, Goto(r, pc)
      PROVE  req' \in [Request -> RequestState]
  BY <1>1, <1>3 DEF Goto, TypeOK
<1>4. ASSUME NEW r \in Request, Leave(r)
      PROVE  req' \in [Request -> RequestState]
  BY <1>2, <1>4 DEF Leave, TypeOK
<1>5. ASSUME Fault PROVE faults' \in 0..MaxFaults
  BY <1>5 DEF Fault, TypeOK
<1>6. ASSUME NEW r \in Request, Proceed(r)
      PROVE  /\ req' \in [Request -> RequestState]
             /\ lastActivity' \in Nat /\ lastServed' \in Nat
  <2>1. PICK due \in RefreshDue(req[r].expiry, req[r].since) :
            Goto(r, IF due THEN "exchange" ELSE "handler")
    BY <1>6 DEF Proceed
  <2>2. req' \in [Request -> RequestState]
    BY <2>1, <1>3 DEF Pc
  <2>3. req[r].since \in Nat
    BY DEF TypeOK, RequestState
  <2> QED BY <1>6, <2>2, <2>3 DEF Proceed, Later, TypeOK
<1>7. ASSUME NEW q \in RequestState, CommitRefresh(q) PROVE record' \in Record
  <2>1. q.response \in Nat /\ q.revision + 1 \in Nat
    BY DEF RequestState
  <2>2. WriteDeadline(q.response, now) \in Nat
    BY <2>1, DeadlinesType DEF TypeOK
  <2>3. [present |-> TRUE, revision |-> q.revision + 1, expiry |-> q.response,
         deadline |-> WriteDeadline(q.response, now)] \in Record
    BY <2>1, <2>2 DEF Record
  <2> QED BY <1>7, <2>3 DEF CommitRefresh, TypeOK
<1>8. ASSUME NEW r \in Request, RequestStep(r) PROVE TypeOK'
  <2>1. CASE Load(r)
    <3>1. PICK counts \in Kinds :
            req' = [req EXCEPT ![r] =
                    [pc |-> IF now > ExpireAt THEN "terminate" ELSE "liveness",
                     since |-> now, counts |-> counts, expiry |-> record.expiry,
                     revision |-> record.revision, response |-> 0]]
      BY <2>1 DEF Load
    <3>2. counts \in BOOLEAN
      BY EnvironmentAssumption
    <3>3. record.expiry \in Nat /\ record.revision \in Nat /\ now \in Nat
      BY DEF TypeOK, Record
    <3>4. [pc |-> IF now > ExpireAt THEN "terminate" ELSE "liveness",
           since |-> now, counts |-> counts, expiry |-> record.expiry,
           revision |-> record.revision, response |-> 0] \in RequestState
      BY <3>2, <3>3 DEF RequestState, Pc
    <3>5. req' \in [Request -> RequestState]
      BY <3>1, <3>4 DEF TypeOK
    <3> QED BY <2>1, <3>5 DEF Load, TypeOK, history
  <2>2. CASE LivenessUnreadable(r)
    BY <2>2, <1>5, <1>6 DEF LivenessUnreadable, TypeOK
  <2>3. CASE IdleExpired(r)
    BY <2>3, <1>3 DEF IdleExpired, TypeOK, Pc, history
  <2>4. CASE NothingToRecord(r)
    BY <2>4, <1>6 DEF NothingToRecord, TypeOK
  <2>5. CASE BeginTouch(r)
    BY <2>5, <1>3 DEF BeginTouch, TypeOK, Pc, history
  <2>6. CASE Touch(r)
    <3>1. req[r].since \in Nat /\ req[r].expiry \in Nat
      BY DEF TypeOK, RequestState
    <3>2. EntryDeadline(req[r].expiry, req[r].since) \in Nat
      BY <3>1, DeadlinesType
    <3>3. entry' \in Entry /\ anchor' \in Nat
      BY <2>6, <3>1, <3>2 DEF Touch, Touched, Later, TypeOK, Entry
    <3> QED BY <2>6, <1>6, <3>3 DEF Touch, TypeOK
  <2>7. CASE TouchFails(r)
    BY <2>7, <1>5, <1>6 DEF TouchFails, TypeOK
  <2>8. CASE Terminate(r)
    BY <2>8, <1>2, <1>3 DEF Terminate, TypeOK, Pc, history
  <2>9. CASE TerminateFails(r)
    BY <2>9, <1>4, <1>5 DEF TerminateFails, TypeOK, history
  <2>10. CASE Clear(r)
    BY <2>10, <1>2, <1>4 DEF Clear, TypeOK
  <2>11. CASE ClearFails(r)
    BY <2>11, <1>4, <1>5 DEF ClearFails, TypeOK, history
  <2>12. CASE ExchangeSucceeds(r)
    <3>1. \A q \in RequestState : \A t \in Nat :
            [q EXCEPT !.pc = "commit", !.response = t] \in RequestState
      BY DEF RequestState, Pc
    <3>2. now + TokenLifetime \in Nat
      BY DEF TypeOK
    <3>3. req' = [req EXCEPT ![r] = [req[r] EXCEPT !.pc = "commit",
                                       !.response = now + TokenLifetime]]
      BY <2>12 DEF ExchangeSucceeds, TypeOK, RequestState
    <3>4. [req[r] EXCEPT !.pc = "commit", !.response = now + TokenLifetime]
            \in RequestState
      BY <3>1, <3>2 DEF TypeOK
    <3>5. req' \in [Request -> RequestState]
      BY <3>3, <3>4 DEF TypeOK
    <3> QED BY <2>12, <3>5 DEF ExchangeSucceeds, TypeOK, history
  <2>13. CASE ExchangeFails(r)
    BY <2>13, <1>3, <1>4 DEF ExchangeFails, TypeOK, Pc, history
  <2>14. CASE TokenRejected(r)
    BY <2>14, <1>2, <1>3, <1>4 DEF TokenRejected, TypeOK, Pc, history
  <2>15. CASE Commit(r)
    BY <2>15, <1>3, <1>4, <1>7 DEF Commit, TypeOK, Pc, history
  <2>16. CASE CommitFails(r)
    BY <2>16, <1>3, <1>5 DEF CommitFails, TypeOK, Pc, history
  <2>17. CASE Update(r)
    <3>1. WriteDeadline(record.expiry, now) \in Nat
      BY DeadlinesType DEF TypeOK, Record
    <3>2. record' \in Record
      BY <2>17, <3>1 DEF Update, TypeOK, Record
    <3> QED BY <2>17, <3>2 DEF Update, TypeOK, history
  <2>18. CASE Answer(r)
    <3>1. Later(lastServed, req[r].since) \in Nat
      BY DEF Later, TypeOK, RequestState
    <3> QED BY <2>18, <3>1, <1>4 DEF Answer, TypeOK
  <2>19. CASE AnswerAndPersist(r)
    <3>1. Later(lastServed, req[r].since) \in Nat
      BY DEF Later, TypeOK, RequestState
    <3>2. req[r] \in RequestState
      BY DEF TypeOK
    <3> QED BY <2>19, <3>1, <3>2, <1>4, <1>7 DEF AnswerAndPersist, TypeOK
  <2>20. CASE Drop(r)
    BY <2>20, <1>4, <1>5 DEF Drop, TypeOK, history
  <2> QED BY <1>8, <2>1, <2>2, <2>3, <2>4, <2>5, <2>6, <2>7, <2>8, <2>9, <2>10, <2>11, <2>12,
             <2>13, <2>14, <2>15, <2>16, <2>17, <2>18, <2>19, <2>20 DEF RequestStep
<1>9. CASE RecordReaped
  BY <1>9, <1>2 DEF RecordReaped, TypeOK, history
<1>10. CASE EntryReaped
  BY <1>10, <1>2 DEF EntryReaped, TypeOK, history
<1>11. CASE Tick
  BY <1>11 DEF Tick, TypeOK, history
<1>12. CASE UNCHANGED vars
  BY <1>12 DEF vars, TypeOK, history
<1> QED BY <1>8, <1>9, <1>10, <1>11, <1>12 DEF Next

---------------------------------------------------------------------------
(* Each operation of a request preserves the invariant *)

LEMMA LeaveIsSafe ==
    ASSUME TypeOK, NEW r \in Request, Leave(r)
    PROVE  /\ RequestOK(r)'
           /\ req'[r].pc = "idle"
           /\ \A s \in Request \ {r} : req'[s] = req[s]
<1>1. req'[r] = Idle /\ \A s \in Request \ {r} : req'[s] = req[s]
  BY DEF Leave, TypeOK
<1>2. req'[r].pc = "idle"
  BY <1>1 DEF Idle
<1> QED BY <1>1, <1>2 DEF RequestOK, Young, Refreshed, Observed, Current,
                          Counted, Bounded, Busy

LEMMA GotoIsLocal ==
    ASSUME TypeOK, NEW r \in Request, NEW pc, Goto(r, pc)
    PROVE  /\ \A s \in Request \ {r} : req'[s] = req[s]
           /\ req'[r].pc = pc
           /\ req'[r].since = req[r].since
           /\ req'[r].counts = req[r].counts
           /\ req'[r].expiry = req[r].expiry
           /\ req'[r].revision = req[r].revision
           /\ req'[r].response = req[r].response
BY DEF Goto, TypeOK, RequestState

\* The refresh decision: a request that is served as it came holds a token
\* that expires after its arrival.
LEMMA NotDueIsFresh ==
    ASSUME NEW e \in Nat, NEW at \in Nat, FALSE \in RefreshDue(e, at)
    PROVE  at <= e
<1>1. RefreshMargin - (RefreshMargin \div 4) >= 0
  BY ConstantsType
<1>2. ASSUME ~(at <= e) PROVE RefreshDue(e, at) = {TRUE}
  <2>1. e - at <= RefreshMargin - (RefreshMargin \div 4)
    BY <1>1, <1>2, ConstantsType
  <2> QED BY <2>1 DEF RefreshDue
<1>3. FALSE \notin {TRUE}
  BY Zenon
<1> QED BY <1>2, <1>3

\* check_liveness returned Active: whatever its reason, the request is one
\* that may be served or refreshed, and it is activity if it counts.
LEMMA ProceedIsSafe ==
    ASSUME IInv, TypeOK', NEW r \in Request, req[r].pc \in {"liveness", "touch"},
           Proceed(r), UNCHANGED <<now, record>>
    PROVE  /\ RequestOK(r)'
           /\ req'[r].pc \in {"exchange", "handler"}
           /\ \A s \in Request \ {r} : req'[s] = req[s]
           /\ lastActivity <= lastActivity' /\ lastActivity' <= now
           /\ lastServed' = lastServed
<1> DEFINE q == req[r]
<1> USE ConstantsType
<1>1. /\ q \in RequestState /\ record \in Record
      /\ now \in Nat /\ lastActivity \in Nat /\ lastActivity' \in Nat
  BY DEF IInv, TypeOK
<1>2. PICK due \in RefreshDue(q.expiry, q.since) :
          Goto(r, IF due THEN "exchange" ELSE "handler")
  BY DEF Proceed
<1>3. /\ q.since \in Nat /\ q.expiry \in Nat /\ q.revision \in Nat
      /\ q.counts \in BOOLEAN
  BY <1>1 DEF RequestState
<1>4. Busy(r) /\ RequestOK(r)
  BY DEF Busy, IInv
<1>5. due \in BOOLEAN
  BY <1>2 DEF RefreshDue
<1>6. /\ req'[r].pc = (IF due THEN "exchange" ELSE "handler")
      /\ req'[r].since = q.since /\ req'[r].counts = q.counts
      /\ req'[r].expiry = q.expiry /\ req'[r].revision = q.revision
      /\ \A s \in Request \ {r} : req'[s] = req[s]
  BY <1>2, GotoIsLocal DEF IInv
<1>7. q.since <= now
  BY <1>4 DEF RequestOK, Young
<1>8. /\ lastActivity <= lastActivity' /\ lastActivity' <= now
      /\ q.counts => q.since <= lastActivity'
  BY <1>1, <1>3, <1>7 DEF Proceed, Later, IInv
<1>9. Young(r)' /\ Refreshed(r)' /\ Observed(r)'
  BY <1>4, <1>6 DEF RequestOK, Young, Refreshed, Observed, Busy
<1>10. Current(r)'
  <2> SUFFICES ASSUME req'[r].pc = "handler", record.present
      PROVE  q.since <= record.expiry
    BY <1>6 DEF Current
  <2>1. ~due
    BY <1>6
  <2>2. q.since <= q.expiry
    BY <2>1, <1>2, <1>3, <1>5, NotDueIsFresh
  <2>3. record.revision \in Nat
    BY <1>1 DEF Record
  <2> QED BY <2>2, <2>3, <1>3, <1>4 DEF RequestOK, Observed
<1>11. Counted(r)' /\ Bounded(r)'
  BY <1>4, <1>6, <1>8 DEF RequestOK, Counted, Bounded, Busy
<1> QED BY <1>6, <1>8, <1>9, <1>10, <1>11 DEF RequestOK, Proceed

LEMMA LoadIsSafe ==
    ASSUME IInv, TypeOK', NEW r \in Request, Load(r) PROVE IInv'
<1> USE ConstantsType
<1>1. PICK counts \in Kinds :
        req' = [req EXCEPT ![r] =
                    [pc |-> IF now > ExpireAt THEN "terminate" ELSE "liveness",
                     since |-> now, counts |-> counts, expiry |-> record.expiry,
                     revision |-> record.revision, response |-> 0]]
  BY DEF Load
<1>2. /\ req'[r].pc \in {"terminate", "liveness"} /\ req'[r].since = now
      /\ req'[r].counts = counts /\ req'[r].expiry = record.expiry
      /\ req'[r].revision = record.revision
      /\ \A s \in Request \ {r} : req'[s] = req[s]
  BY <1>1 DEF IInv, TypeOK
<1>3. /\ now \in Nat /\ record.expiry \in Nat /\ record.revision \in Nat
      /\ record.present /\ lastActivity \in Nat /\ faults \in Nat
      /\ lastActivity <= now
  BY DEF IInv, TypeOK, Record, Load
<1>4. /\ UNCHANGED <<now, record, entry, faults, anchor, lastActivity, lastServed>>
  BY DEF Load, history
<1>5. Young(r)' /\ Observed(r)'
  BY <1>2, <1>3, <1>4 DEF IInv, RecordOK, Young, Observed
<1>6. Refreshed(r)' /\ Current(r)' /\ Counted(r)'
  BY <1>2 DEF Refreshed, Current, Counted
<1>7. Bounded(r)'
  BY <1>2, <1>3, <1>4 DEF IInv, PaidFor, Bounded, FailOpenBound
<1>8. RequestOK(r)'
  BY <1>5, <1>6, <1>7 DEF RequestOK
<1> QED BY <1>2, <1>3, <1>4, <1>8, RequestMove

\* A request that goes on without news: towards the end of the session, or to
\* the next step of a refresh that has not reached the record.
LEMMA MoveOnIsSafe ==
    ASSUME IInv, TypeOK', NEW r \in Request, NEW pc, Goto(r, pc),
           \/ req[r].pc = "liveness" /\ pc \in {"touch", "terminate"}
           \/ req[r].pc \in {"terminate", "exchange"} /\ pc = "clear"
           \/ req[r].pc = "commit" /\ pc = "pending" /\ faults' # 0,
           UNCHANGED <<now, entry, history>>,
           record' = record \/ record' = NoRecord,
           faults <= faults'
    PROVE  IInv'
<1> USE ConstantsType
<1>1. /\ req'[r].pc = pc
      /\ req'[r].since = req[r].since /\ req'[r].counts = req[r].counts
      /\ req'[r].expiry = req[r].expiry /\ req'[r].revision = req[r].revision
      /\ req'[r].response = req[r].response
      /\ \A s \in Request \ {r} : req'[s] = req[s]
  BY GotoIsLocal DEF IInv
<1>2. Busy(r) /\ RequestOK(r)
  BY DEF Busy, IInv
<1>3. UNCHANGED <<now, entry, anchor, lastActivity, lastServed>>
  BY DEF history
<1>4. record'.present => record' = record
  BY DEF NoRecord
<1>5. Young(r)' /\ Refreshed(r)' /\ Observed(r)' /\ Current(r)'
  BY <1>1, <1>2, <1>3, <1>4
     DEF RequestOK, Young, Refreshed, Observed, Current, Busy
<1>6. Counted(r)' /\ Bounded(r)'
  BY <1>1, <1>2, <1>3 DEF RequestOK, Counted, Bounded, FailOpenBound, Busy
<1>7. RequestOK(r)'
  BY <1>5, <1>6 DEF RequestOK
<1>8. lastActivity <= lastActivity' /\ lastActivity' <= now
  BY <1>3 DEF IInv, TypeOK
<1> QED BY <1>1, <1>3, <1>7, <1>8, RequestMove

\* A request that ends without touching deadlines or history.
LEMMA EndIsSafe ==
    ASSUME IInv, TypeOK', NEW r \in Request, Leave(r),
           UNCHANGED <<now, entry, history>>,
           record' = record \/ record' = NoRecord,
           faults <= faults'
    PROVE  IInv'
<1>1. /\ RequestOK(r)' /\ req'[r].pc = "idle"
      /\ \A s \in Request \ {r} : req'[s] = req[s]
  BY LeaveIsSafe DEF IInv
<1>2. /\ UNCHANGED <<now, entry, anchor, lastActivity, lastServed>>
      /\ lastActivity <= lastActivity' /\ lastActivity' <= now
  BY DEF history, IInv, TypeOK
<1> QED BY <1>1, <1>2, RequestMove

LEMMA ExchangeIsSafe ==
    ASSUME IInv, TypeOK', NEW r \in Request, ExchangeSucceeds(r) PROVE IInv'
<1> USE ConstantsType
<1>1. /\ req'[r].pc = "commit" /\ req'[r].response = now + TokenLifetime
      /\ req'[r].since = req[r].since /\ req'[r].counts = req[r].counts
      /\ req'[r].expiry = req[r].expiry /\ req'[r].revision = req[r].revision
      /\ \A s \in Request \ {r} : req'[s] = req[s]
  BY DEF ExchangeSucceeds, IInv, TypeOK, RequestState
<1>2. Busy(r) /\ RequestOK(r) /\ req[r].pc = "exchange"
  BY DEF Busy, IInv, ExchangeSucceeds
<1>3. UNCHANGED <<now, record, entry, faults, anchor, lastActivity, lastServed>>
  BY DEF ExchangeSucceeds, history
<1>4. now \in Nat /\ req[r].since \in Nat /\ faults \in Nat /\ lastActivity \in Nat
  BY DEF IInv, TypeOK, RequestState
<1>5. Refreshed(r)'
  <2>1. req[r].since <= now /\ now <= req[r].since + Latency
    BY <1>2 DEF RequestOK, Young
  <2> QED BY <1>1, <1>3, <1>4, <2>1 DEF Refreshed
<1>6. Young(r)' /\ Observed(r)' /\ Current(r)' /\ Counted(r)' /\ Bounded(r)'
  BY <1>1, <1>2, <1>3
     DEF RequestOK, Young, Observed, Current, Counted, Bounded, Busy
<1>7. lastActivity <= lastActivity' /\ lastActivity' <= now /\ faults <= faults'
  BY <1>3, <1>4 DEF IInv
<1>8. RequestOK(r)'
  BY <1>5, <1>6 DEF RequestOK
<1> QED BY <1>1, <1>3, <1>7, <1>8, RequestMove

\* Served without a write, because the token at hand, or the one another
\* request stored, is still valid.
LEMMA ServeIsSafe ==
    ASSUME IInv, TypeOK', NEW r \in Request, Goto(r, "handler"),
           req[r].pc \in {"exchange", "commit"},
           UNCHANGED <<now, record, entry, faults, history>>,
           record.present => req[r].since <= record.expiry
    PROVE  IInv'
<1>1. /\ req'[r].pc = "handler"
      /\ req'[r].since = req[r].since /\ req'[r].counts = req[r].counts
      /\ req'[r].expiry = req[r].expiry /\ req'[r].revision = req[r].revision
      /\ \A s \in Request \ {r} : req'[s] = req[s]
  BY GotoIsLocal DEF IInv
<1>2. Busy(r) /\ RequestOK(r)
  BY DEF Busy, IInv
<1>3. UNCHANGED <<now, record, entry, faults, anchor, lastActivity, lastServed>>
  BY DEF history
<1>4. RequestOK(r)'
  BY <1>1, <1>2, <1>3
     DEF RequestOK, Young, Refreshed, Observed, Current, Counted, Bounded, Busy
<1>5. lastActivity <= lastActivity' /\ lastActivity' <= now /\ faults <= faults'
  BY <1>3 DEF IInv, TypeOK
<1> QED BY <1>1, <1>3, <1>4, <1>5, RequestMove

\* A refresh replaces the stored one.
LEMMA RefreshStored ==
    ASSUME IInv, TypeOK', NEW r \in Request, req[r].pc \in {"commit", "pending"},
           record.present, record.revision = req[r].revision, CommitRefresh(req[r]),
           UNCHANGED <<now, lastActivity>>,
           \A s \in Request \ {r} : req'[s] = req[s]
    PROVE  /\ record'.present /\ record'.revision = req[r].revision + 1
           /\ record'.expiry = req[r].response /\ now <= record'.expiry
           /\ req[r].since <= record'.expiry
           /\ record'.deadline
                <= Earlier(ExpireAt, record'.expiry + Latency + IdleTimeout)
           /\ \A s \in Request \ {r} : RequestOK(s)'
           /\ RecordOK' /\ PaidFor'
<1> DEFINE q == req[r]
<1> USE ConstantsType
<1>1. /\ q \in RequestState /\ record \in Record
      /\ now \in Nat /\ lastActivity \in Nat
  BY DEF IInv, TypeOK
<1>2. q.since \in Nat /\ q.response \in Nat /\ q.revision \in Nat /\ q.counts \in BOOLEAN
  BY <1>1 DEF RequestState
<1>3. /\ record'.present /\ record'.revision = q.revision + 1
      /\ record'.expiry = q.response
      /\ record'.deadline = WriteDeadline(q.response, now)
  BY DEF CommitRefresh
<1>4. Busy(r) /\ RequestOK(r)
  BY DEF Busy, IInv
<1>5. /\ q.since <= now /\ now <= q.since + Latency
      /\ q.since + TokenLifetime <= q.response
      /\ q.response <= q.since + Latency + TokenLifetime
  BY <1>4 DEF RequestOK, Young, Refreshed
<1>6. now <= q.response /\ q.since <= q.response /\ 0 < q.response
  BY <1>1, <1>2, <1>5
<1>7. \A s \in Request \ {r} : RequestOK(s)'
  <2> TAKE s \in Request \ {r}
  <2>1. RecordMoves
    BY <1>3, <1>6 DEF RecordMoves
  <2>2. lastActivity <= lastActivity'
    BY <1>1
  <2> QED BY <2>1, <2>2, OthersStable
<1>8. WriteDeadline(q.response, now) = Earlier(ExpireAt, q.response + IdleTimeout)
  BY <1>1, <1>2, <1>6 DEF WriteDeadline, Later
<1>9. record'.deadline <= Earlier(ExpireAt, record'.expiry + Latency + IdleTimeout)
  BY <1>2, <1>3, <1>8 DEF Earlier
<1>10. RecordOK'
  <2>1. q.response <= now + TokenLifetime
    BY <1>4 DEF RequestOK, Refreshed
  <2>2. Earlier(ExpireAt, q.response + IdleTimeout) \in Nat
    BY <1>2 DEF Earlier
  <2> QED BY <1>3, <1>6, <1>8, <2>1, <2>2 DEF RecordOK
<1>11. PaidFor'
  <2>1. AllActivity => q.counts
    BY <1>4 DEF RequestOK, Counted, AllActivity
  <2>2. SUFFICES ASSUME AllActivity PROVE PaidFor!2'
    BY DEF PaidFor, AllActivity
  <2>3. q.since <= lastActivity
    BY <1>4, <2>1, <2>2 DEF RequestOK, Counted
  <2>4. now <= FailOpenBound
    BY <2>2 DEF IInv, PaidFor
  <2>5. q.response <= lastActivity + Latency + TokenLifetime
    BY <1>1, <1>2, <1>5, <2>3
  <2>6. record'.deadline <= q.response + IdleTimeout
    BY <1>2, <1>3, <1>8 DEF Earlier
  <2>7. record'.deadline \in Nat
    BY DEF TypeOK, Record
  <2>8. FailOpenBound' = FailOpenBound
    BY DEF FailOpenBound
  <2> QED BY <1>1, <1>2, <1>3, <2>4, <2>5, <2>6, <2>7, <2>8
<1> QED BY <1>3, <1>6, <1>7, <1>9, <1>10, <1>11

LEMMA CommitIsSafe ==
    ASSUME IInv, TypeOK', NEW r \in Request, Commit(r) PROVE IInv'
<1> DEFINE q == req[r]
<1> USE ConstantsType
<1>1. /\ q.pc = "commit" /\ CommitRefresh(q)
      /\ UNCHANGED <<now, entry, faults, history>>
      /\ UNCHANGED <<anchor, lastActivity, lastServed>>
  BY DEF Commit, history
<1>2. /\ now \in Nat /\ lastActivity \in Nat /\ faults \in Nat /\ lastServed \in Nat
      /\ q \in RequestState /\ record \in Record
  BY DEF IInv, TypeOK
<1>3. Busy(r) /\ RequestOK(r)
  BY <1>1 DEF Busy, IInv
<1>4. CASE ~record.present
  BY <1>1, <1>2, <1>4, EndIsSafe DEF Commit, CommitRefresh
<1>5. CASE record.present /\ record.revision # q.revision
  <2>1. q.revision \in Nat /\ record.revision \in Nat
    BY <1>2 DEF RequestState, Record
  <2>2. q.since <= record.expiry
    BY <1>3, <1>5, <2>1 DEF RequestOK, Observed
  <2>3. Goto(r, "handler") /\ record' = record
    BY <1>1, <1>5 DEF Commit, CommitRefresh
  <2> QED BY <1>1, <2>2, <2>3, ServeIsSafe
<1>6. CASE record.present /\ record.revision = q.revision
  <2>1. Goto(r, "handler")
    BY <1>6 DEF Commit
  <2>2. /\ req'[r].pc = "handler"
        /\ req'[r].since = q.since /\ req'[r].counts = q.counts
        /\ req'[r].expiry = q.expiry /\ req'[r].revision = q.revision
        /\ \A s \in Request \ {r} : req'[s] = req[s]
    BY <2>1, GotoIsLocal DEF IInv
  <2>3. /\ record'.present /\ record'.revision = q.revision + 1
        /\ record'.expiry = q.response /\ now <= record'.expiry
        /\ q.since <= record'.expiry
        /\ record'.deadline
             <= Earlier(ExpireAt, record'.expiry + Latency + IdleTimeout)
        /\ \A s \in Request \ {r} : RequestOK(s)'
        /\ RecordOK' /\ PaidFor'
    BY <1>1, <1>6, <2>2, RefreshStored
  <2>4. RequestOK(r)'
    <3>1. q.revision \in Nat
      BY <1>2 DEF RequestState
    <3> QED BY <1>1, <1>3, <2>2, <2>3, <3>1
               DEF RequestOK, Young, Refreshed, Observed, Current, Counted, Bounded, Busy
  <2>5. EntryOK'
    BY <1>1 DEF IInv, EntryOK
  <2>6. NothingFailed'
    <3>1. lastServed <= record'.expiry
      <4>1. record'.expiry \in Nat
        BY DEF TypeOK, Record
      <4> QED BY <1>2, <2>3, <4>1 DEF IInv
    <3>2. faults = 0 => \A s \in Request : req'[s].pc # "pending"
      BY <2>2 DEF IInv, NothingFailed
    <3> QED BY <1>1, <2>3, <3>1, <3>2 DEF NothingFailed
  <2> QED BY <1>1, <2>3, <2>4, <2>5, <2>6 DEF IInv
<1> QED BY <1>4, <1>5, <1>6

LEMMA UpdateIsSafe ==
    ASSUME IInv, TypeOK', NEW r \in Request, Update(r) PROVE IInv'
<1> DEFINE q == req[r]
<1> USE ConstantsType
<1>1. /\ q.pc \in {"handler", "pending"} /\ record.present
      /\ UNCHANGED <<now, entry, req, faults, anchor, lastActivity, lastServed>>
  BY DEF Update, history
<1>2. /\ now \in Nat /\ lastActivity \in Nat /\ faults \in Nat /\ lastServed \in Nat
      /\ q \in RequestState /\ record \in Record /\ record' \in Record
  BY DEF IInv, TypeOK
<1>3. /\ record'.present /\ record'.revision = record.revision
      /\ record'.expiry = record.expiry
      /\ record'.deadline = WriteDeadline(record.expiry, now)
  BY <1>1, <1>2 DEF Update, Record
<1>4. /\ record.expiry \in Nat /\ q.since \in Nat /\ q.counts \in BOOLEAN
  BY <1>2 DEF Record, RequestState
<1>5. Busy(r) /\ RequestOK(r)
  BY <1>1 DEF Busy, IInv
<1>6. now <= q.since + Latency
  BY <1>5 DEF RequestOK, Young
<1>7. \A s \in Request : RequestOK(s)'
  <2> TAKE s \in Request
  <2>1. RecordMoves
    BY <1>1, <1>3 DEF RecordMoves
  <2>2. lastActivity <= lastActivity' /\ req'[s] = req[s] /\ now' = now
    BY <1>1, <1>2
  <2> QED BY <2>1, <2>2, OthersStable
<1>8. RecordOK'
  <2>1. Earlier(ExpireAt, record.expiry + IdleTimeout) <= WriteDeadline(record.expiry, now)
    BY <1>2, <1>4 DEF WriteDeadline, Earlier, Later
  <2> QED BY <1>1, <1>3, <2>1 DEF IInv, RecordOK
<1>9. PaidFor'
  <2> SUFFICES ASSUME AllActivity PROVE PaidFor!2'
    BY DEF PaidFor, AllActivity
  <2>1. q.counts
    BY <1>5 DEF RequestOK, Counted, AllActivity
  <2>2. q.since <= lastActivity
    BY <1>1, <1>5, <2>1 DEF RequestOK, Counted
  <2>3. now <= lastActivity + Latency + TokenLifetime
    BY <1>2, <1>4, <1>6, <2>2
  <2>4. record.expiry <= lastActivity + Latency + TokenLifetime /\ now <= FailOpenBound
    BY <1>1 DEF IInv, PaidFor
  <2>5. WriteDeadline(record.expiry, now)
           <= lastActivity + Latency + TokenLifetime + IdleTimeout
    BY <1>2, <1>4, <2>3, <2>4 DEF WriteDeadline, Earlier, Later
  <2>6. FailOpenBound' = FailOpenBound
    BY <1>1 DEF FailOpenBound
  <2> QED BY <1>1, <1>3, <2>4, <2>5, <2>6
<1>10. EntryOK'
  BY <1>1 DEF IInv, EntryOK
<1>11. NothingFailed'
  <2> SUFFICES ASSUME faults = 0 PROVE NothingFailed!2'
    BY <1>1 DEF NothingFailed
  <2>1. \A s \in Request : req'[s].pc # "pending"
    BY <1>1 DEF IInv, NothingFailed
  <2>2. q.since <= record.expiry
    BY <1>1, <1>5, <2>1 DEF RequestOK, Current
  <2>3. now <= record.expiry + Latency
    BY <1>2, <1>4, <1>6, <2>2
  <2>4. WriteDeadline(record.expiry, now)
           <= Earlier(ExpireAt, record.expiry + Latency + IdleTimeout)
    BY <1>2, <1>4, <2>3 DEF WriteDeadline, Earlier, Later
  <2>5. lastServed <= record.expiry
    BY <1>1 DEF IInv, NothingFailed
  <2> QED BY <1>1, <1>3, <2>1, <2>4, <2>5
<1> QED BY <1>1, <1>7, <1>8, <1>9, <1>10, <1>11 DEF IInv

\* The answer: the request is history, and so is its service.
LEMMA AnswerIsSafe ==
    ASSUME IInv, TypeOK', NEW r \in Request, Answer(r) PROVE IInv'
<1> USE ConstantsType
<1>1. /\ RequestOK(r)' /\ req'[r].pc = "idle"
      /\ \A s \in Request \ {r} : req'[s] = req[s]
  BY LeaveIsSafe DEF IInv, Answer
<1>2. /\ UNCHANGED <<now, record, entry, faults, anchor, lastActivity>>
      /\ lastServed' = Later(lastServed, req[r].since) /\ req[r].pc = "handler"
  BY DEF Answer
<1>3. /\ now \in Nat /\ lastActivity \in Nat /\ faults \in Nat /\ lastServed \in Nat
      /\ req[r].since \in Nat
  BY DEF IInv, TypeOK, RequestState
<1>4. Busy(r) /\ RequestOK(r)
  BY <1>2 DEF Busy, IInv
<1>5. \A s \in Request : RequestOK(s)'
  <2> TAKE s \in Request
  <2>1. RecordMoves /\ lastActivity <= lastActivity' /\ now' = now
    BY <1>2, <1>3 DEF RecordMoves
  <2>2. CASE s = r
    BY <1>1, <2>2
  <2>3. CASE s # r
    BY <1>1, <2>1, <2>3, OthersStable
  <2> QED BY <2>2, <2>3
<1>6. RecordOK' /\ PaidFor' /\ EntryOK'
  BY <1>2 DEF IInv, RecordOK, PaidFor, EntryOK, FailOpenBound
<1>7. lastServed' <= now' /\ lastActivity' <= now'
  BY <1>2, <1>3, <1>4 DEF IInv, Later, RequestOK, Young
<1>8. NothingFailed'
  <2> SUFFICES ASSUME faults = 0 PROVE NothingFailed!2'
    BY <1>2 DEF NothingFailed
  <2>1. \A s \in Request : req'[s].pc # "pending"
    BY <1>1 DEF IInv, NothingFailed
  <2>2. record.present => lastServed' <= record.expiry
    BY <1>2, <1>4 DEF IInv, NothingFailed, RequestOK, Current, Later
  <2> QED BY <1>2, <2>1, <2>2 DEF IInv, NothingFailed
<1> QED BY <1>5, <1>6, <1>7, <1>8 DEF IInv

\* The persist owed after the answer; something has failed before.
LEMMA PersistIsSafe ==
    ASSUME IInv, TypeOK', NEW r \in Request, AnswerAndPersist(r) PROVE IInv'
<1> DEFINE q == req[r]
<1> USE ConstantsType
<1>1. /\ RequestOK(r)' /\ req'[r].pc = "idle"
      /\ \A s \in Request \ {r} : req'[s] = req[s]
  BY LeaveIsSafe DEF IInv, AnswerAndPersist
<1>2. /\ UNCHANGED <<now, entry, faults, anchor, lastActivity>>
      /\ lastServed' = Later(lastServed, q.since) /\ q.pc = "pending"
      /\ CommitRefresh(q)
  BY DEF AnswerAndPersist
<1>3. /\ now \in Nat /\ lastActivity \in Nat /\ faults \in Nat /\ lastServed \in Nat
      /\ q.since \in Nat
  BY DEF IInv, TypeOK, RequestState
<1>4. Busy(r) /\ RequestOK(r)
  BY <1>2 DEF Busy, IInv
<1>5. /\ \A s \in Request \ {r} : RequestOK(s)'
      /\ RecordOK' /\ PaidFor'
  <2>1. CASE record.present /\ record.revision = q.revision
    BY <1>1, <1>2, <2>1, RefreshStored
  <2>2. CASE ~(record.present /\ record.revision = q.revision)
    <3>1. record' = record
      BY <1>2, <2>2 DEF CommitRefresh
    <3>2. RecordMoves /\ lastActivity <= lastActivity' /\ now' = now
      BY <1>2, <1>3, <3>1 DEF RecordMoves
    <3>3. RecordOK' /\ PaidFor'
      BY <1>2, <3>1 DEF IInv, RecordOK, PaidFor, FailOpenBound
    <3> QED BY <1>1, <3>2, <3>3, OthersStable
  <2> QED BY <2>1, <2>2
<1>6. EntryOK'
  BY <1>2 DEF IInv, EntryOK
<1>7. lastServed' <= now' /\ lastActivity' <= now'
  BY <1>2, <1>3, <1>4 DEF IInv, Later, RequestOK, Young
<1>8. faults # 0
  BY <1>2 DEF IInv, NothingFailed
<1>9. NothingFailed'
  BY <1>2, <1>8 DEF NothingFailed
<1> QED BY <1>1, <1>5, <1>6, <1>7, <1>9 DEF IInv

LEMMA TouchIsSafe ==
    ASSUME IInv, TypeOK', NEW r \in Request, Touch(r) PROVE IInv'
<1> DEFINE q == req[r]
<1> USE ConstantsType
<1>1. /\ q.pc = "touch" /\ Proceed(r) /\ UNCHANGED <<now, record, faults>>
      /\ entry' = Touched(q.since, EntryDeadline(q.expiry, q.since))
      /\ anchor' = IF entry.present THEN Later(anchor, q.expiry) ELSE q.expiry
  BY DEF Touch
<1>2. /\ RequestOK(r)' /\ req'[r].pc \in {"exchange", "handler"}
      /\ \A s \in Request \ {r} : req'[s] = req[s]
      /\ lastActivity <= lastActivity' /\ lastActivity' <= now
      /\ lastServed' = lastServed
  BY <1>1, ProceedIsSafe
<1>3. /\ q.since \in Nat /\ q.expiry \in Nat /\ anchor \in Nat /\ entry \in Entry
  BY DEF IInv, TypeOK, RequestState
<1>4. EntryOK'
  <2>1. /\ Earlier(ExpireAt, q.expiry + IdleTimeout) <= EntryDeadline(q.expiry, q.since)
        /\ EntryDeadline(q.expiry, q.since) \in Nat
    BY <1>3 DEF EntryDeadline, Earlier, Later
  <2>2. entry'.present
    BY <1>1 DEF Touched
  <2>3. CASE ~entry.present
    <3>1. /\ anchor' = q.expiry
          /\ entry'.deadline = EntryDeadline(q.expiry, q.since)
      BY <1>1, <2>3 DEF Touched
    <3> QED BY <2>1, <2>2, <3>1 DEF EntryOK
  <2>4. CASE entry.present
    <3>1. /\ anchor' = Later(anchor, q.expiry)
          /\ entry'.deadline = Later(entry.deadline, EntryDeadline(q.expiry, q.since))
      BY <1>1, <2>4 DEF Touched
    <3>2. entry.deadline \in Nat /\ Earlier(ExpireAt, anchor + IdleTimeout) <= entry.deadline
      BY <1>3, <2>4 DEF IInv, EntryOK, Entry
    <3>3. Earlier(ExpireAt, anchor' + IdleTimeout) <= entry'.deadline
      BY <1>3, <2>1, <3>1, <3>2 DEF Earlier, Later
    <3> QED BY <2>2, <3>3 DEF EntryOK
  <2> QED BY <2>3, <2>4
<1>6. \A s \in Request : RequestOK(s)'
  <2> TAKE s \in Request
  <2>1. RecordMoves
    BY <1>1 DEF RecordMoves
  <2>2. CASE s = r
    BY <1>2, <2>2
  <2>3. CASE s # r
    BY <1>1, <1>2, <2>1, <2>3, OthersStable
  <2> QED BY <2>2, <2>3
<1>7. RecordOK' /\ lastServed' <= now' /\ lastActivity' <= now'
  BY <1>1, <1>2 DEF IInv, RecordOK
<1>8. PaidFor'
  <2>1. lastActivity \in Nat /\ lastActivity' \in Nat /\ now \in Nat /\ record \in Record
    BY DEF IInv, TypeOK
  <2>2. /\ FailOpenBound <= FailOpenBound'
        /\ FailOpenBound \in Nat /\ FailOpenBound' \in Nat
    BY <1>2, <2>1, BoundGrows DEF FailOpenBound
  <2> SUFFICES ASSUME AllActivity, record.present PROVE PaidFor!2'
    BY <1>1 DEF PaidFor, AllActivity
  <2>3. /\ record.expiry <= lastActivity + Latency + TokenLifetime
        /\ record.deadline <= lastActivity + Latency + TokenLifetime + IdleTimeout
        /\ now <= FailOpenBound
    BY DEF IInv, PaidFor
  <2>4. record.expiry \in Nat /\ record.deadline \in Nat
    BY <2>1 DEF Record
  <2> QED BY <1>1, <1>2, <2>1, <2>2, <2>3, <2>4
<1>9. NothingFailed'
  <2> SUFFICES ASSUME faults = 0 PROVE NothingFailed!2'
    BY <1>1 DEF NothingFailed
  <2>1. \A s \in Request : req'[s].pc # "pending"
    BY <1>2 DEF IInv, NothingFailed
  <2> QED BY <1>1, <1>2, <2>1 DEF IInv, NothingFailed
<1> QED BY <1>4, <1>6, <1>7, <1>8, <1>9 DEF IInv

LEMMA ClearIsSafe ==
    ASSUME IInv, TypeOK', NEW r \in Request, Clear(r) PROVE IInv'
<1>1. /\ RequestOK(r)' /\ req'[r].pc = "idle"
      /\ \A s \in Request \ {r} : req'[s] = req[s]
  BY LeaveIsSafe DEF IInv, Clear
<1>2. /\ UNCHANGED <<now, record, faults, lastActivity, lastServed>>
      /\ entry' = NoEntry /\ anchor' = 0
  BY DEF Clear
<1>3. \A s \in Request : RequestOK(s)'
  <2> TAKE s \in Request
  <2>1. RecordMoves /\ lastActivity <= lastActivity'
    BY <1>2 DEF RecordMoves, IInv, TypeOK
  <2>2. CASE s = r
    BY <1>1, <2>2
  <2>3. CASE s # r
    BY <1>1, <1>2, <2>1, <2>3, OthersStable
  <2> QED BY <2>2, <2>3
<1>4. EntryOK'
  BY <1>2 DEF EntryOK, NoEntry
<1>5. RecordOK' /\ PaidFor'
  BY <1>2 DEF IInv, RecordOK, PaidFor, FailOpenBound
<1>6. NothingFailed'
  BY <1>1, <1>2 DEF IInv, NothingFailed
<1> QED BY <1>2, <1>3, <1>4, <1>5, <1>6 DEF IInv

---------------------------------------------------------------------------
(* The backends and the clock preserve the invariant *)

LEMMA RecordReapedIsSafe ==
    ASSUME IInv, TypeOK', RecordReaped PROVE IInv'
<1>1. /\ record' = NoRecord /\ ~record'.present
      /\ UNCHANGED <<now, entry, req, faults, anchor, lastActivity, lastServed>>
  BY DEF RecordReaped, NoRecord, history
<1>2. \A s \in Request : RequestOK(s)'
  <2> TAKE s \in Request
  <2>1. RecordMoves /\ lastActivity <= lastActivity'
    BY <1>1 DEF RecordMoves, IInv, TypeOK
  <2> QED BY <1>1, <2>1, OthersStable
<1>3. RecordOK' /\ PaidFor' /\ EntryOK' /\ NothingFailed'
  BY <1>1 DEF IInv, RecordOK, PaidFor, EntryOK, NothingFailed
<1> QED BY <1>1, <1>2, <1>3 DEF IInv

LEMMA EntryReapedIsSafe ==
    ASSUME IInv, TypeOK', EntryReaped PROVE IInv'
<1> USE ConstantsType
<1>1. /\ entry' = NoEntry /\ ~entry'.present
      /\ entry.present /\ now >= entry.deadline
      /\ UNCHANGED <<now, record, req, faults, anchor, lastActivity, lastServed>>
  BY DEF EntryReaped, NoEntry, history
<1>2. \A s \in Request : RequestOK(s)'
  <2> TAKE s \in Request
  <2>1. RecordMoves /\ lastActivity <= lastActivity'
    BY <1>1 DEF RecordMoves, IInv, TypeOK
  <2> QED BY <1>1, <2>1, OthersStable
<1>3. EntryOK'
  <2>1. now \in Nat /\ entry.deadline \in Nat /\ anchor \in Nat
    BY DEF IInv, TypeOK, Entry
  <2> QED BY <1>1, <2>1 DEF IInv, EntryOK, Earlier
<1>4. RecordOK' /\ PaidFor' /\ NothingFailed'
  BY <1>1 DEF IInv, RecordOK, PaidFor, FailOpenBound, NothingFailed
<1> QED BY <1>1, <1>2, <1>3, <1>4 DEF IInv

LEMMA TickIsSafe ==
    ASSUME IInv, TypeOK', Tick PROVE IInv'
<1> USE ConstantsType
<1>1. /\ now' = now + 1
      /\ UNCHANGED <<record, entry, req, faults, anchor, lastActivity, lastServed>>
      /\ \A r \in Request : req[r].pc # "idle" => now < req[r].since + Latency
      /\ record.present => now < record.deadline + ReapLag
  BY DEF Tick, history
<1>2. /\ now \in Nat /\ record \in Record /\ anchor \in Nat
      /\ lastActivity \in Nat /\ lastServed \in Nat
  BY DEF IInv, TypeOK
<1>3. \A s \in Request : RequestOK(s)'
  <2> TAKE s \in Request
  <2>1. RequestOK(s) /\ req[s] \in RequestState
    BY DEF IInv, TypeOK
  <2>2. req[s].since \in Nat /\ req[s].expiry \in Nat /\ req[s].response \in Nat
    BY <2>1 DEF RequestState
  <2>3. Young(s)' /\ Refreshed(s)'
    BY <1>1, <1>2, <2>1, <2>2 DEF RequestOK, Young, Refreshed, Busy
  <2>4. Observed(s)' /\ Current(s)' /\ Counted(s)' /\ Bounded(s)'
    BY <1>1, <2>1
       DEF RequestOK, Observed, Current, Counted, Bounded, FailOpenBound, Busy
  <2> QED BY <2>3, <2>4 DEF RequestOK
<1>4. RecordOK' /\ lastServed' <= now' /\ lastActivity' <= now'
  <2>1. record.expiry \in Nat
    BY <1>2 DEF Record
  <2> QED BY <1>1, <1>2, <2>1 DEF IInv, RecordOK
<1>5. PaidFor'
  <2> SUFFICES ASSUME AllActivity, record.present PROVE PaidFor!2'
    BY <1>1 DEF PaidFor, AllActivity
  <2>1. record.deadline \in Nat
    BY <1>2 DEF Record
  <2>2. /\ record.expiry <= lastActivity + Latency + TokenLifetime
        /\ record.deadline <= lastActivity + Latency + TokenLifetime + IdleTimeout
    BY DEF IInv, PaidFor
  <2>3. now + 1 <= FailOpenBound
    BY <1>1, <1>2, <2>1, <2>2 DEF FailOpenBound
  <2> QED BY <1>1, <2>2, <2>3 DEF FailOpenBound
<1>6. EntryOK'
  BY <1>1, <1>2 DEF IInv, EntryOK, Earlier
<1>7. NothingFailed'
  BY <1>1 DEF IInv, NothingFailed
<1> QED BY <1>3, <1>4, <1>5, <1>6, <1>7 DEF IInv

---------------------------------------------------------------------------
(* The theorems *)

LEMMA RequestStepIsSafe ==
    ASSUME IInv, TypeOK', NEW r \in Request, RequestStep(r) PROVE IInv'
<1>1. IInv /\ TypeOK
  BY DEF IInv
<1>2. faults \in Nat /\ (Fault => faults <= faults' /\ faults' # 0)
  BY <1>1 DEF TypeOK, Fault
<1>4. ASSUME Proceed(r), req[r].pc \in {"liveness", "touch"}, faults <= faults',
             UNCHANGED <<now, record, entry, anchor>>
      PROVE  IInv'
  <2>1. /\ RequestOK(r)' /\ req'[r].pc \in {"exchange", "handler"}
        /\ \A s \in Request \ {r} : req'[s] = req[s]
        /\ lastActivity <= lastActivity' /\ lastActivity' <= now
        /\ lastServed' = lastServed
    BY <1>4, ProceedIsSafe
  <2> QED BY <1>4, <2>1, RequestMove
<1>5. CASE Load(r)
  BY <1>5, LoadIsSafe
<1>6. CASE LivenessUnreadable(r)
  BY <1>2, <1>4, <1>6 DEF LivenessUnreadable
<1>7. CASE IdleExpired(r)
  BY <1>2, <1>7, MoveOnIsSafe DEF IdleExpired
<1>8. CASE NothingToRecord(r)
  BY <1>2, <1>4, <1>8 DEF NothingToRecord
<1>9. CASE BeginTouch(r)
  BY <1>2, <1>9, MoveOnIsSafe DEF BeginTouch
<1>10. CASE Touch(r)
  BY <1>10, TouchIsSafe
<1>11. CASE TouchFails(r)
  BY <1>2, <1>4, <1>11 DEF TouchFails
<1>12. CASE Terminate(r)
  BY <1>2, <1>12, MoveOnIsSafe DEF Terminate
<1>13. CASE TerminateFails(r)
  BY <1>2, <1>13, EndIsSafe DEF TerminateFails
<1>14. CASE Clear(r)
  BY <1>14, ClearIsSafe
<1>15. CASE ClearFails(r)
  BY <1>2, <1>15, EndIsSafe DEF ClearFails
<1>16. CASE ExchangeSucceeds(r)
  BY <1>16, ExchangeIsSafe
<1>17. CASE ExchangeFails(r)
  <2>1. /\ req[r].pc = "exchange" /\ faults <= faults'
        /\ UNCHANGED <<now, record, entry, faults, history>>
    BY <1>2, <1>17 DEF ExchangeFails
  <2>2. CASE now < req[r].expiry
    <3>1. Goto(r, "handler")
      BY <1>17, <2>2 DEF ExchangeFails
    <3>2. record.present => req[r].since <= record.expiry
      <4>1. RequestOK(r) /\ Busy(r)
        BY <2>1 DEF IInv, Busy
      <4>2. /\ req[r].since \in Nat /\ req[r].expiry \in Nat /\ now \in Nat
            /\ req[r].revision \in Nat /\ record.revision \in Nat
            /\ record.expiry \in Nat
        BY <1>1 DEF TypeOK, RequestState, Record
      <4>3. req[r].since <= req[r].expiry
        BY <2>2, <4>1, <4>2 DEF RequestOK, Young
      <4> QED BY <4>1, <4>2, <4>3 DEF RequestOK, Observed
    <3> QED BY <2>1, <3>1, <3>2, ServeIsSafe
  <2>3. CASE ~(now < req[r].expiry)
    <3>1. Leave(r)
      BY <1>17, <2>3 DEF ExchangeFails
    <3> QED BY <2>1, <3>1, EndIsSafe
  <2> QED BY <2>2, <2>3
<1>18. CASE TokenRejected(r)
  <2>1. /\ req[r].pc = "exchange" /\ faults <= faults'
        /\ UNCHANGED <<now, entry, faults, history>>
    BY <1>2, <1>18 DEF TokenRejected
  <2>2. CASE record.present /\ record.revision # req[r].revision
    <3>1. record' = record
      BY <1>18, <2>2 DEF TokenRejected
    <3>2. CASE now < record.expiry
      <4>1. Goto(r, "handler")
        BY <1>18, <2>2, <3>2 DEF TokenRejected
      <4>2. req[r].since <= record.expiry
        <5>1. RequestOK(r) /\ Busy(r)
          BY <2>1 DEF IInv, Busy
        <5>2. req[r].since \in Nat /\ now \in Nat /\ record.expiry \in Nat
          BY <1>1 DEF TypeOK, RequestState, Record
        <5> QED BY <3>2, <5>1, <5>2 DEF RequestOK, Young
      <4> QED BY <2>1, <3>1, <4>1, <4>2, ServeIsSafe
    <3>3. CASE ~(now < record.expiry)
      <4>1. Leave(r)
        BY <1>18, <2>2, <3>3 DEF TokenRejected
      <4> QED BY <2>1, <3>1, <4>1, EndIsSafe
    <3> QED BY <3>2, <3>3
  <2>3. CASE ~(record.present /\ record.revision # req[r].revision)
    <3>1. record' = NoRecord /\ IF record.present THEN Goto(r, "clear") ELSE Leave(r)
      BY <1>18, <2>3 DEF TokenRejected
    <3> QED BY <2>1, <3>1, EndIsSafe, MoveOnIsSafe
  <2> QED BY <2>2, <2>3
<1>19. CASE Commit(r)
  BY <1>19, CommitIsSafe
<1>20. CASE CommitFails(r)
  BY <1>2, <1>20, MoveOnIsSafe DEF CommitFails
<1>21. CASE Update(r)
  BY <1>21, UpdateIsSafe
<1>22. CASE Answer(r)
  BY <1>22, AnswerIsSafe
<1>23. CASE AnswerAndPersist(r)
  BY <1>23, PersistIsSafe
<1>24. CASE Drop(r)
  BY <1>2, <1>24, EndIsSafe DEF Drop
<1> QED BY <1>5, <1>6, <1>7, <1>8, <1>9, <1>10, <1>11, <1>12, <1>13, <1>14, <1>15,
           <1>16, <1>17, <1>18, <1>19, <1>20, <1>21, <1>22, <1>23, <1>24 DEF RequestStep

LEMMA NextIInv == IInv /\ [Next]_vars => IInv'
<1> SUFFICES ASSUME IInv, [Next]_vars PROVE IInv'
  OBVIOUS
<1>1. TypeOK'
  BY TypeStep DEF IInv
<1>2. CASE \E r \in Request : RequestStep(r)
  BY <1>1, <1>2, RequestStepIsSafe
<1>3. CASE RecordReaped
  BY <1>1, <1>3, RecordReapedIsSafe
<1>4. CASE EntryReaped
  BY <1>1, <1>4, EntryReapedIsSafe
<1>5. CASE Tick
  BY <1>1, <1>5, TickIsSafe
<1>6. CASE UNCHANGED vars
  <2>1. UNCHANGED <<now, record, entry, req, faults, anchor, lastActivity, lastServed>>
    BY <1>6 DEF vars, history
  <2>2. \A s \in Request : RequestOK(s)'
    BY <2>1 DEF IInv, RequestOK, Young, Refreshed, Observed, Current, Counted,
                Bounded, FailOpenBound, Busy
  <2>3. RecordOK' /\ PaidFor' /\ EntryOK' /\ NothingFailed'
    BY <2>1 DEF IInv, RecordOK, PaidFor, EntryOK, NothingFailed, FailOpenBound
  <2> QED BY <1>1, <2>1, <2>2, <2>3 DEF IInv
<1> QED BY <1>2, <1>3, <1>4, <1>5, <1>6 DEF Next

\* The invariant behind the theorems below holds in every reachable state.
THEOREM Invariance == Spec => []IInv
BY InitIInv, NextIInv, PTL DEF Spec

\* Every variable keeps its type: deadlines stay natural numbers whatever
\* caps, expiries and instants they are taken from.
THEOREM TypeCorrect == Spec => []TypeOK
<1>1. IInv => TypeOK
  BY DEF IInv
<1> QED BY <1>1, Invariance, PTL

\* For every configuration: as long as nothing fails, the liveness entry
\* lasts as long as the record until a refresh moves the record alone.
THEOREM EntryLasts == Spec => []EntryOutlivesRecord
<1>1. IInv => EntryOutlivesRecord
  <2> SUFFICES ASSUME IInv, faults = 0, record.present, anchor = record.expiry
      PROVE  record.deadline <= (IF entry.present THEN entry.deadline ELSE now) + Latency
    BY DEF EntryOutlivesRecord
  <2>1. /\ record.expiry \in Nat /\ record.deadline \in Nat /\ now \in Nat
        /\ entry.deadline \in Nat
    BY DEF IInv, TypeOK, Record, Entry
  <2>2. record.deadline <= Earlier(ExpireAt, record.expiry + Latency + IdleTimeout)
    BY DEF IInv, NothingFailed
  <2>3. 0 < record.expiry
    BY DEF IInv, RecordOK
  <2>4. Earlier(ExpireAt, record.expiry + IdleTimeout)
          <= (IF entry.present THEN entry.deadline ELSE now)
    BY <2>1, <2>3 DEF IInv, EntryOK
  <2>5. Earlier(ExpireAt, record.expiry + Latency + IdleTimeout)
          <= Earlier(ExpireAt, record.expiry + IdleTimeout) + Latency
    BY <2>1, ConstantsType DEF Earlier
  <2>6. /\ Earlier(ExpireAt, record.expiry + Latency + IdleTimeout) \in Nat
        /\ Earlier(ExpireAt, record.expiry + IdleTimeout) \in Nat
    BY <2>1, ConstantsType DEF Earlier
  <2> QED BY <2>1, <2>2, <2>4, <2>5, <2>6, ConstantsType
<1> QED BY <1>1, Invariance, PTL

\* If every request counts as activity, no request is let through later than
\* one token lifetime past the idle timeout of the latest activity, plus the
\* environment's latency and reaping lag, faults and unreadable liveness
\* stores included: every write of the record is then paid for by activity.
THEOREM FailOpenEnds == ASSUME AllActivity PROVE Spec => FailOpenIsBounded
<1>1. IInv => \A r \in Request : LetThrough(r) =>
          req[r].since <= lastActivity + TokenLifetime + IdleTimeout
                            + Latency + ReapLag
  BY DEF IInv, RequestOK, Bounded, LetThrough, FailOpenBound
<1> QED BY <1>1, Invariance, PTL DEF FailOpenIsBounded

\* Only the backend's reaping takes a record away without a request moving.
LEMMA OnlyReapingIsSilent ==
    ASSUME IInv, [Next]_vars, record.present, ~record'.present, UNCHANGED req
    PROVE  RecordReaped
<1>1. ASSUME NEW r \in Request, RequestStep(r) PROVE FALSE
  <2>1. record' # record
    OBVIOUS
  <2>2. /\ ~CommitRefresh(req[r])
        /\ ~Update(r)
    BY DEF CommitRefresh, Update, IInv, TypeOK, Record
  <2>3. \A pc : Goto(r, pc) => req[r].pc = pc
    BY GotoIsLocal DEF IInv
  <2>4. Leave(r) => req[r].pc = "idle"
    BY LeaveIsSafe DEF IInv
  <2>5. CASE Terminate(r)
    BY <2>3, <2>5 DEF Terminate
  <2>6. CASE TokenRejected(r)
    BY <2>1, <2>3, <2>4, <2>6 DEF TokenRejected
  <2> QED BY <1>1, <2>1, <2>2, <2>5, <2>6
          DEF RequestStep, Load, LivenessUnreadable, IdleExpired, NothingToRecord,
              BeginTouch, Touch, TouchFails, TerminateFails, Clear, ClearFails,
              ExchangeSucceeds, ExchangeFails, Commit, CommitFails, Answer,
              AnswerAndPersist, Drop
<1> QED BY <1>1 DEF Next, vars, EntryReaped, Tick

\* As long as nothing fails, the backend never takes a record within the
\* idle timeout of the latest request served from it.
THEOREM UseKeepsRecords == Spec => UsedRecordsAreKept
<1>1. IInv /\ [Next]_vars =>
        [record.present /\ ~record'.present /\ UNCHANGED req /\ faults = 0 =>
            now >= Earlier(ExpireAt, lastServed + IdleTimeout)]_vars
  <2> SUFFICES ASSUME IInv, [Next]_vars, record.present, ~record'.present,
                      UNCHANGED req, faults = 0
      PROVE  now >= Earlier(ExpireAt, lastServed + IdleTimeout)
    OBVIOUS
  <2>1. now >= record.deadline
    BY OnlyReapingIsSilent DEF RecordReaped
  <2>2. /\ Earlier(ExpireAt, record.expiry + IdleTimeout) <= record.deadline
        /\ lastServed <= record.expiry
    BY DEF IInv, RecordOK, NothingFailed
  <2>3. /\ record.expiry \in Nat /\ record.deadline \in Nat /\ now \in Nat
        /\ lastServed \in Nat
    BY DEF IInv, TypeOK, Record
  <2> QED BY <2>1, <2>2, <2>3, ConstantsType DEF Earlier
<1> QED BY <1>1, Invariance, PTL DEF Spec, UsedRecordsAreKept
---------------------------------------------------------------------------
(* The throttle *)

\* The session is past saving: no request that may still be checked can find
\* the entry too old, and no new one comes.
Closing ==
    /\ ~record.present \/ (ExpireAt <= now /\ ExpireAt <= entry.last + IdleTimeout)
    /\ \A r \in Request :
          req[r].pc = "liveness" => req[r].since <= entry.last + IdleTimeout

\* The entry is behind the latest activity by less than the throttle; once it
\* is gone, the latest activity is old or the session is over.
Fresh ==
    IF entry.present THEN lastActivity <= entry.last + TouchMinInterval \/ Closing
    ELSE \/ ~record.present \/ ExpireAt <= now
         \/ lastActivity + IdleTimeout <= now + TouchMinInterval

ThrottleInv ==
    /\ \A r \in Request : req[r].pc = "clear" => ~record.present
    /\ entry.present => Earlier(ExpireAt, entry.last + IdleTimeout) <= entry.deadline
    /\ faults = 0 => Fresh

\* A step that leaves the entry and the activity alone.
LEMMA QuietSteps ==
    ASSUME IInv, TypeOK', ThrottleInv, UNCHANGED <<entry, lastActivity>>,
           faults' = 0 => faults = 0, now <= now',
           record'.present => record.present,
           \A r \in Request : req'[r].pc = "clear" => req[r].pc = "clear" \/ ~record'.present,
           \A r \in Request : req'[r].pc = "liveness" =>
               \/ req[r].pc = "liveness" /\ req'[r].since = req[r].since
               \/ record.present /\ now <= ExpireAt /\ req'[r].since = now
    PROVE  ThrottleInv'
<1> USE ConstantsType
<1>1. /\ now \in Nat /\ now' \in Nat /\ lastActivity \in Nat
      /\ entry.last \in Nat /\ entry.deadline \in Nat
  BY DEF IInv, TypeOK, Entry
<1>2. \A r \in Request : req'[r].pc = "clear" => ~record'.present
  BY DEF ThrottleInv
<1>3. ASSUME faults' = 0 PROVE Fresh'
  <2>1. Fresh
    BY <1>3 DEF ThrottleInv
  <2>2. CASE entry.present
    <3>1. Closing => Closing'
      <4> SUFFICES ASSUME Closing PROVE Closing'
        OBVIOUS
      <4>1. \/ ~record'.present
            \/ ExpireAt <= now' /\ ExpireAt <= entry'.last + IdleTimeout
        BY <1>1 DEF Closing
      <4>2. ASSUME NEW r \in Request, req'[r].pc = "liveness"
            PROVE  req'[r].since <= entry'.last + IdleTimeout
        <5>1. CASE req[r].pc = "liveness" /\ req'[r].since = req[r].since
          BY <5>1 DEF Closing
        <5>2. CASE record.present /\ now <= ExpireAt /\ req'[r].since = now
          BY <1>1, <5>2 DEF Closing
        <5> QED BY <4>2, <5>1, <5>2
      <4> QED BY <4>1, <4>2 DEF Closing
    <3> QED BY <2>1, <2>2, <3>1 DEF Fresh
  <2>3. CASE ~entry.present
    <3>1. entry' = entry /\ lastActivity' = lastActivity
      OBVIOUS
    <3>2. CASE ~record.present \/ ExpireAt <= now
      BY <1>1, <2>3, <3>1, <3>2 DEF Fresh
    <3>3. CASE lastActivity + IdleTimeout <= now + TouchMinInterval
      <4>1. lastActivity + IdleTimeout <= now' + TouchMinInterval
        BY <1>1, <3>3
      <4>2. ~entry'.present /\ lastActivity' + IdleTimeout <= now' + TouchMinInterval
        BY <2>3, <3>1, <4>1
      <4> QED BY <4>2 DEF Fresh
    <3> QED BY <2>1, <2>3, <3>2, <3>3 DEF Fresh
  <2> QED BY <2>2, <2>3
<1> QED BY <1>2, <1>3 DEF ThrottleInv

LEMMA QuietRequests ==
    ASSUME IInv, TypeOK', ThrottleInv, NEW r \in Request, RequestStep(r),
           ~LivenessUnreadable(r), ~NothingToRecord(r), ~Touch(r), ~TouchFails(r), ~Clear(r)
    PROVE  ThrottleInv'
<1>1. TypeOK
  BY DEF IInv
<1>2. /\ UNCHANGED <<entry, lastActivity, now>>
      /\ faults' = faults \/ Fault
  BY DEF RequestStep, Load, IdleExpired, BeginTouch, Terminate, TerminateFails, ClearFails,
     ExchangeSucceeds, ExchangeFails, TokenRejected, Commit, CommitFails, Update, Answer,
     AnswerAndPersist, Drop, history
<1>3. faults' = 0 => faults = 0
  BY <1>1, <1>2, EnvironmentAssumption DEF Fault, TypeOK
<1>4. record'.present => record.present
  BY DEF RequestStep, Load, IdleExpired, BeginTouch, Terminate, TerminateFails, ClearFails,
     ExchangeSucceeds, ExchangeFails, TokenRejected, Commit, CommitFails, Update, Answer,
     AnswerAndPersist, Drop, CommitRefresh, NoRecord
<1>5. /\ \A s \in Request \ {r} : req'[s] = req[s]
      /\ \/ req'[r].pc \notin {"clear", "liveness"}
         \/ req'[r].pc = "clear" /\ ~record'.present
         \/ req'[r].pc = req[r].pc /\ req'[r].since = req[r].since
         \/ req'[r].pc = "liveness" /\ record.present /\ now <= ExpireAt /\ req'[r].since = now
  <2>1. CASE Load(r)
    <3>1. now \in Nat /\ ExpireAt \in Nat
      BY <1>1, ConstantsType DEF TypeOK
    <3> QED BY <1>1, <2>1, <3>1 DEF Load, TypeOK
  <2>2. CASE Update(r)
    BY <2>2 DEF Update
  <2>3. CASE ExchangeSucceeds(r)
    BY <1>1, <2>3 DEF ExchangeSucceeds, TypeOK, RequestState
  <2>4. CASE \/ \E pc \in Pc \ {"clear", "liveness"} : Goto(r, pc)
             \/ Goto(r, "clear") /\ ~record'.present
    BY <1>1, <2>4, GotoIsLocal
  <2>5. CASE Leave(r)
    BY <1>1, <2>5, LeaveIsSafe
  <2>6. \/ Load(r) \/ Update(r) \/ ExchangeSucceeds(r) \/ Leave(r)
        \/ \E pc \in Pc \ {"clear", "liveness"} : Goto(r, pc)
        \/ Goto(r, "clear") /\ ~record'.present
    BY DEF RequestStep, IdleExpired, BeginTouch, Terminate, TerminateFails, ClearFails,
       ExchangeFails, TokenRejected, Commit, CommitFails, Answer, AnswerAndPersist, Drop,
       NoRecord, Pc
  <2> QED BY <2>1, <2>2, <2>3, <2>4, <2>5, <2>6
<1>6. now <= now'
  BY <1>1, <1>2 DEF TypeOK
<1> QED BY <1>2, <1>3, <1>4, <1>5, <1>6, QuietSteps

\* A request that check_liveness lets through: its activity is within the
\* throttle of an entry, or its touch makes a new one.
LEMMA LetThroughKeepsFresh ==
    ASSUME IInv, TypeOK', ThrottleInv, Latency <= IdleTimeout, NEW r \in Request,
           \/ LivenessUnreadable(r) \/ NothingToRecord(r) \/ Touch(r) \/ TouchFails(r)
    PROVE  ThrottleInv'
<1> USE ConstantsType
<1>1. /\ TypeOK /\ req[r].pc \in {"liveness", "touch"} /\ Proceed(r)
      /\ UNCHANGED <<now, record>>
  BY DEF IInv, LivenessUnreadable, NothingToRecord, Touch, TouchFails
<1>2. /\ req'[r].pc \in {"exchange", "handler"}
      /\ \A s \in Request \ {r} : req'[s] = req[s]
      /\ lastActivity' \in {lastActivity, Later(lastActivity, req[r].since)}
      /\ req[r].counts \/ lastActivity' = lastActivity
  BY <1>1, ProceedIsSafe DEF Proceed
<1>3. /\ now \in Nat /\ lastActivity \in Nat /\ lastActivity' \in Nat
      /\ entry.last \in Nat /\ entry.deadline \in Nat /\ req[r].since \in Nat
      /\ req[r].expiry \in Nat
  BY <1>1 DEF TypeOK, Entry, RequestState
<1>4. \A s \in Request : req'[s].pc = "clear" => ~record'.present
  BY <1>1, <1>2 DEF ThrottleInv
<1>5. \A s \in Request : req'[s].pc = "liveness" => req[s].pc = "liveness" /\ req'[s] = req[s]
  BY <1>2
<1>6. CASE LivenessUnreadable(r) \/ TouchFails(r)
  <2>1. faults' # 0 /\ entry' = entry
    BY <1>1, <1>6 DEF LivenessUnreadable, TouchFails, Fault, TypeOK
  <2> QED BY <1>4, <2>1 DEF ThrottleInv
<1>7. CASE NothingToRecord(r)
  <2>1. faults' = faults /\ entry' = entry /\ ~(req[r].counts /\ TouchDue(req[r].since))
    BY <1>7 DEF NothingToRecord
  <2>2. req[r].counts => entry.present /\ req[r].since <= entry.last + TouchMinInterval
    BY <1>3, <2>1 DEF TouchDue, Elapsed
  <2>3. Closing => Closing'
    BY <1>1, <1>5, <2>1 DEF Closing
  <2>4. ASSUME faults = 0 PROVE Fresh'
    <3>1. Fresh
      BY <2>4 DEF ThrottleInv
    <3>2. CASE req[r].counts
      <4>1. /\ entry.present /\ req[r].since <= entry.last + TouchMinInterval
            /\ lastActivity <= entry.last + TouchMinInterval \/ Closing
        BY <2>2, <3>1, <3>2 DEF Fresh
      <4>2. lastActivity' <= lastActivity \/ lastActivity' <= req[r].since
        BY <1>2, <1>3 DEF Later
      <4> QED BY <1>3, <2>1, <2>3, <4>1, <4>2 DEF Fresh
    <3>3. CASE ~req[r].counts
      BY <1>1, <1>2, <2>1, <2>3, <3>1, <3>3 DEF Fresh
    <3> QED BY <3>2, <3>3
  <2> QED BY <1>4, <2>1, <2>4 DEF ThrottleInv
<1>8. CASE Touch(r)
  <2>1. /\ entry' = Touched(req[r].since, EntryDeadline(req[r].expiry, req[r].since))
        /\ faults' = faults
    BY <1>8 DEF Touch
  <2>2. /\ entry'.present
        /\ entry'.last = IF entry.present THEN Later(entry.last, req[r].since)
                         ELSE req[r].since
        /\ entry'.deadline = IF entry.present
               THEN Later(entry.deadline, EntryDeadline(req[r].expiry, req[r].since))
               ELSE EntryDeadline(req[r].expiry, req[r].since)
    BY <2>1 DEF Touched
  <2>3. Earlier(ExpireAt, entry'.last + IdleTimeout) <= entry'.deadline
    <3>1. Earlier(ExpireAt, req[r].since + IdleTimeout)
              <= EntryDeadline(req[r].expiry, req[r].since)
      BY <1>3 DEF EntryDeadline, Earlier, Later
    <3>2. EntryDeadline(req[r].expiry, req[r].since) \in Nat
      BY <1>3, DeadlinesType
    <3>3. entry.present => Earlier(ExpireAt, entry.last + IdleTimeout) <= entry.deadline
      BY DEF ThrottleInv
    <3> QED BY <1>3, <2>2, <3>1, <3>2, <3>3 DEF Earlier, Later
  <2>4. lastActivity' <= lastActivity \/ lastActivity' <= req[r].since
    BY <1>2, <1>3 DEF Later
  <2>5. ASSUME faults = 0 PROVE Fresh'
    <3>1. Fresh
      BY <2>5 DEF ThrottleInv
    <3>2. CASE entry.present
      <4>1. /\ entry'.last \in Nat
            /\ entry.last <= entry'.last /\ req[r].since <= entry'.last
        BY <1>3, <2>2, <3>2 DEF Later
      <4>2. CASE lastActivity <= entry.last + TouchMinInterval
        BY <1>3, <2>2, <2>4, <4>1, <4>2 DEF Fresh
      <4>3. CASE Closing
        <5>1. \A s \in Request : req[s].pc = "liveness" =>
                  req[s].since \in Nat /\ req[s].since <= entry.last + IdleTimeout
          BY <1>1, <4>3 DEF Closing, TypeOK, RequestState
        <5>2. \A s \in Request : req'[s].pc = "liveness" =>
                  req'[s].since <= entry'.last + IdleTimeout
          BY <1>3, <1>5, <4>1, <5>1
        <5>3. Closing'
          BY <1>1, <1>3, <4>1, <4>3, <5>2 DEF Closing
        <5> QED BY <2>2, <5>3 DEF Fresh
      <4> QED BY <3>1, <3>2, <4>2, <4>3 DEF Fresh
    <3>3. CASE ~entry.present
      <4>1. entry'.last = req[r].since /\ now <= req[r].since + IdleTimeout
        <5>1. now <= req[r].since + Latency
          BY <1>1 DEF IInv, RequestOK, Young, Busy
        <5> QED BY <1>3, <2>2, <3>3, <5>1
      <4>2. \A s \in Request : req'[s].pc = "liveness" =>
                req'[s].since <= entry'.last + IdleTimeout
        <5>1. \A s \in Request : req[s].pc = "liveness" =>
                  req[s].since \in Nat /\ req[s].since <= now
          BY <1>1 DEF IInv, RequestOK, Young, Busy, TypeOK, RequestState
        <5> QED BY <1>3, <1>5, <4>1, <5>1
      <4>3. CASE ~record.present \/ ExpireAt <= now
        <5>1. Closing'
          BY <1>1, <1>3, <4>1, <4>2, <4>3 DEF Closing
        <5> QED BY <2>2, <5>1 DEF Fresh
      <4>4. CASE lastActivity + IdleTimeout <= now + TouchMinInterval
        BY <1>3, <2>2, <2>4, <4>1, <4>4 DEF Fresh
      <4> QED BY <3>1, <3>3, <4>3, <4>4 DEF Fresh
    <3> QED BY <3>2, <3>3
  <2> QED BY <1>4, <2>1, <2>3, <2>5 DEF ThrottleInv
<1> QED BY <1>6, <1>7, <1>8

LEMMA ThrottleInductive ==
    ASSUME Latency <= IdleTimeout, IInv, ThrottleInv, [Next]_vars
    PROVE  ThrottleInv'
<1> USE ConstantsType
<1>1. TypeOK /\ TypeOK'
  BY TypeStep DEF IInv
<1>2. ASSUME NEW r \in Request, Clear(r) PROVE ThrottleInv'
  <2>1. /\ ~record.present /\ UNCHANGED <<record, faults>> /\ ~entry'.present
        /\ req'[r].pc = "idle" /\ \A s \in Request \ {r} : req'[s] = req[s]
    BY <1>1, <1>2, LeaveIsSafe DEF Clear, ThrottleInv, NoEntry
  <2> QED BY <2>1 DEF ThrottleInv, Fresh
<1>3. ASSUME NEW r \in Request, RequestStep(r) PROVE ThrottleInv'
  BY <1>1, <1>2, <1>3, QuietRequests, LetThroughKeepsFresh
<1>4. CASE EntryReaped
  <2>1. /\ ~entry'.present /\ entry.present /\ entry.deadline <= now
        /\ UNCHANGED <<now, record, req, faults, lastActivity>>
    BY <1>1, <1>4 DEF EntryReaped, NoEntry, history, TypeOK, Entry
  <2>2. /\ now \in Nat /\ lastActivity \in Nat
        /\ entry.last \in Nat /\ entry.deadline \in Nat
    BY <1>1 DEF TypeOK, Entry
  <2>3. ASSUME faults = 0 PROVE Fresh'
    <3>1. Fresh /\ Earlier(ExpireAt, entry.last + IdleTimeout) <= entry.deadline
      BY <2>1, <2>3 DEF ThrottleInv
    <3>2. ExpireAt <= now \/ entry.last + IdleTimeout <= now
      BY <2>1, <2>2, <3>1 DEF Earlier
    <3>3. CASE lastActivity <= entry.last + TouchMinInterval
      BY <2>1, <2>2, <3>2, <3>3 DEF Fresh
    <3>4. CASE Closing
      BY <2>1, <3>4 DEF Closing, Fresh
    <3> QED BY <2>1, <3>1, <3>3, <3>4 DEF Fresh
  <2> QED BY <2>1, <2>3 DEF ThrottleInv
<1>5. CASE RecordReaped \/ Tick \/ UNCHANGED vars
  <2>1. /\ UNCHANGED <<entry, lastActivity, req, faults>>
        /\ now <= now' /\ (record'.present => record.present)
    BY <1>1, <1>5 DEF RecordReaped, Tick, vars, history, NoRecord, TypeOK
  <2> QED BY <1>1, <2>1, QuietSteps
<1> QED BY <1>3, <1>4, <1>5 DEF Next

\* Only an Expired verdict sends a request from the check to the termination.
LEMMA OnlyIdleExpires ==
    ASSUME TypeOK, [Next]_vars, NEW r \in Request,
           req[r].pc = "liveness", req'[r].pc = "terminate"
    PROVE  Verdict(req[r].since) = "Expired"
<1>1. CASE UNCHANGED req
  BY <1>1
<1>2. ASSUME NEW s \in Request, RequestStep(s), s # r
      PROVE  FALSE
  <2>1. CASE Load(s) \/ Update(s) \/ ExchangeSucceeds(s)
    BY <1>2, <2>1 DEF Load, Update, ExchangeSucceeds, TypeOK
  <2>2. CASE \E pc \in Pc : Goto(s, pc)
    BY <1>2, <2>2, GotoIsLocal
  <2>3. CASE Leave(s)
    BY <1>2, <2>3, LeaveIsSafe
  <2> QED BY <1>2, <2>1, <2>2, <2>3 DEF RequestStep, LivenessUnreadable, IdleExpired,
       NothingToRecord, BeginTouch, Touch, TouchFails, Terminate, TerminateFails, Clear,
       ClearFails, ExchangeFails, TokenRejected, Commit, CommitFails, Answer,
       AnswerAndPersist, Drop, Proceed, Pc
<1>3. ASSUME RequestStep(r), ~IdleExpired(r) PROVE FALSE
  <2>1. CASE \E pc \in Pc \ {"terminate"} : Goto(r, pc)
    BY <2>1, GotoIsLocal
  <2>2. CASE Leave(r)
    BY <2>2, LeaveIsSafe
  <2> QED BY <1>3, <2>1, <2>2 DEF RequestStep, Load, LivenessUnreadable,
       NothingToRecord, BeginTouch, Touch, TouchFails, Terminate, TerminateFails, Clear,
       ClearFails, ExchangeSucceeds, ExchangeFails, TokenRejected, Commit, CommitFails,
       Update, Answer, AnswerAndPersist, Drop, Proceed, Pc
<1>4. CASE EntryReaped \/ RecordReaped \/ Tick \/ UNCHANGED vars
  BY <1>1, <1>4 DEF EntryReaped, RecordReaped, Tick, vars
<1>5. CASE IdleExpired(r)
  BY <1>5 DEF IdleExpired
<1> QED BY <1>2, <1>3, <1>4, <1>5 DEF Next

\* If requests are answered within the idle timeout and nothing fails, no
\* request finds a session idle whose latest activity, throttle included, is
\* within the idle timeout.
THEOREM ActivityCounts == ASSUME Latency <= IdleTimeout PROVE Spec => ActiveSessionsSurvive
<1>1. Init => ThrottleInv
  BY ConstantsType DEF Init, ThrottleInv, Fresh, Idle, NoEntry, WriteDeadline, Earlier, Later
<1>2. IInv /\ ThrottleInv /\ [Next]_vars => ThrottleInv'
  BY ThrottleInductive
<1>3. IInv /\ ThrottleInv /\ [Next]_vars =>
        [\A r \in Request :
            /\ req[r].pc = "liveness" /\ req'[r].pc = "terminate"
            /\ faults = 0
            => req[r].since + TouchMinInterval > lastActivity + IdleTimeout]_vars
  <2> SUFFICES ASSUME IInv, ThrottleInv, [Next]_vars, NEW r \in Request,
                      req[r].pc = "liveness", req'[r].pc = "terminate", faults = 0
      PROVE  req[r].since + TouchMinInterval > lastActivity + IdleTimeout
    OBVIOUS
  <2> USE ConstantsType
  <2>1. Verdict(req[r].since) = "Expired"
    BY OnlyIdleExpires DEF IInv
  <2>2. /\ req[r].since \in Nat /\ entry.last \in Nat /\ lastActivity \in Nat
    BY DEF IInv, TypeOK, RequestState, Entry
  <2>3. entry.present /\ Elapsed(req[r].since, entry.last) > IdleTimeout
    BY <2>1 DEF Verdict
  <2>4. req[r].since > entry.last + IdleTimeout
    BY <2>2, <2>3 DEF Elapsed
  <2>5. lastActivity <= entry.last + TouchMinInterval
    <3>1. ~Closing
      BY <2>2, <2>4 DEF Closing
    <3> QED BY <2>3, <3>1 DEF ThrottleInv, Fresh
  <2> QED BY <2>2, <2>4, <2>5
<1> QED BY <1>1, <1>2, <1>3, Invariance, PTL DEF Spec, ActiveSessionsSurvive
=============================================================================
