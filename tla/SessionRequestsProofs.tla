------------------------ MODULE SessionRequestsProofs ------------------------
(***************************************************************************)
(* Theorems about SessionRequests for every set of requests, every policy  *)
(* of the authorization server, every budget and every number of faults.   *)
(***************************************************************************)
EXTENDS SessionRequests, TLAPS

(* ---------------- Types of the computations on sessions ---------------- *)

LEMMA SessionTypes ==
    ASSUME NEW s \in SessionState,
           NEW response \in [token_expiry: Nat, refresh_token: Token],
           NEW r \in Request
    PROVE  /\ Refreshed(s, response) \in SessionState
           /\ s.refresh_revision < MaxRevision => CommitCandidate(s, response) \in SessionState
           /\ Mutated(s, r) \in SessionState
           /\ Tombstone(s) \in SessionState
<1>1. Refreshed(s, response) \in SessionState
  BY DEF SessionState, Refreshed
<1>2. Refreshed(s, response).refresh_revision = s.refresh_revision
  BY DEF SessionState, Refreshed
<1>3. s.refresh_revision < MaxRevision => s.refresh_revision + 1 \in 0..MaxRevision
  BY MaxRevisionAssumption DEF SessionState
<1>4. s.refresh_revision < MaxRevision => CommitCandidate(s, response) \in SessionState
  BY <1>1, <1>3 DEF SessionState, CommitCandidate
<1>5. Mutated(s, r) \in SessionState
  BY DEF SessionState, Mutated
<1>6. NoToken \in Token
  BY DEF Token
<1>7. Tombstone(s) \in SessionState
  BY <1>3, <1>6 DEF SessionState, Tombstone
<1> QED BY <1>1, <1>4, <1>5, <1>7

LEMMA ConstantTypes ==
    /\ FromCompleted(NoToken) \in SessionState
    /\ FromCompleted(1) \in SessionState
    /\ NoWrite \in Write
    /\ NoResponse \in [token_expiry: Nat, refresh_token: Token]
    /\ FreshRequest \in RequestState
<1>1. /\ FromCompleted(NoToken) \in SessionState
      /\ FromCompleted(1) \in SessionState
  BY MaxRevisionAssumption DEF FromCompleted, SessionState, Token
<1>2. NoWrite \in Write
  BY <1>1 DEF NoWrite, Write
<1>3. NoResponse \in [token_expiry: Nat, refresh_token: Token]
  BY DEF NoResponse, Token
<1>4. FreshRequest \in RequestState
  BY <1>1, <1>2, <1>3, MaxRevisionAssumption
     DEF FreshRequest, RequestState, Pc, Call, Outcome, Reply
<1> QED BY <1>1, <1>2, <1>3, <1>4

(* ------------------ Types of a request's local state ------------------- *)

LEMMA FinishType ==
    ASSUME NEW q \in RequestState, NEW o \in Outcome
    PROVE  Finish(q, o) \in RequestState
<1>1. /\ "done" \in Pc
      /\ "none" \in Call
      /\ 0 \in 0..MaxRevision
  BY MaxRevisionAssumption DEF Pc, Call
<1>2. /\ FromCompleted(NoToken) \in SessionState
      /\ NoWrite \in Write
      /\ NoResponse \in [token_expiry: Nat, refresh_token: Token]
  BY ConstantTypes
<1> QED BY <1>1, <1>2 DEF Finish, RequestState

LEMMA ServeType ==
    ASSUME NEW q \in RequestState, NEW o \in Outcome, NEW s \in SessionState
    PROVE  Serve(q, o, s) \in RequestState
BY ConstantTypes DEF Serve, RequestState, Pc, Call

LEMMA EnterType ==
    ASSUME NEW q \in RequestState, NEW c \in Call
    PROVE  Enter(q, c) \in RequestState
<1>1. "load" \in Pc
  BY DEF Pc
<1> QED BY <1>1 DEF Enter, RequestState

LEMMA ReturnedType ==
    ASSUME NEW q \in RequestState, NEW reply \in Reply, NEW s \in SessionState
    PROVE  Returned(q, reply, s) \in RequestState
<1>1. ASSUME NEW o \in Outcome PROVE Finish(q, o) \in RequestState
  BY FinishType
<1>2. EagerReturned(q, reply, s) \in RequestState
  <2>1. CASE reply = "Ok"
    <3>1. Serve(q, "Active", s) \in RequestState
      BY ServeType DEF Outcome
    <3>2. [Serve(q, "Active", s) EXCEPT !.expected = 0, !.response = NoResponse]
              \in RequestState
      <4>1. 0 \in 0..MaxRevision
        BY MaxRevisionAssumption
      <4>2. NoResponse \in [token_expiry: Nat, refresh_token: Token]
        BY ConstantTypes
      <4> QED BY <3>1, <4>1, <4>2 DEF RequestState
    <3> QED BY <2>1, <3>2 DEF EagerReturned
  <2>2. CASE reply = "Gone"
    <3>1. Finish(q, "ClearedInvalid") \in RequestState
      BY FinishType DEF Outcome
    <3> QED BY <2>2, <3>1 DEF EagerReturned
  <2>3. CASE reply \notin {"Ok", "Gone"}
    <3>1. Refreshed(q.held, q.response) \in SessionState
      <4>1. /\ q.held \in SessionState
            /\ q.response \in [token_expiry: Nat, refresh_token: Token]
        BY DEF RequestState
      <4> QED BY <4>1 DEF SessionState, Refreshed
    <3>2. Serve(q, "ActivePending", Refreshed(q.held, q.response)) \in RequestState
      BY <3>1, ServeType DEF Outcome
    <3> QED BY <2>3, <3>2 DEF EagerReturned
  <2> QED BY <2>1, <2>2, <2>3
<1>3. DeferredReturned(q, reply) \in RequestState
  <2>1. (IF reply = "Ok" THEN "Active" ELSE "PersistFailed") \in Outcome
    BY DEF Outcome
  <2> QED BY <2>1, FinishType DEF DeferredReturned
<1>4. \A x : TeardownReturned(q, x) \in RequestState
  <2>1. TAKE x
  <2>2. (IF x # "Ok" THEN "RefreshUnavailable"
         ELSE IF q.held.refresh_token = NoToken THEN "ClearedNoToken"
         ELSE "ClearedRejected") \in Outcome
    BY DEF Outcome
  <2> QED BY <2>2, FinishType DEF TeardownReturned
<1>5. HandlerReturned(q, reply) \in RequestState
  BY ConstantTypes DEF HandlerReturned, RequestState, Pc, Call
<1> QED BY <1>2, <1>3, <1>4, <1>5 DEF Returned

LEMMA BecomeType ==
    ASSUME TypeOK, NEW r \in Request, NEW q \in RequestState, Become(r, q)
    PROVE  req' \in [Request -> RequestState]
BY DEF TypeOK, Become
(* ---------------------- The inductive invariant ------------------------ *)

\* Every token of the session has been issued.
Known(s) ==
    /\ s.token_expiry <= issued
    /\ s.refresh_token # NoToken => s.refresh_token <= issued

Edits(old, new) ==
    /\ new.refresh_revision = old.refresh_revision
    /\ Credentials(new) = Credentials(old)
    /\ ~new.terminated

Refreshes(old, new) ==
    /\ new.refresh_revision = old.refresh_revision + 1
    /\ new.token_expiry > old.token_expiry
    /\ new.refresh_token \in {old.refresh_token, new.token_expiry}
    /\ new.app = old.app
    /\ ~new.terminated

\* new may replace old: it edits it, refreshes it or ends it for good reason.
Follows(old, new) ==
    \/ Edits(old, new)
    \/ Refreshes(old, new)
    \/ new.terminated /\ NoLongerUsable(old)

\* A write on its way has seen the record at its base; as long as that is the
\* stored version, it has seen the record that is stored.
WriteOK(w) ==
    /\ w.base <= version
    /\ Known(w.session)
    /\ present /\ w.base = version => ~stored.terminated /\ Follows(stored, w.session)

\* The tokens a request may still commit: a refresh of the revision it expects.
ResponseOK(q) ==
    /\ q.response.token_expiry <= issued
    /\ q.response.refresh_token \in {NoToken, q.response.token_expiry}
    /\ LoadLive =>
        /\ q.expected <= stored.refresh_revision
        /\ stored.refresh_revision = q.expected =>
               q.response.token_expiry > stored.token_expiry

\* A copy of the record that is not ahead of it.
CopyOK(s) ==
    /\ s.refresh_revision <= stored.refresh_revision
    /\ s.refresh_revision = stored.refresh_revision =>
           Credentials(s) = Credentials(stored)

\* What each point of the control flow knows of the locals.
PhaseOK(q) ==
    /\ q.pc \in {"start", "refresh", "exchange", "delete", "handler", "respond", "done"}
           => q.call = "none"
    /\ q.pc \in {"load", "cas"} => q.call # "none"
    /\ q.pc = "cleanup" => q.call = "teardown" /\ Ended
    /\ q.pc \in {"refresh", "exchange"} \/ q.call \in {"eager", "teardown"}
           => q.outcome = "none"
    /\ q.pc \in {"done", "delete"} => q.outcome # "ActivePending"
    /\ q.pc = "exchange" => /\ q.expected = q.held.refresh_revision
                            /\ q.held.refresh_token # NoToken
    /\ q.outcome \in {"ClearedRejected", "ClearedNoToken", "ClearedInvalid"} => Ended

LocalOK(q) ==
    /\ PhaseOK(q)
    /\ Known(q.held) /\ ~q.held.terminated
    /\ q.pc = "cas" => /\ WriteOK(q.write)
                       /\ IF q.call = "teardown" THEN q.write.session.terminated
                                               ELSE ~q.write.session.terminated
    /\ LoadLive /\ Copies(q) => CopyOK(q.held)
    /\ q.call \in {"eager", "deferred"} \/ q.outcome = "ActivePending" => ResponseOK(q)
    /\ q.call = "teardown" => NoLongerUsable(q.held)

IInv ==
    /\ TypeOK
    /\ Known(stored)
    /\ \A w \in lateWrites : WriteOK(w)
    /\ \A r \in Request : LocalOK(req[r])

(* ------- What other requests and the environment cannot disturb -------- *)

\* How a step may change the authorization server.
ServerMoves ==
    /\ issued' >= issued
    /\ expired \subseteq expired'
    /\ \A t \in valid' : t \in valid \/ t > issued

\* How a step may change the record.
StoreMoves ==
    \/ UNCHANGED <<present, version, stored>>
    \/ present' = FALSE /\ UNCHANGED <<version, stored>>
    \/ /\ present /\ present' /\ version' = version + 1
       /\ ~stored.terminated /\ Follows(stored, stored')

LEMMA KnownStable ==
    ASSUME TypeOK, TypeOK', ServerMoves, NEW s \in SessionState, Known(s)
    PROVE  /\ Known(s)'
           /\ NoLongerUsable(s) => NoLongerUsable(s)'
<1>1. /\ issued \in Nat /\ issued' \in Nat /\ issued <= issued'
      /\ s.token_expiry \in Nat /\ s.refresh_token \in Nat \cup {NoToken}
  BY DEF TypeOK, ServerTypeOK, ServerMoves, SessionState, Token
<1>2. Known(s)'
  BY <1>1 DEF Known
<1>3. ASSUME NoLongerUsable(s) PROVE NoLongerUsable(s)'
  <2>1. CASE s.refresh_token = NoToken
    BY <1>3, <2>1 DEF NoLongerUsable, ServerMoves
  <2>2. CASE s.refresh_token # NoToken
    <3>1. s.refresh_token \notin valid /\ s.refresh_token <= issued
      BY <1>3, <2>2 DEF NoLongerUsable, Known
    <3>2. ~(s.refresh_token > issued)
      BY <3>1, <2>2, <1>1
    <3>3. s.refresh_token \notin valid'
      BY <3>1, <3>2 DEF ServerMoves
    <3> QED BY <2>2, <3>3 DEF NoLongerUsable
  <2> QED BY <2>1, <2>2
<1> QED BY <1>2, <1>3

LEMMA EndedStable ==
    ASSUME TypeOK, StoreMoves, Ended
    PROVE  Ended'
BY DEF StoreMoves, Ended, LoadLive

LEMMA WriteStable ==
    ASSUME TypeOK, TypeOK', Known(stored), ServerMoves, StoreMoves,
           NEW w \in Write, WriteOK(w)
    PROVE  WriteOK(w)'
<1>1. Known(w.session)'
  BY KnownStable DEF Write, WriteOK
<1>2. /\ w.base \in Nat /\ version \in Nat /\ w.base <= version
  BY DEF Write, WriteOK, TypeOK, StoreTypeOK
<1>3. CASE UNCHANGED <<present, version, stored>>
  <2>1. ASSUME present, w.base = version
        PROVE  Follows(stored, w.session)'
    <3>1. Follows(stored, w.session) 
      BY <2>1 DEF WriteOK
    <3>2. NoLongerUsable(stored) => NoLongerUsable(stored)'
      <4>1. PICK s \in SessionState : s = stored
        BY DEF TypeOK, StoreTypeOK
      <4>2. NoLongerUsable(s) => NoLongerUsable(s)'
        BY <4>1, KnownStable DEF Known
      <4> QED BY <4>1, <4>2, <1>3 DEF NoLongerUsable
    <3> QED BY <1>3, <3>1, <3>2 DEF Follows, Edits, Refreshes, Credentials
  <2> QED BY <1>1, <1>2, <1>3, <2>1 DEF WriteOK
<1>4. CASE present' = FALSE /\ UNCHANGED <<version, stored>>
  BY <1>1, <1>2, <1>4 DEF WriteOK
<1>5. CASE version' = version + 1
  BY <1>1, <1>2, <1>5 DEF WriteOK
<1> QED BY <1>3, <1>4, <1>5 DEF StoreMoves

LEMMA LocalStable ==
    ASSUME TypeOK, TypeOK', Known(stored), ServerMoves, StoreMoves,
           NEW q \in RequestState, LocalOK(q)
    PROVE  LocalOK(q)'
<1>1. /\ q.held \in SessionState /\ q.write \in Write
      /\ q.expected \in Nat /\ q.response.token_expiry \in Nat
      /\ stored \in SessionState /\ stored' \in SessionState
      /\ issued \in Nat /\ issued' \in Nat /\ issued <= issued'
      /\ stored.refresh_revision \in Nat /\ stored'.refresh_revision \in Nat
      /\ stored.token_expiry \in Nat /\ stored'.token_expiry \in Nat
      /\ q.held.refresh_revision \in Nat
  BY MaxRevisionAssumption
     DEF RequestState, SessionState, TypeOK, StoreTypeOK, ServerTypeOK, ServerMoves
<1>2. Ended => Ended'
  BY EndedStable
<1>3. PhaseOK(q)'
  BY <1>2 DEF LocalOK, PhaseOK
<1>4. /\ Known(q.held)'
      /\ NoLongerUsable(q.held) => NoLongerUsable(q.held)'
  BY <1>1, KnownStable DEF LocalOK
<1>5. q.pc = "cas" => WriteOK(q.write)'
  BY <1>1, WriteStable DEF LocalOK
<1>6. LoadLive' => LoadLive /\ (\/ stored' = stored
                                \/ Edits(stored, stored')
                                \/ Refreshes(stored, stored'))
  BY DEF StoreMoves, LoadLive, Follows
<1>7. LoadLive' /\ Copies(q) => CopyOK(q.held)'
  <2>1. SUFFICES ASSUME LoadLive', Copies(q) PROVE CopyOK(q.held)'
    OBVIOUS
  <2>2. CopyOK(q.held)
    BY <1>6, <2>1 DEF LocalOK
  <2>3. CASE stored' = stored
    BY <2>2, <2>3 DEF CopyOK
  <2>4. CASE Edits(stored, stored')
    BY <2>2, <2>4 DEF CopyOK, Edits, Credentials
  <2>5. CASE Refreshes(stored, stored')
    BY <1>1, <2>2, <2>5 DEF CopyOK, Refreshes
  <2> QED BY <1>6, <2>1, <2>3, <2>4, <2>5
<1>8. ResponseOK(q) => ResponseOK(q)'
  <2>1. SUFFICES ASSUME ResponseOK(q), LoadLive'
                 PROVE  /\ q.expected <= stored'.refresh_revision
                        /\ stored'.refresh_revision = q.expected =>
                               q.response.token_expiry > stored'.token_expiry
    BY <1>1 DEF ResponseOK
  <2>2. /\ q.expected <= stored.refresh_revision
        /\ stored.refresh_revision = q.expected =>
               q.response.token_expiry > stored.token_expiry
    BY <1>6, <2>1 DEF ResponseOK
  <2>3. CASE stored' = stored
    BY <2>2, <2>3
  <2>4. CASE Edits(stored, stored')
    BY <2>2, <2>4 DEF Edits, Credentials
  <2>5. CASE Refreshes(stored, stored')
    BY <1>1, <2>2, <2>5 DEF Refreshes
  <2> QED BY <1>6, <2>1, <2>3, <2>4, <2>5
<1> QED BY <1>3, <1>4, <1>5, <1>7, <1>8 DEF LocalOK, Copies

\* A step of request r preserves the invariant if its new local state is as it
\* should be and the shared state moves as the other requests can bear.
LEMMA StepOfOne ==
    ASSUME IInv, TypeOK', ServerMoves, StoreMoves, Known(stored)',
           NEW r \in Request, NEW q2 \in RequestState, LocalOK(q2)', Become(r, q2),
           \A w \in lateWrites' : w \in lateWrites \/ WriteOK(w)
    PROVE  IInv'
<1>1. TypeOK /\ Known(stored)
  BY DEF IInv
<1>2. ASSUME NEW x \in Request PROVE LocalOK(req[x])'
  <2>1. CASE x = r
    <3>1. req'[x] = q2
      BY <2>1 DEF Become, TypeOK, IInv
    <3> QED BY <3>1 DEF LocalOK, PhaseOK, Copies, ResponseOK
  <2>2. CASE x # r
    <3>1. PICK q \in RequestState : q = req[x]
      BY <1>1 DEF TypeOK
    <3>2. LocalOK(q)'
      BY <1>1, <3>1, LocalStable DEF IInv
    <3>3. req'[x] = q
      BY <2>2, <3>1 DEF Become, TypeOK, IInv
    <3> QED BY <3>2, <3>3 DEF LocalOK, PhaseOK, Copies, ResponseOK
  <2> QED BY <2>1, <2>2
<1>3. ASSUME NEW w \in lateWrites' PROVE WriteOK(w)'
  <2>1. w \in Write /\ WriteOK(w)
    BY DEF IInv, TypeOK, StoreTypeOK
  <2> QED BY <1>1, <2>1, WriteStable
<1> QED BY <1>2, <1>3 DEF IInv

\* The usual case: the step leaves the record and the server alone.
LEMMA StepOnItsOwn ==
    ASSUME IInv, NEW r \in Request, NEW q2 \in RequestState, LocalOK(q2), Become(r, q2),
           UNCHANGED <<present, version, stored, serverVars>>,
           lateWrites' \subseteq lateWrites \cup {w \in Write : WriteOK(w)},
           lateDelete' \in BOOLEAN, faults' \in 0..MaxFaults
    PROVE  IInv'
<1>1. TypeOK'
  BY DEF IInv, TypeOK, StoreTypeOK, ServerTypeOK, Become, serverVars
<1>2. ServerMoves /\ StoreMoves
  BY DEF ServerMoves, StoreMoves, serverVars, IInv, TypeOK, ServerTypeOK
<1>3. Known(stored)'
  BY DEF IInv, Known, serverVars
<1>4. LocalOK(q2)'
  BY <1>1, <1>2, LocalStable DEF IInv
<1> QED BY <1>1, <1>2, <1>3, <1>4, StepOfOne

(* ---------------- How a request moves on, in good order ---------------- *)

\* The request has been answered.
LEMMA FinishOK ==
    ASSUME TypeOK, NEW q \in RequestState, NEW o \in Outcome,
           o # "ActivePending",
           o \in {"ClearedRejected", "ClearedNoToken", "ClearedInvalid"} => Ended
    PROVE  LocalOK(Finish(q, o))
<1> DEFINE f == Finish(q, o)
<1>1. /\ f.pc = "done" /\ f.call = "none" /\ f.outcome = o
      /\ f.held = FromCompleted(NoToken)
  BY DEF Finish, RequestState
<1>2. Known(f.held) /\ ~f.held.terminated
  BY <1>1 DEF FromCompleted, Known, TypeOK, ServerTypeOK
<1> QED BY <1>1, <1>2 DEF LocalOK, PhaseOK, Copies

\* The application works with session s: a copy of the record, or with tokens
\* that are still to be persisted.
LEMMA ServedOK ==
    ASSUME NEW q \in RequestState, q.pc \in {"handler", "respond"}, q.call = "none",
           q.outcome \in {"Active", "ActivePending"},
           Known(q.held), ~q.held.terminated,
           q.outcome = "Active" /\ LoadLive => CopyOK(q.held),
           q.outcome = "ActivePending" => ResponseOK(q)
    PROVE  LocalOK(q)
BY DEF LocalOK, PhaseOK, Copies

\* A driver call returns: with Ok only to a session that is stored, and saying
\* that the record is gone only when the session has ended.
LEMMA ReturnedOK ==
    ASSUME TypeOK, NEW q \in RequestState, NEW reply \in Reply, NEW s \in SessionState,
           LocalOK(q), q.pc \in {"load", "cas", "cleanup"},
           q.call = "eager" =>
               /\ reply = "Gone" => Ended
               /\ reply = "Ok" => /\ Known(s) /\ ~s.terminated
                                  /\ LoadLive => CopyOK(s),
           q.call = "teardown" /\ reply \in {"Ok", "Gone"} => Ended
    PROVE  LocalOK(Returned(q, reply, s))
<1>1. q.call # "none"
  BY DEF LocalOK, PhaseOK
<1>2. CASE q.call = "eager"
  <2>0. Returned(q, reply, s) = EagerReturned(q, reply, s)
    BY <1>2 DEF Returned
  <2>1. CASE reply = "Ok"
    <3> DEFINE v == [Serve(q, "Active", s) EXCEPT !.expected = 0, !.response = NoResponse]
    <3>1. v \in RequestState
      <4>1. Returned(q, "Ok", s) = v
        BY <1>2 DEF Returned, EagerReturned
      <4>2. Returned(q, "Ok", s) \in RequestState
        BY <2>1, ReturnedType
      <4> QED BY <4>1, <4>2
    <3>2. /\ v.pc = "handler" /\ v.call = "none" /\ v.outcome = "Active" /\ v.held = s
      BY DEF Serve, RequestState
    <3>3. LocalOK(v)
      <4> HIDE DEF v
      <4> QED BY <1>2, <2>1, <3>1, <3>2, ServedOK
    <3> QED BY <2>0, <2>1, <3>3 DEF EagerReturned
  <2>2. CASE reply = "Gone"
    <3>1. LocalOK(Finish(q, "ClearedInvalid"))
      BY <1>2, <2>2, FinishOK DEF Outcome
    <3> QED BY <2>0, <2>2, <3>1 DEF EagerReturned
  <2>3. CASE reply \notin {"Ok", "Gone"}
    <3> DEFINE s2 == Refreshed(q.held, q.response)
               v == Serve(q, "ActivePending", s2)
    <3>1. Returned(q, reply, s) = v
      BY <2>0, <2>3 DEF EagerReturned
    <3>2. v \in RequestState
      BY <3>1, ReturnedType
    <3>3. /\ v.pc = "handler" /\ v.call = "none" /\ v.outcome = "ActivePending"
          /\ v.held = s2 /\ v.expected = q.expected /\ v.response = q.response
      BY DEF Serve, RequestState
    <3>4. ResponseOK(q)
      BY <1>2 DEF LocalOK
    <3>5. Known(s2) /\ ~s2.terminated
      <4>1. q.held \in SessionState /\ Known(q.held) /\ ~q.held.terminated
        BY DEF RequestState, LocalOK
      <4> QED BY <3>4, <4>1 DEF Refreshed, Known, ResponseOK, SessionState
    <3>6. ResponseOK(v)
      BY <3>3, <3>4 DEF ResponseOK
    <3>7. LocalOK(v)
      <4> HIDE DEF v, s2
      <4> QED BY <3>2, <3>3, <3>5, <3>6, ServedOK
    <3> QED BY <3>1, <3>7
  <2> QED BY <2>1, <2>2, <2>3
<1>3. CASE q.call = "deferred"
  <2> DEFINE o == IF reply = "Ok" THEN "Active" ELSE "PersistFailed"
  <2>1. Returned(q, reply, s) = Finish(q, o)
    BY <1>3 DEF Returned, DeferredReturned
  <2>2. /\ o \in Outcome
        /\ o \notin {"ActivePending", "ClearedRejected", "ClearedNoToken", "ClearedInvalid"}
    BY DEF Outcome
  <2>3. LocalOK(Finish(q, o))
    <3> HIDE DEF o
    <3> QED BY <2>2, FinishOK
  <2> QED BY <2>1, <2>3
<1>4. CASE q.call = "teardown"
  <2> DEFINE x == IF reply = "Gone" THEN "Ok" ELSE reply
             o == IF x # "Ok" THEN "RefreshUnavailable"
                  ELSE IF q.held.refresh_token = NoToken THEN "ClearedNoToken"
                  ELSE "ClearedRejected"
  <2>1. Returned(q, reply, s) = Finish(q, o)
    BY <1>4 DEF Returned, TeardownReturned
  <2>2. /\ o \in Outcome /\ o # "ActivePending"
        /\ o \in {"ClearedRejected", "ClearedNoToken", "ClearedInvalid"} => Ended
    BY <1>4 DEF Outcome
  <2>3. LocalOK(Finish(q, o))
    <3> HIDE DEF o
    <3> QED BY <2>2, FinishOK
  <2> QED BY <2>1, <2>3
<1>5. CASE q.call \in {"update", "save"}
  <2> DEFINE v == HandlerReturned(q, reply)
  <2>1. Returned(q, reply, s) = v
    BY <1>5 DEF Returned
  <2>2. v \in RequestState
    BY <2>1, ReturnedType
  <2>3. /\ v.pc = "respond" /\ v.call = "none" /\ v.outcome = q.outcome
        /\ v.held = q.held /\ v.expected = q.expected /\ v.response = q.response
    BY DEF HandlerReturned, RequestState
  <2>4. LocalOK(v)
    <3> HIDE DEF v
    <3>1. Known(v.held) /\ ~v.held.terminated
      BY <2>3 DEF LocalOK
    <3>2. v.outcome = "ActivePending" => ResponseOK(v)
      BY <2>3 DEF LocalOK, ResponseOK
    <3>3. LoadLive /\ Copies(v) => CopyOK(v.held)
      <4>1. q.pc \in Pc \ {"start", "done", "delete"}
        BY DEF Pc
      <4> QED BY <2>3, <4>1 DEF LocalOK, Copies
    <3>4. PhaseOK(v)
      BY <2>3 DEF PhaseOK, LocalOK
    <3> QED BY <2>3, <3>1, <3>2, <3>3, <3>4 DEF LocalOK
  <2> QED BY <2>1, <2>4
<1> QED BY <1>1, <1>2, <1>3, <1>4, <1>5 DEF RequestState, Call

(* ----------------------- One lemma per operation ----------------------- *)


LEMMA RequestStep ==
    ASSUME IInv, NEW r \in Request, NEW q2 \in RequestState, LocalOK(q2), Become(r, q2),
           UNCHANGED <<storeVars, serverVars, faults>>
    PROVE  IInv'
<1>1. /\ UNCHANGED <<present, version, stored, serverVars>>
      /\ lateWrites' \subseteq lateWrites \cup {w \in Write : WriteOK(w)}
      /\ lateDelete' \in BOOLEAN /\ faults' \in 0..MaxFaults
  BY DEF storeVars, IInv, TypeOK, StoreTypeOK
<1> QED BY <1>1, StepOnItsOwn

LEMMA LoadSessionStep ==
    ASSUME IInv, NEW r \in Request,
           LoadSession(r) \/ Logout(r) \/ Supersede(r)
    PROVE  IInv'
<1> DEFINE q == req[r]
<1>1. q \in RequestState /\ q.pc = "start" /\ LocalOK(q) /\ TypeOK
  BY DEF IInv, TypeOK, LoadSession, Logout, Supersede
<1>2. UNCHANGED <<storeVars, serverVars, faults>>
  BY DEF LoadSession, Logout, Supersede
<1>3. \/ \E o \in {"LoggedOut", "Superseded"} : Become(r, Finish(q, o))
      \/ ~LoadLive /\ Become(r, Finish(q, "ClearedInvalid"))
      \/ \E o \in {"LoggedOut", "Superseded"} :
             Become(r, [q EXCEPT !.pc = "delete", !.outcome = o])
      \/ LoadLive /\ \E pc \in {"delete", "refresh"} :
             Become(r, [q EXCEPT !.pc = pc, !.held = stored,
                 !.outcome = IF pc = "delete" THEN "ClearedPolicy" ELSE "none"])
      \/ LoadLive /\ Become(r, Serve(q, "Active", stored))
  BY DEF LoadSession, Logout, Supersede
<1>4. ASSUME NEW o \in {"LoggedOut", "Superseded", "ClearedInvalid"},
             o = "ClearedInvalid" => ~LoadLive, Become(r, Finish(q, o))
      PROVE  IInv'
  <2>1. /\ o \in Outcome /\ o # "ActivePending"
        /\ o \in {"ClearedRejected", "ClearedNoToken", "ClearedInvalid"} => Ended
    BY <1>4 DEF Outcome, Ended
  <2>2. LocalOK(Finish(q, o)) /\ Finish(q, o) \in RequestState
    BY <1>1, <2>1, FinishOK, FinishType
  <2> QED BY <1>2, <1>4, <2>2, RequestStep
<1>5. ASSUME NEW o \in {"LoggedOut", "Superseded"},
             Become(r, [q EXCEPT !.pc = "delete", !.outcome = o])
      PROVE  IInv'
  <2> DEFINE v == [q EXCEPT !.pc = "delete", !.outcome = o]
  <2>1. v \in RequestState
    BY <1>1 DEF RequestState, Pc, Outcome
  <2>2. LocalOK(v)
    BY <1>1 DEF LocalOK, PhaseOK, Copies, RequestState
  <2> QED BY <1>2, <1>5, <2>1, <2>2, RequestStep
<1>6. ASSUME LoadLive, NEW pc \in {"delete", "refresh"},
             Become(r, [q EXCEPT !.pc = pc, !.held = stored,
                 !.outcome = IF pc = "delete" THEN "ClearedPolicy" ELSE "none"])
      PROVE  IInv'
  <2> DEFINE v == [q EXCEPT !.pc = pc, !.held = stored,
                 !.outcome = IF pc = "delete" THEN "ClearedPolicy" ELSE "none"]
  <2>1. v \in RequestState
    BY <1>1 DEF RequestState, Pc, Outcome, TypeOK, StoreTypeOK
  <2>2. /\ v.pc = pc /\ v.call = "none" /\ v.held = stored
        /\ v.outcome \in {"ClearedPolicy", "none"}
        /\ pc = "refresh" => v.outcome = "none"
    BY <1>1 DEF LocalOK, PhaseOK, RequestState
  <2>3. Known(stored) /\ ~stored.terminated /\ CopyOK(stored)
    BY <1>1, <1>6 DEF IInv, LoadLive, CopyOK, TypeOK, StoreTypeOK, SessionState
  <2>4. LocalOK(v)
    <3> HIDE DEF v
    <3> QED BY <2>2, <2>3 DEF LocalOK, PhaseOK
  <2> QED BY <1>2, <1>6, <2>1, <2>4, RequestStep
<1>7. ASSUME LoadLive, Become(r, Serve(q, "Active", stored))
      PROVE  IInv'
  <2> DEFINE v == Serve(q, "Active", stored)
  <2>1. v \in RequestState
    BY <1>1, ServeType DEF Outcome, TypeOK, StoreTypeOK
  <2>2. /\ v.pc = "handler" /\ v.call = "none" /\ v.outcome = "Active" /\ v.held = stored
    BY <1>1 DEF Serve, RequestState
  <2>3. Known(stored) /\ ~stored.terminated /\ CopyOK(stored)
    BY <1>1, <1>7 DEF IInv, LoadLive, CopyOK, TypeOK, StoreTypeOK, SessionState
  <2>4. LocalOK(v)
    <3> HIDE DEF v
    <3> QED BY <2>1, <2>2, <2>3, ServedOK
  <2> QED BY <1>2, <1>7, <2>1, <2>4, RequestStep
<1> QED BY <1>3, <1>4, <1>5, <1>6, <1>7

\* Serving a session that may be served, whatever the request did before.
LEMMA ServeActiveOK ==
    ASSUME TypeOK, NEW q \in RequestState, NEW s \in SessionState,
           NEW v \in {Serve(q, "Active", s), [Serve(q, "Active", s) EXCEPT !.expected = 0]},
           Known(s), ~s.terminated, LoadLive => CopyOK(s)
    PROVE  v \in RequestState /\ LocalOK(v)
<1>1. Serve(q, "Active", s) \in RequestState
  BY ServeType DEF Outcome
<1>2. v \in RequestState
  <2>1. 0 \in 0..MaxRevision
    BY MaxRevisionAssumption
  <2> QED BY <1>1, <2>1 DEF RequestState
<1>3. v.pc = "handler" /\ v.call = "none" /\ v.outcome = "Active" /\ v.held = s
  BY DEF Serve, RequestState
<1> QED BY <1>2, <1>3, ServedOK

\* Entering a driver call.
LEMMA EnterOK ==
    ASSUME NEW q \in RequestState, NEW c \in Call \ {"none"}, LocalOK(q),
           q.pc \in {"refresh", "exchange", "handler", "respond"},
           c \in {"eager", "teardown"} => q.outcome = "none",
           c \in {"eager", "deferred"} => ResponseOK(q),
           c = "teardown" => NoLongerUsable(q.held)
    PROVE  Enter(q, c) \in RequestState /\ LocalOK(Enter(q, c))
<1> DEFINE v == Enter(q, c)
<1>1. v \in RequestState
  BY EnterType
<1>2. /\ v.pc = "load" /\ v.call = c /\ v.outcome = q.outcome /\ v.held = q.held
      /\ v.expected = q.expected /\ v.response = q.response
  BY DEF Enter, RequestState
<1>3. LocalOK(v)
  <2> HIDE DEF v
  <2>1. PhaseOK(v)
    BY <1>2 DEF LocalOK, PhaseOK
  <2>2. LoadLive /\ Copies(v) => CopyOK(v.held)
    <3>1. q.pc \in Pc \ {"start", "done", "delete"}
      BY DEF Pc
    <3> QED BY <1>2, <3>1 DEF LocalOK, Copies
  <2>3. v.call \in {"eager", "deferred"} \/ v.outcome = "ActivePending" => ResponseOK(v)
    BY <1>2 DEF LocalOK, ResponseOK
  <2> QED BY <1>2, <2>1, <2>2, <2>3 DEF LocalOK
<1> QED BY <1>1, <1>3

LEMMA StartRefreshStep ==
    ASSUME IInv, NEW r \in Request, StartRefresh(r)
    PROVE  IInv'
<1> DEFINE q == [req[r] EXCEPT !.expected = req[r].held.refresh_revision]
<1>1. req[r] \in RequestState /\ req[r].pc = "refresh" /\ LocalOK(req[r]) /\ TypeOK
  BY DEF IInv, TypeOK, StartRefresh
<1>2. UNCHANGED <<storeVars, serverVars, faults>>
  BY DEF StartRefresh
<1>3. /\ q \in RequestState
      /\ q.pc = "refresh" /\ q.call = "none" /\ q.outcome = "none"
      /\ q.held = req[r].held /\ q.expected = q.held.refresh_revision
  BY <1>1 DEF RequestState, SessionState, LocalOK, PhaseOK
<1>4. /\ Known(q.held) /\ ~q.held.terminated /\ q.held \in SessionState
      /\ LoadLive => CopyOK(q.held)
  <2>1. Copies(req[r])
    BY <1>1 DEF Copies, Pc, LocalOK, PhaseOK
  <2> QED BY <1>1, <1>3, <2>1 DEF LocalOK, RequestState
<1>5. LocalOK(q)
  <2> HIDE DEF q
  <2> QED BY <1>3, <1>4 DEF LocalOK, PhaseOK
<1>6. \/ q.held.refresh_token # NoToken /\ Become(r, [q EXCEPT !.pc = "exchange", !.attempt = 0])
      \/ Become(r, Serve(q, "Active", q.held))
      \/ /\ q.held.refresh_token = NoToken /\ q.held.token_expiry \in expired
         /\ Become(r, Enter(q, "teardown"))
  BY DEF StartRefresh
<1> HIDE DEF q
<1>7. ASSUME q.held.refresh_token # NoToken, Become(r, [q EXCEPT !.pc = "exchange", !.attempt = 0])
      PROVE  IInv'
  <2> DEFINE v == [q EXCEPT !.pc = "exchange", !.attempt = 0]
  <2>1. /\ v \in RequestState
        /\ v.pc = "exchange" /\ v.call = "none" /\ v.outcome = "none"
        /\ v.held = q.held /\ v.expected = q.expected
    BY <1>3 DEF RequestState, Pc
  <2>2. LocalOK(v)
    <3> HIDE DEF v
    <3> QED BY <1>3, <1>4, <1>7, <2>1 DEF LocalOK, PhaseOK
  <2> QED BY <1>2, <1>7, <2>1, <2>2, RequestStep
<1>8. ASSUME Become(r, Serve(q, "Active", q.held)) PROVE IInv'
  BY <1>1, <1>2, <1>3, <1>4, <1>8, ServeActiveOK, RequestStep
<1>9. ASSUME q.held.refresh_token = NoToken, q.held.token_expiry \in expired,
             Become(r, Enter(q, "teardown"))
      PROVE  IInv'
  <2>1. "teardown" \in Call \ {"none"} /\ NoLongerUsable(q.held)
    BY <1>9 DEF Call, NoLongerUsable
  <2>2. Enter(q, "teardown") \in RequestState /\ LocalOK(Enter(q, "teardown"))
    BY <1>3, <1>5, <2>1, EnterOK
  <2> QED BY <1>2, <1>9, <2>2, RequestStep
<1> QED BY <1>6, <1>7, <1>8, <1>9

LEMMA ExchangeRejectedStep ==
    ASSUME IInv, NEW r \in Request, ExchangeRejected(r)
    PROVE  IInv'
<1> DEFINE q == req[r]
<1>1. q \in RequestState /\ q.pc = "exchange" /\ LocalOK(q)
  BY DEF IInv, TypeOK, ExchangeRejected
<1>2. "teardown" \in Call \ {"none"} /\ NoLongerUsable(q.held) /\ q.outcome = "none"
  BY <1>1 DEF Call, NoLongerUsable, ExchangeRejected, LocalOK, PhaseOK
<1>3. Enter(q, "teardown") \in RequestState /\ LocalOK(Enter(q, "teardown"))
  BY <1>1, <1>2, EnterOK
<1> QED BY <1>3, RequestStep DEF ExchangeRejected

\* An exchange that failed leaves the request's local state in order.
LEMMA ExchangeFailedOK ==
    ASSUME IInv, NEW r \in Request, req[r].pc = "exchange", ExchangeFailed(r)
    PROVE  \E q2 \in RequestState : LocalOK(q2) /\ Become(r, q2)
<1> DEFINE q == req[r]
<1>1. q \in RequestState /\ LocalOK(q) /\ TypeOK
  BY DEF IInv, TypeOK
<1>2. CASE Become(r, [q EXCEPT !.attempt = @ + 1])
  <2> DEFINE v == [q EXCEPT !.attempt = @ + 1]
  <2>1. /\ v \in RequestState
        /\ v.pc = q.pc /\ v.call = q.call /\ v.outcome = q.outcome /\ v.held = q.held
        /\ v.expected = q.expected /\ v.response = q.response /\ v.write = q.write
    BY <1>1 DEF RequestState
  <2>2. LocalOK(v)
    <3> HIDE DEF v
    <3> QED BY <1>1, <2>1 DEF LocalOK, PhaseOK, Copies, ResponseOK
  <2> QED BY <1>2, <2>1, <2>2
<1>3. CASE Become(r, Finish(q, "RefreshUnavailable"))
  <2>1. /\ Finish(q, "RefreshUnavailable") \in RequestState
        /\ LocalOK(Finish(q, "RefreshUnavailable"))
    BY <1>1, FinishOK, FinishType DEF Outcome
  <2> QED BY <1>3, <2>1
<1>4. CASE Become(r, [Serve(q, "Active", q.held) EXCEPT !.expected = 0])
  <2>1. /\ Known(q.held) /\ ~q.held.terminated /\ q.held \in SessionState
        /\ LoadLive => CopyOK(q.held)
    BY <1>1 DEF Copies, Pc, LocalOK, PhaseOK, RequestState
  <2> DEFINE v == [Serve(q, "Active", q.held) EXCEPT !.expected = 0]
  <2>2. v \in RequestState /\ LocalOK(v)
    BY <1>1, <2>1, ServeActiveOK
  <2> QED BY <1>4, <2>2
<1> QED BY <1>2, <1>3, <1>4 DEF ExchangeFailed

LEMMA ExchangeUnavailableStep ==
    ASSUME IInv, NEW r \in Request, ExchangeUnavailable(r)
    PROVE  IInv'
<1>1. PICK q2 \in RequestState : LocalOK(q2) /\ Become(r, q2)
  BY ExchangeFailedOK DEF ExchangeUnavailable
<1> QED BY <1>1, RequestStep DEF ExchangeUnavailable

\* What an exchange does to the server: new tokens appear, all of them later
\* than every token issued before.
LEMMA ExchangeMoves ==
    ASSUME TypeOK, NEW rt, NEW answer \in Policy, Exchange(rt, answer)
    PROVE  /\ ServerTypeOK' /\ ServerMoves
           /\ issued' = issued + 1
<1>1. /\ issued \in Nat \ {0} /\ issued' = issued + 1 /\ expired' = expired
      /\ valid \subseteq 1..issued /\ expired \subseteq 1..issued
      /\ withdrawn' = withdrawn /\ withdrawn \in BOOLEAN
  BY DEF TypeOK, ServerTypeOK, Exchange
<1>2. valid' \subseteq valid \cup {issued + 1}
  BY PolicyAssumption DEF Exchange
<1> QED BY <1>1, <1>2 DEF ServerTypeOK, ServerMoves

LEMMA ExchangeAnswerLostStep ==
    ASSUME IInv, NEW r \in Request, ExchangeAnswerLost(r)
    PROVE  IInv'
<1>1. PICK q2 \in RequestState : LocalOK(q2) /\ Become(r, q2)
  BY ExchangeFailedOK DEF ExchangeAnswerLost
<1>2. TypeOK /\ Known(stored) /\ UNCHANGED storeVars
  BY DEF IInv, ExchangeAnswerLost
<1>3. PICK answer \in Policy : Exchange(req[r].held.refresh_token, answer)
  BY DEF ExchangeAnswerLost
<1>4. ServerTypeOK' /\ ServerMoves
  BY <1>2, <1>3, ExchangeMoves
<1>5. StoreMoves /\ lateWrites' = lateWrites /\ stored' = stored
  BY <1>2 DEF StoreMoves, storeVars
<1>6. TypeOK'
  <2>1. StoreTypeOK'
    BY <1>2 DEF TypeOK, StoreTypeOK, storeVars
  <2>2. req' \in [Request -> RequestState]
    BY <1>1, <1>2, BecomeType
  <2>3. faults' \in 0..MaxFaults
    BY <1>2, BoundsAssumption DEF TypeOK, ExchangeAnswerLost
  <2> QED BY <1>4, <2>1, <2>2, <2>3 DEF TypeOK
<1>7. LocalOK(q2)'
  BY <1>1, <1>2, <1>4, <1>5, <1>6, LocalStable
<1>8. Known(stored)'
  <2>1. PICK s \in SessionState : s = stored
    BY <1>2 DEF TypeOK, StoreTypeOK
  <2>2. Known(s)'
    BY <1>2, <1>4, <1>6, <2>1, KnownStable DEF Known
  <2> QED BY <1>5, <2>1, <2>2 DEF Known
<1> QED BY <1>1, <1>4, <1>5, <1>6, <1>7, <1>8, StepOfOne

LEMMA ExchangeSucceedsStep ==
    ASSUME IInv, NEW r \in Request, ExchangeSucceeds(r)
    PROVE  IInv'
<1>1. /\ req[r] \in RequestState /\ req[r].pc = "exchange" /\ LocalOK(req[r])
      /\ TypeOK /\ Known(stored) /\ UNCHANGED <<storeVars, faults>>
  BY DEF IInv, TypeOK, ExchangeSucceeds
<1>2. PICK answer \in Policy :
          /\ Exchange(req[r].held.refresh_token, answer)
          /\ Become(r, [Enter(req[r], "eager") EXCEPT !.response = Response(answer)])
  BY DEF ExchangeSucceeds
<1>3. PICK q \in RequestState : q = req[r]
  BY <1>1
<1>4. PICK response : response = Response(answer)
  OBVIOUS
<1>5. /\ response.token_expiry = issued + 1
      /\ response.refresh_token \in {NoToken, issued + 1}
      /\ response \in [token_expiry: Nat, refresh_token: Token]
  BY <1>1, <1>4 DEF Response, TypeOK, ServerTypeOK, Token
<1> DEFINE v == [Enter(q, "eager") EXCEPT !.response = response]
<1>6. /\ v \in RequestState
      /\ v.pc = "load" /\ v.call = "eager" /\ v.outcome = q.outcome /\ v.held = q.held
      /\ v.expected = q.expected /\ v.response = response
  <2>1. Enter(q, "eager") \in RequestState
    BY EnterType DEF Call
  <2> QED BY <1>5, <2>1 DEF Enter, RequestState
<1>7. Become(r, v)
  BY <1>2, <1>3, <1>4
<1> HIDE DEF v
<1>8. /\ ServerTypeOK' /\ ServerMoves
      /\ issued' = issued + 1 /\ issued \in Nat
  BY <1>1, <1>2, ExchangeMoves DEF TypeOK, ServerTypeOK
<1>9. StoreMoves /\ lateWrites' = lateWrites /\ present' = present /\ stored' = stored
  BY <1>1 DEF StoreMoves, storeVars
<1>10. TypeOK'
  <2>1. StoreTypeOK'
    BY <1>1 DEF TypeOK, StoreTypeOK, storeVars
  <2>2. req' \in [Request -> RequestState]
    BY <1>1, <1>6, <1>7, BecomeType
  <2> QED BY <1>1, <1>8, <2>1, <2>2 DEF TypeOK
<1>11. Known(stored)'
  BY <1>1, <1>8, <1>9 DEF Known, TypeOK, StoreTypeOK, SessionState, Token
<1>12. LocalOK(q)'
  BY <1>1, <1>3, <1>8, <1>9, <1>10, LocalStable
<1>13. /\ q.pc = "exchange" /\ q.outcome = "none" /\ q.expected = q.held.refresh_revision
       /\ Copies(q)
  BY <1>1, <1>3 DEF LocalOK, PhaseOK, Copies, Pc
<1>14. ResponseOK(v)'
  <2>1. LoadLive => /\ q.held.refresh_revision <= stored.refresh_revision
                    /\ stored.token_expiry <= issued /\ stored.token_expiry \in Nat
    BY <1>1, <1>3, <1>13 DEF LocalOK, CopyOK, Known, TypeOK, StoreTypeOK, SessionState
  <2>2. LoadLive' = LoadLive
    BY <1>9 DEF LoadLive
  <2> QED BY <1>5, <1>6, <1>8, <1>9, <1>13, <2>1, <2>2 DEF ResponseOK
<1>15. PICK q2 \in RequestState : q2 = v
  BY <1>6
<1>16. LocalOK(q2)'
  <2>1. ResponseOK(q2)'
    BY <1>14, <1>15 DEF ResponseOK
  <2>2. /\ Known(q2.held)' /\ ~q2.held.terminated
        /\ LoadLive' => CopyOK(q2.held)'
    BY <1>6, <1>12, <1>13, <1>15 DEF LocalOK, Copies
  <2>3. PhaseOK(q2)'
    BY <1>6, <1>13, <1>15 DEF PhaseOK
  <2> QED BY <1>6, <1>15, <2>1, <2>2, <2>3 DEF LocalOK
<1> QED BY <1>7, <1>8, <1>9, <1>10, <1>11, <1>15, <1>16, StepOfOne DEF IInv

\* A call that has loaded the record and goes on to write s.
LEMMA ProposeStep ==
    ASSUME IInv, NEW r \in Request, UNCHANGED <<storeVars, serverVars, faults>>,
           req[r].pc = "load", LoadLive, NEW s \in SessionState, Known(s),
           Follows(stored, s),
           IF req[r].call = "teardown" THEN s.terminated ELSE ~s.terminated,
           Propose(r, s)
    PROVE  IInv'
<1> DEFINE q == req[r]
           w == [base |-> version, session |-> s]
           v == [q EXCEPT !.pc = "cas", !.write = w]
<1>1. q \in RequestState /\ LocalOK(q) /\ TypeOK
  BY DEF IInv, TypeOK
<1>2. w \in Write
  BY <1>1 DEF Write, TypeOK, StoreTypeOK
<1>3. WriteOK(w)
  BY <1>1 DEF WriteOK, LoadLive, TypeOK, StoreTypeOK
<1>4. /\ v \in RequestState
      /\ v.pc = "cas" /\ v.call = q.call /\ v.outcome = q.outcome /\ v.held = q.held
      /\ v.expected = q.expected /\ v.response = q.response /\ v.write = w
  BY <1>1, <1>2 DEF RequestState, Pc
<1>5. w.session = s
  OBVIOUS
<1>6. Become(r, v)
  BY DEF Propose
<1>7. LocalOK(v)
  <2> HIDE DEF v, w
  <2>1. PhaseOK(v)
    BY <1>1, <1>4 DEF LocalOK, PhaseOK
  <2>2. LoadLive /\ Copies(v) => CopyOK(v.held)
    <3>1. q.pc \in Pc \ {"start", "done", "delete"}
      BY DEF Pc
    <3> QED BY <1>1, <1>4, <3>1 DEF LocalOK, Copies
  <2>3. v.call \in {"eager", "deferred"} \/ v.outcome = "ActivePending" => ResponseOK(v)
    BY <1>1, <1>4 DEF LocalOK, ResponseOK
  <2> QED BY <1>1, <1>3, <1>4, <1>5, <2>1, <2>2, <2>3 DEF LocalOK
<1> QED BY <1>4, <1>6, <1>7, RequestStep

LEMMA LoadForCommitStep ==
    ASSUME IInv, NEW r \in Request, LoadForCommit(r)
    PROVE  IInv'
<1> DEFINE q == req[r]
<1>1. /\ q \in RequestState /\ q.pc = "load" /\ q.call \in {"eager", "deferred"}
      /\ LocalOK(q) /\ ResponseOK(q) /\ TypeOK /\ stored \in SessionState /\ Known(stored)
      /\ q.held \in SessionState
  BY DEF IInv, TypeOK, StoreTypeOK, LoadForCommit, LocalOK, RequestState
<1>2. UNCHANGED <<storeVars, serverVars, faults>>
  BY DEF LoadForCommit
<1>3. ASSUME NEW reply \in {"Ok", "Gone", "Store"}, NEW s \in SessionState,
             reply = "Gone" => ~LoadLive, reply = "Ok" => LoadLive /\ s = stored,
             ReturnTo(r, reply, s)
      PROVE  IInv'
  <2>1. reply = "Ok" => Known(s) /\ ~s.terminated /\ CopyOK(s)
    BY <1>1, <1>3 DEF LoadLive, CopyOK, SessionState
  <2>2. reply \in Reply
    BY DEF Reply
  <2>3. LocalOK(Returned(q, reply, s)) /\ Returned(q, reply, s) \in RequestState
    BY <1>1, <1>3, <2>1, <2>2, ReturnedOK, ReturnedType DEF Ended
  <2> QED BY <1>2, <1>3, <2>3, RequestStep DEF ReturnTo
<1>4. ASSUME LoadLive, CommitsOver(stored, q.expected), stored.refresh_revision < MaxRevision,
             Propose(r, CommitCandidate(stored, q.response))
      PROVE  IInv'
  <2> DEFINE s == CommitCandidate(stored, q.response)
  <2>1. q.response \in [token_expiry: Nat, refresh_token: Token]
    BY <1>1 DEF RequestState
  <2>2. s \in SessionState
    BY <1>1, <1>4, <2>1, SessionTypes
  <2>3. /\ s.token_expiry = q.response.token_expiry
        /\ s.refresh_token = IF q.response.refresh_token = NoToken
                             THEN stored.refresh_token ELSE q.response.refresh_token
        /\ s.refresh_revision = stored.refresh_revision + 1
        /\ s.app = stored.app /\ s.terminated = stored.terminated
    BY <1>1, <2>1 DEF CommitCandidate, Refreshed, SessionState
  <2>4. ~stored.terminated
    BY <1>4 DEF LoadLive
  <2>5. /\ q.response.token_expiry > stored.token_expiry
        /\ q.response.token_expiry <= issued
        /\ q.response.refresh_token \in {NoToken, q.response.token_expiry}
    BY <1>1, <1>4 DEF ResponseOK, CommitsOver
  <2>6. Known(s)
    BY <1>1, <2>3, <2>5 DEF Known
  <2>7. Follows(stored, s)
    BY <2>3, <2>4, <2>5 DEF Follows, Refreshes
  <2>8. ~s.terminated
    BY <2>3, <2>4
  <2> HIDE DEF s
  <2> QED BY <1>1, <1>2, <1>4, <2>2, <2>6, <2>7, <2>8, ProposeStep DEF s
<1>5. \/ ~LoadLive /\ ReturnTo(r, "Gone", q.held)
      \/ LoadLive /\ ReturnTo(r, "Ok", stored)
      \/ ReturnTo(r, "Store", q.held)
      \/ /\ LoadLive /\ CommitsOver(stored, q.expected) /\ stored.refresh_revision < MaxRevision
         /\ Propose(r, CommitCandidate(stored, q.response))
  BY DEF LoadForCommit
<1> QED BY <1>1, <1>3, <1>4, <1>5

LEMMA LoadForUpdateStep ==
    ASSUME IInv, NEW r \in Request, LoadForUpdate(r) \/ LoadForSave(r)
    PROVE  IInv'
<1> DEFINE q == req[r]
<1>1. /\ q \in RequestState /\ q.pc = "load" /\ q.call \in {"update", "save"}
      /\ LocalOK(q) /\ TypeOK /\ stored \in SessionState /\ Known(stored)
      /\ q.held \in SessionState
  BY DEF IInv, TypeOK, StoreTypeOK, LoadForUpdate, LoadForSave, RequestState
<1>2. UNCHANGED <<storeVars, serverVars, faults>>
  BY DEF LoadForUpdate, LoadForSave
<1>3. ASSUME NEW reply \in {"Gone", "Refused", "Conflict"}, ReturnTo(r, reply, q.held)
      PROVE  IInv'
  <2>1. reply \in Reply
    BY DEF Reply
  <2>2. LocalOK(Returned(q, reply, q.held)) /\ Returned(q, reply, q.held) \in RequestState
    BY <1>1, <2>1, ReturnedOK, ReturnedType
  <2> QED BY <1>2, <1>3, <2>2, RequestStep DEF ReturnTo
<1>4. ASSUME LoadLive, Propose(r, Mutated(stored, r)) PROVE IInv'
  <2> DEFINE s == Mutated(stored, r)
  <2>1. s \in SessionState
    BY <1>1 DEF Mutated, SessionState
  <2>2. /\ s.refresh_revision = stored.refresh_revision
        /\ s.token_expiry = stored.token_expiry /\ s.refresh_token = stored.refresh_token
        /\ s.terminated = stored.terminated
    BY <1>1 DEF Mutated, SessionState
  <2>3. ~stored.terminated
    BY <1>4 DEF LoadLive
  <2>4. Known(s) /\ Follows(stored, s) /\ ~s.terminated
    BY <1>1, <2>2, <2>3 DEF Known, Follows, Edits, Credentials
  <2> HIDE DEF s
  <2> QED BY <1>1, <1>2, <1>4, <2>1, <2>4, ProposeStep DEF s
<1>5. ASSUME LoadLive, MatchesPersistedRefresh(q.held, stored),
             Propose(r, [q.held EXCEPT !.token_expiry = stored.token_expiry])
      PROVE  IInv'
  <2> DEFINE s == [q.held EXCEPT !.token_expiry = stored.token_expiry]
  <2>1. s \in SessionState
    BY <1>1 DEF SessionState
  <2>2. /\ s.refresh_revision = stored.refresh_revision
        /\ s.token_expiry = stored.token_expiry /\ s.refresh_token = stored.refresh_token
        /\ s.terminated = q.held.terminated
    BY <1>1, <1>5 DEF MatchesPersistedRefresh, Credentials, SessionState
  <2>3. ~q.held.terminated
    BY <1>1 DEF LocalOK
  <2>4. Known(s) /\ Follows(stored, s) /\ ~s.terminated
    BY <1>1, <2>2, <2>3 DEF Known, Follows, Edits, Credentials
  <2> HIDE DEF s
  <2> QED BY <1>1, <1>2, <1>5, <2>1, <2>4, ProposeStep DEF s
<1> QED BY <1>3, <1>4, <1>5 DEF LoadForUpdate, LoadForSave

LEMMA LoadForTeardownStep ==
    ASSUME IInv, NEW r \in Request, LoadForTeardown(r)
    PROVE  IInv'
<1> DEFINE q == req[r]
<1>1. /\ q \in RequestState /\ q.pc = "load" /\ q.call = "teardown"
      /\ LocalOK(q) /\ TypeOK /\ stored \in SessionState /\ Known(stored)
      /\ q.held \in SessionState
  BY DEF IInv, TypeOK, StoreTypeOK, LoadForTeardown, RequestState
<1>2. UNCHANGED <<storeVars, serverVars, faults>>
  BY DEF LoadForTeardown
<1>3. CASE ~present /\ ReturnTo(r, "Ok", q.held)
  <2>1. LocalOK(Returned(q, "Ok", q.held)) /\ Returned(q, "Ok", q.held) \in RequestState
    BY <1>1, <1>3, ReturnedOK, ReturnedType DEF Reply, Ended, LoadLive
  <2> QED BY <1>2, <1>3, <2>1, RequestStep DEF ReturnTo
<1>4. CASE stored.terminated /\ Become(r, [q EXCEPT !.pc = "cleanup"])
  <2> DEFINE v == [q EXCEPT !.pc = "cleanup"]
  <2>1. /\ v \in RequestState
        /\ v.pc = "cleanup" /\ v.call = "teardown" /\ v.outcome = q.outcome /\ v.held = q.held
        /\ v.expected = q.expected /\ v.response = q.response
    BY <1>1 DEF RequestState, Pc
  <2>2. LocalOK(v)
    <3> HIDE DEF v
    <3> QED BY <1>1, <1>4, <2>1 DEF LocalOK, PhaseOK, Ended, LoadLive
  <2> QED BY <1>2, <1>4, <2>1, <2>2, RequestStep
<1>5. CASE LoadLive /\ Become(r, Finish(q, "RefreshUnavailable"))
  <2>1. /\ Finish(q, "RefreshUnavailable") \in RequestState
        /\ LocalOK(Finish(q, "RefreshUnavailable"))
    BY <1>1, FinishOK, FinishType DEF Outcome
  <2> QED BY <1>2, <1>5, <2>1, RequestStep
<1>6. CASE LoadLive /\ Become(r, [Serve(q, "Active", stored) EXCEPT !.expected = 0])
  <2>1. ~stored.terminated /\ CopyOK(stored)
    BY <1>1, <1>6 DEF LoadLive, CopyOK, SessionState
  <2> DEFINE v == [Serve(q, "Active", stored) EXCEPT !.expected = 0]
  <2>2. v \in RequestState /\ LocalOK(v)
    BY <1>1, <2>1, ServeActiveOK
  <2> QED BY <1>2, <1>6, <2>2, RequestStep
<1>7. CASE LoadLive /\ RevokesOver(stored, q.held) /\ Propose(r, Tombstone(stored))
  <2> DEFINE s == Tombstone(stored)
  <2>1. s \in SessionState
    BY <1>1, SessionTypes DEF RequestState
  <2>2. s.terminated /\ s.token_expiry = stored.token_expiry /\ s.refresh_token = NoToken
    BY <1>1 DEF Tombstone, SessionState
  <2>3. Credentials(q.held) = Credentials(stored)
    <3>1. Copies(q)
      BY <1>1 DEF Copies, Pc, LocalOK, PhaseOK
    <3> QED BY <1>1, <1>7, <3>1 DEF LocalOK, CopyOK, RevokesOver
  <2>4. NoLongerUsable(stored)
    BY <1>1, <2>3 DEF LocalOK, NoLongerUsable, Credentials
  <2>5. Known(s) /\ Follows(stored, s)
    BY <1>1, <2>2, <2>4 DEF Known, Follows
  <2> HIDE DEF s
  <2> QED BY <1>1, <1>2, <1>7, <2>1, <2>2, <2>5, ProposeStep DEF s
<1> QED BY <1>3, <1>4, <1>5, <1>6, <1>7 DEF LoadForTeardown

\* What every step that touches the record only has to show.
LEMMA StoreStep ==
    ASSUME IInv, NEW r \in Request, NEW q2 \in RequestState, LocalOK(q2)', Become(r, q2),
           StoreMoves, stored' \in SessionState, Known(stored)', UNCHANGED <<serverVars, faults>>,
           lateWrites' \subseteq lateWrites, UNCHANGED lateDelete
    PROVE  IInv'
<1>1. TypeOK /\ ServerTypeOK' /\ ServerMoves
  BY DEF IInv, TypeOK, ServerTypeOK, ServerMoves, serverVars
<1>2. StoreTypeOK'
  <2>1. present' \in BOOLEAN
    BY <1>1 DEF TypeOK, StoreTypeOK, StoreMoves
  <2>2. version' \in Nat
    BY <1>1 DEF TypeOK, StoreTypeOK, StoreMoves
  <2>3. lateWrites' \subseteq Write /\ lateDelete' \in BOOLEAN
    BY <1>1 DEF TypeOK, StoreTypeOK
  <2> QED BY <2>1, <2>2, <2>3 DEF StoreTypeOK
<1>3. TypeOK'
  BY <1>1, <1>2, BecomeType DEF TypeOK
<1> QED BY <1>1, <1>3, StepOfOne

LEMMA AnswerWriteStep ==
    ASSUME IInv, NEW r \in Request, AnswerWrite(r)
    PROVE  IInv'
<1>1. PICK q \in RequestState : q = req[r]
  BY DEF IInv, TypeOK
<1>2. /\ q.pc = "cas" /\ LocalOK(q) /\ TypeOK /\ Known(stored) /\ stored \in SessionState
      /\ q.held \in SessionState /\ q.write \in Write /\ q.write.session \in SessionState
      /\ WriteOK(q.write)
  BY <1>1 DEF IInv, TypeOK, StoreTypeOK, AnswerWrite, LocalOK, RequestState, Write
<1>3. UNCHANGED <<lateWrites, lateDelete, serverVars, faults>>
  BY DEF AnswerWrite
<1>4. CASE SaveOutcome(q.write.base) = "Committed"
  <2> DEFINE s == q.write.session
  <2>1. /\ present /\ version = q.write.base
        /\ stored' = s /\ version' = version + 1 /\ present' = present
    BY <1>1, <1>4 DEF AnswerWrite, CompareAndSwap, SaveOutcome
  <2>2. /\ ~stored.terminated /\ Follows(stored, s)
        /\ Known(s) /\ s \in SessionState
        /\ q.call # "teardown" => ~s.terminated
    BY <1>2, <2>1 DEF WriteOK, LocalOK
  <2>3. /\ StoreMoves /\ ServerMoves /\ ServerTypeOK'
        /\ UNCHANGED serverVars /\ issued' = issued /\ expired' = expired /\ valid' = valid
    <3>1. StoreMoves
      BY <1>2, <2>1, <2>2 DEF StoreMoves, Follows, Edits, Refreshes
    <3> QED BY <1>2, <1>3, <3>1 DEF ServerMoves, ServerTypeOK, TypeOK, serverVars
  <2>4. Known(stored)' /\ stored' \in SessionState
    BY <2>1, <2>2, <2>3 DEF Known
  <2>5. ASSUME NEW q2 \in RequestState, Become(r, q2), LocalOK(q2)' PROVE IInv'
    BY <1>3, <2>3, <2>4, <2>5, StoreStep
  <2>6. ASSUME NEW q2 \in RequestState, Become(r, q2), LocalOK(q2) PROVE IInv'
    <3>1. StoreTypeOK'
      BY <1>2, <1>3, <2>1, <2>4 DEF TypeOK, StoreTypeOK
    <3>2. TypeOK'
      BY <1>2, <1>3, <2>3, <2>6, <3>1, BecomeType DEF TypeOK
    <3>3. LocalOK(q2)'
      BY <1>2, <2>3, <2>6, <3>2, LocalStable
    <3> QED BY <2>5, <2>6, <3>3
  <2>7. CASE q.call = "teardown" /\ Become(r, [q EXCEPT !.pc = "cleanup", !.write = NoWrite])
    <3>1. PICK q2 : q2 = [q EXCEPT !.pc = "cleanup", !.write = NoWrite]
      OBVIOUS
    <3>2. /\ q2 \in RequestState
          /\ q2.pc = "cleanup" /\ q2.call = "teardown" /\ q2.outcome = q.outcome
          /\ q2.held = q.held
      BY <2>7, <3>1, ConstantTypes DEF RequestState, Pc
    <3>3. /\ q.outcome = "none" /\ s.terminated
          /\ Known(q.held) /\ ~q.held.terminated /\ NoLongerUsable(q.held)
      BY <1>2, <2>7 DEF LocalOK, PhaseOK
    <3>4. ~LoadLive'
      BY <2>1, <3>3 DEF LoadLive
    <3>5. Known(q2.held)' /\ NoLongerUsable(q2.held)'
      BY <2>3, <3>2, <3>3 DEF Known, NoLongerUsable
    <3>6. LocalOK(q2)'
      BY <3>2, <3>3, <3>4, <3>5 DEF LocalOK, PhaseOK, Ended
    <3> QED BY <1>1, <2>5, <2>7, <3>1, <3>2, <3>6
  <2>8. CASE q.call = "eager" /\ ReturnTo(r, "Ok", s)
    <3>1. PICK q2 : q2 = [Serve(q, "Active", s) EXCEPT !.expected = 0, !.response = NoResponse]
      OBVIOUS
    <3>2. q2 = Returned(q, "Ok", s)
      BY <2>8, <3>1 DEF Returned, EagerReturned
    <3>3. q2 \in RequestState
      BY <2>2, <3>2, ReturnedType DEF Reply
    <3>4. /\ q2.pc = "handler" /\ q2.call = "none" /\ q2.outcome = "Active" /\ q2.held = s
      BY <3>1 DEF Serve, RequestState
    <3>5. Known(q2.held)' /\ ~q2.held.terminated
      BY <2>2, <2>3, <2>8, <3>4 DEF Known
    <3>6. CopyOK(q2.held)'
      BY <2>1, <2>2, <3>4 DEF CopyOK, SessionState
    <3>7. LocalOK(q2)'
      BY <3>4, <3>5, <3>6 DEF LocalOK, PhaseOK
    <3> QED BY <1>1, <2>5, <2>8, <3>2, <3>3, <3>7 DEF ReturnTo
  <2>9. CASE q.call \notin {"eager", "teardown"} /\ ReturnTo(r, "Ok", s)
    <3>1. LocalOK(Returned(q, "Ok", s)) /\ Returned(q, "Ok", s) \in RequestState
      BY <1>1, <1>2, <2>2, <2>9, ReturnedOK, ReturnedType DEF Reply
    <3> QED BY <1>1, <2>6, <2>9, <3>1 DEF ReturnTo
  <2> QED BY <1>1, <1>4, <2>1, <2>7, <2>8, <2>9 DEF AnswerWrite
<1>5. CASE SaveOutcome(q.write.base) # "Committed"
  <2>1. UNCHANGED <<storeVars, serverVars, faults>>
    BY <1>1, <1>3, <1>5 DEF AnswerWrite, CompareAndSwap, storeVars
  <2>2. ASSUME NEW reply \in {"Gone", "Conflict"}, reply = "Gone" => ~present,
               ReturnTo(r, reply, q.held)
        PROVE  IInv'
    <3>1. LocalOK(Returned(q, reply, q.held)) /\ Returned(q, reply, q.held) \in RequestState
      BY <1>1, <1>2, <2>2, ReturnedOK, ReturnedType DEF Reply, Ended, LoadLive
    <3> QED BY <1>1, <2>1, <2>2, <3>1, RequestStep DEF ReturnTo
  <2>3. CASE Become(r, [q EXCEPT !.pc = "load", !.attempt = @ + 1, !.write = NoWrite])
    <3> DEFINE v == [q EXCEPT !.pc = "load", !.attempt = @ + 1, !.write = NoWrite]
    <3>1. /\ v \in RequestState
          /\ v.pc = "load" /\ v.call = q.call /\ v.outcome = q.outcome /\ v.held = q.held
          /\ v.expected = q.expected /\ v.response = q.response
      <4>1. "load" \in Pc /\ NoWrite \in Write /\ q.attempt + 1 \in Nat
        BY ConstantTypes DEF Pc, RequestState
      <4>2. v \in RequestState
        BY <4>1 DEF RequestState
      <4> QED BY <4>2 DEF RequestState
    <3>2. LocalOK(v)
      <4> HIDE DEF v
      <4>1. PhaseOK(v)
        BY <1>2, <3>1 DEF LocalOK, PhaseOK
      <4>2. LoadLive /\ Copies(v) => CopyOK(v.held)
        BY <1>2, <3>1 DEF LocalOK, Copies, Pc
      <4>3. v.call \in {"eager", "deferred"} \/ v.outcome = "ActivePending" => ResponseOK(v)
        BY <1>2, <3>1 DEF LocalOK, ResponseOK
      <4> QED BY <1>2, <3>1, <4>1, <4>2, <4>3 DEF LocalOK
    <3> QED BY <2>1, <2>3, <3>1, <3>2, RequestStep
  <2>4. \/ SaveOutcome(q.write.base) = "Missing" /\ ReturnTo(r, "Gone", q.held)
        \/ Become(r, [q EXCEPT !.pc = "load", !.attempt = @ + 1, !.write = NoWrite])
        \/ ReturnTo(r, "Conflict", q.held)
    BY <1>1, <1>5 DEF AnswerWrite
  <2> QED BY <2>2, <2>3, <2>4 DEF SaveOutcome
<1> QED BY <1>4, <1>5

\* A tombstone's delete, or an unconditional one.
LEMMA DeleteStep ==
    ASSUME IInv, NEW r \in Request, NEW q2 \in RequestState, LocalOK(q2), Become(r, q2),
           Delete, UNCHANGED <<version, stored, lateWrites, lateDelete, serverVars, faults>>
    PROVE  IInv'
<1>1. /\ TypeOK /\ Known(stored) /\ stored \in SessionState
      /\ stored' = stored /\ version' = version /\ present' = FALSE
      /\ issued' = issued /\ expired' = expired /\ valid' = valid /\ withdrawn' = withdrawn
  BY DEF IInv, TypeOK, StoreTypeOK, Delete, serverVars
<1>2. ServerMoves /\ StoreMoves /\ Known(stored)'
  BY <1>1 DEF ServerMoves, StoreMoves, Known, TypeOK, ServerTypeOK
<1>3. StoreTypeOK' /\ ServerTypeOK'
  BY <1>1 DEF TypeOK, StoreTypeOK, ServerTypeOK
<1>4. TypeOK'
  BY <1>1, <1>3, BecomeType DEF TypeOK
<1>5. LocalOK(q2)'
  BY <1>1, <1>2, <1>4, LocalStable
<1> QED BY <1>1, <1>2, <1>5, StoreStep DEF serverVars

LEMMA CleanUpStep ==
    ASSUME IInv, NEW r \in Request, CleanUp(r)
    PROVE  IInv'
<1> DEFINE q == req[r]
<1>1. /\ q \in RequestState /\ q.pc = "cleanup" /\ LocalOK(q) /\ TypeOK
      /\ q.held \in SessionState
  BY DEF IInv, TypeOK, CleanUp, RequestState
<1>2. q.call = "teardown" /\ Ended /\ "Ok" \in Reply
  BY <1>1 DEF LocalOK, PhaseOK, Reply
<1>3. LocalOK(Returned(q, "Ok", q.held)) /\ Returned(q, "Ok", q.held) \in RequestState
  BY <1>1, <1>2, ReturnedOK, ReturnedType
<1> QED BY <1>3, DeleteStep DEF CleanUp, ReturnTo

\* A request at its unconditional delete ends the way it set out to.
LEMMA DeletedOK ==
    ASSUME IInv, NEW r \in Request, req[r].pc = "delete"
    PROVE  /\ Finish(req[r], req[r].outcome) \in RequestState
           /\ LocalOK(Finish(req[r], req[r].outcome))
<1>1. req[r] \in RequestState /\ LocalOK(req[r]) /\ TypeOK /\ req[r].outcome \in Outcome
  BY DEF IInv, TypeOK, RequestState
<1>2. /\ req[r].outcome # "ActivePending"
      /\ req[r].outcome \in {"ClearedRejected", "ClearedNoToken", "ClearedInvalid"} => Ended
  BY <1>1 DEF LocalOK, PhaseOK
<1> QED BY <1>1, <1>2, FinishOK, FinishType

LEMMA DeleteRecordStep ==
    ASSUME IInv, NEW r \in Request, DeleteRecord(r)
    PROVE  IInv'
BY DeletedOK, DeleteStep DEF DeleteRecord

LEMMA HandleStep ==
    ASSUME IInv, NEW r \in Request, Handle(r)
    PROVE  IInv'
<1> DEFINE q == req[r]
<1>1. /\ q \in RequestState /\ q.pc = "handler" /\ q.call = "none" /\ LocalOK(q) /\ TypeOK
      /\ q.held \in SessionState
  BY DEF IInv, TypeOK, Handle, RequestState, LocalOK, PhaseOK
<1>2. UNCHANGED <<storeVars, serverVars, faults>>
  BY DEF Handle
<1>3. CASE Become(r, Enter(q, "update"))
  <2>1. Enter(q, "update") \in RequestState /\ LocalOK(Enter(q, "update"))
    BY <1>1, EnterOK DEF Call
  <2> QED BY <1>2, <1>3, <2>1, RequestStep
<1>4. CASE Become(r, Enter([q EXCEPT !.held = Mutated(@, r)], "save"))
  <2> DEFINE v == [q EXCEPT !.held = Mutated(@, r)]
  <2>1. v.held = Mutated(q.held, r) /\ Mutated(q.held, r) \in SessionState
    BY <1>1 DEF RequestState, Mutated, SessionState
  <2>2. v \in RequestState
    BY <1>1, <2>1 DEF RequestState
  <2>3. /\ v.pc = "handler" /\ v.call = "none" /\ v.outcome = q.outcome
        /\ v.expected = q.expected /\ v.response = q.response
    BY <1>1 DEF RequestState
  <2>4. /\ v.held.refresh_revision = q.held.refresh_revision
        /\ v.held.token_expiry = q.held.token_expiry
        /\ v.held.refresh_token = q.held.refresh_token
        /\ v.held.terminated = q.held.terminated
    BY <1>1, <2>1 DEF Mutated, SessionState
  <2>5. LocalOK(v)
    <3> HIDE DEF v
    <3>1. PhaseOK(v)
      BY <1>1, <2>3 DEF LocalOK, PhaseOK
    <3>2. Known(v.held) /\ ~v.held.terminated
      BY <1>1, <2>4 DEF LocalOK, Known
    <3>3. LoadLive /\ Copies(v) => CopyOK(v.held)
      BY <1>1, <2>3, <2>4 DEF LocalOK, Copies, CopyOK, Credentials
    <3>4. v.outcome = "ActivePending" => ResponseOK(v)
      BY <1>1, <2>3 DEF LocalOK, ResponseOK
    <3> QED BY <2>3, <3>1, <3>2, <3>3, <3>4 DEF LocalOK
  <2> HIDE DEF v
  <2>6. Enter(v, "save") \in RequestState /\ LocalOK(Enter(v, "save"))
    BY <2>2, <2>3, <2>5, EnterOK DEF Call
  <2> QED BY <1>2, <1>4, <2>6, RequestStep DEF v
<1>5. CASE Become(r, [q EXCEPT !.pc = "delete", !.outcome = "LoggedOut"])
  <2> DEFINE v == [q EXCEPT !.pc = "delete", !.outcome = "LoggedOut"]
  <2>1. /\ v \in RequestState
        /\ v.pc = "delete" /\ v.call = "none" /\ v.outcome = "LoggedOut" /\ v.held = q.held
    BY <1>1 DEF RequestState, Pc, Outcome
  <2>2. LocalOK(v)
    <3> HIDE DEF v
    <3> QED BY <1>1, <2>1 DEF LocalOK, PhaseOK, Copies
  <2> QED BY <1>2, <1>5, <2>1, <2>2, RequestStep
<1>6. CASE Become(r, [q EXCEPT !.pc = "respond"])
  <2> DEFINE v == [q EXCEPT !.pc = "respond"]
  <2>1. /\ v \in RequestState
        /\ v.pc = "respond" /\ v.call = "none" /\ v.outcome = q.outcome /\ v.held = q.held
        /\ v.expected = q.expected /\ v.response = q.response
    BY <1>1 DEF RequestState, Pc
  <2>2. LocalOK(v)
    <3> HIDE DEF v
    <3>1. PhaseOK(v)
      BY <1>1, <2>1 DEF LocalOK, PhaseOK
    <3>2. LoadLive /\ Copies(v) => CopyOK(v.held)
      BY <1>1, <2>1 DEF LocalOK, Copies, Pc
    <3>3. v.outcome = "ActivePending" => ResponseOK(v)
      BY <1>1, <2>1 DEF LocalOK, ResponseOK
    <3> QED BY <1>1, <2>1, <3>1, <3>2, <3>3 DEF LocalOK
  <2> QED BY <1>2, <1>6, <2>1, <2>2, RequestStep
<1> QED BY <1>3, <1>4, <1>5, <1>6 DEF Handle

LEMMA RespondStep ==
    ASSUME IInv, NEW r \in Request, Respond(r)
    PROVE  IInv'
<1> DEFINE q == req[r]
<1>1. /\ q \in RequestState /\ q.pc = "respond" /\ LocalOK(q) /\ TypeOK
      /\ q.outcome \in Outcome
  BY DEF IInv, TypeOK, Respond, RequestState
<1>2. UNCHANGED <<storeVars, serverVars, faults>>
  BY DEF Respond
<1>3. CASE q.outcome = "ActivePending"
  <2>1. ResponseOK(q) /\ "deferred" \in Call \ {"none"}
    BY <1>1, <1>3 DEF LocalOK, Call
  <2>2. Enter(q, "deferred") \in RequestState /\ LocalOK(Enter(q, "deferred"))
    BY <1>1, <2>1, EnterOK
  <2> QED BY <1>2, <1>3, <2>2, RequestStep DEF Respond
<1>4. CASE q.outcome # "ActivePending"
  <2>1. q.outcome \in {"ClearedRejected", "ClearedNoToken", "ClearedInvalid"} => Ended
    BY <1>1 DEF LocalOK, PhaseOK
  <2>2. Finish(q, q.outcome) \in RequestState /\ LocalOK(Finish(q, q.outcome))
    BY <1>1, <1>4, <2>1, FinishOK, FinishType
  <2> QED BY <1>2, <1>4, <2>2, RequestStep DEF Respond
<1> QED BY <1>3, <1>4

\* A call cut short leaves at most its own write on its way.
LEMMA LeaveBehindStep ==
    ASSUME IInv, NEW r \in Request, LeaveBehind(req[r]), UNCHANGED serverVars,
           faults < MaxFaults, faults' = faults + 1,
           NEW q2 \in RequestState, LocalOK(q2), Become(r, q2)
    PROVE  IInv'
<1>1. req[r] \in RequestState /\ LocalOK(req[r]) /\ TypeOK
  BY DEF IInv, TypeOK
<1>2. lateWrites' \subseteq lateWrites \cup {w \in Write : WriteOK(w)}
  BY <1>1 DEF LeaveBehind, LocalOK, RequestState
<1>3. lateDelete' \in BOOLEAN
  BY <1>1 DEF LeaveBehind, TypeOK, StoreTypeOK
<1>4. faults' \in 0..MaxFaults
  BY <1>1, BoundsAssumption DEF TypeOK
<1>5. UNCHANGED <<present, version, stored, serverVars>>
  BY DEF LeaveBehind
<1> QED BY <1>2, <1>3, <1>4, <1>5, StepOnItsOwn

LEMMA FaultStep ==
    ASSUME IInv, NEW r \in Request, BackendFails(r) \/ DropRequest(r)
    PROVE  IInv'
<1> DEFINE q == req[r]
<1>1. q \in RequestState /\ LocalOK(q) /\ TypeOK /\ q.held \in SessionState
  BY DEF IInv, TypeOK, RequestState
<1>2. /\ LeaveBehind(q) /\ UNCHANGED serverVars
      /\ faults < MaxFaults /\ faults' = faults + 1
  BY DEF BackendFails, DropRequest
<1>3. ASSUME NEW o \in {"LoadFailed", "Dropped"}, Become(r, Finish(q, o)) PROVE IInv'
  <2>1. Finish(q, o) \in RequestState /\ LocalOK(Finish(q, o))
    BY <1>1, FinishOK, FinishType DEF Outcome
  <2> QED BY <1>2, <1>3, <2>1, LeaveBehindStep
<1>4. ASSUME q.pc \in {"load", "cas"}, ReturnTo(r, "Unavailable", q.held) PROVE IInv'
  <2>1. /\ Returned(q, "Unavailable", q.held) \in RequestState
        /\ LocalOK(Returned(q, "Unavailable", q.held))
    BY <1>1, <1>4, ReturnedOK, ReturnedType DEF Reply
  <2> QED BY <1>2, <1>4, <2>1, LeaveBehindStep DEF ReturnTo
<1>5. ASSUME q.pc = "cleanup", ReturnTo(r, "Ok", q.held) PROVE IInv'
  <2>1. q.call = "teardown" /\ Ended
    BY <1>1, <1>5 DEF LocalOK, PhaseOK
  <2>2. Returned(q, "Ok", q.held) \in RequestState /\ LocalOK(Returned(q, "Ok", q.held))
    BY <1>1, <1>5, <2>1, ReturnedOK, ReturnedType DEF Reply
  <2> QED BY <1>2, <1>5, <2>2, LeaveBehindStep DEF ReturnTo
<1>6. ASSUME q.pc = "delete", Become(r, Finish(q, q.outcome)) PROVE IInv'
  BY <1>2, <1>6, DeletedOK, LeaveBehindStep
<1> QED BY <1>3, <1>4, <1>5, <1>6 DEF BackendFails, DropRequest

(* ------------------------------ Environment ---------------------------- *)

LEMMA EnvironmentMoves ==
    ASSUME IInv, TypeOK', ServerMoves, StoreMoves, Known(stored)', UNCHANGED req,
           lateWrites' \subseteq lateWrites
    PROVE  IInv'
<1>1. TypeOK /\ Known(stored)
  BY DEF IInv
<1>2. ASSUME NEW x \in Request PROVE LocalOK(req[x])'
  <2>1. PICK q \in RequestState : q = req[x]
    BY <1>1 DEF TypeOK
  <2>2. LocalOK(q)'
    BY <1>1, <2>1, LocalStable DEF IInv
  <2> QED BY <2>1, <2>2 DEF LocalOK, PhaseOK, Copies, ResponseOK
<1>3. ASSUME NEW w \in lateWrites' PROVE WriteOK(w)'
  <2>1. w \in Write /\ WriteOK(w)
    BY DEF IInv, TypeOK, StoreTypeOK
  <2> QED BY <1>1, <2>1, WriteStable
<1> QED BY <1>2, <1>3 DEF IInv

LEMMA LateWriteStep ==
    ASSUME IInv, LateWriteArrives, UNCHANGED <<serverVars, req, faults>>
    PROVE  IInv'
<1>1. PICK w \in lateWrites : /\ CompareAndSwap(w)
                              /\ lateWrites' = lateWrites \ {w}
                              /\ UNCHANGED lateDelete
  BY DEF LateWriteArrives
<1>2. /\ TypeOK /\ Known(stored) /\ WriteOK(w) /\ w \in Write /\ w.session \in SessionState
      /\ version \in Nat /\ present \in BOOLEAN /\ stored \in SessionState
  BY DEF IInv, TypeOK, StoreTypeOK, Write
<1>3. ServerMoves /\ ServerTypeOK' /\ issued' = issued
  BY <1>2 DEF ServerMoves, ServerTypeOK, TypeOK, serverVars
<1>4. /\ StoreMoves
      /\ stored' \in {stored, w.session} /\ version' \in Nat /\ present' \in BOOLEAN
  <2>1. CASE SaveOutcome(w.base) = "Committed"
    <3>1. /\ present /\ version = w.base
          /\ stored' = w.session /\ version' = version + 1 /\ present' = present
      BY <1>1, <2>1 DEF CompareAndSwap, SaveOutcome
    <3>2. ~stored.terminated /\ Follows(stored, w.session)
      BY <1>2, <3>1 DEF WriteOK
    <3>3. StoreMoves
      BY <3>1, <3>2 DEF StoreMoves, Follows, Edits, Refreshes
    <3> QED BY <1>2, <3>1, <3>3
  <2>2. CASE SaveOutcome(w.base) # "Committed"
    BY <1>1, <1>2, <2>2 DEF CompareAndSwap, StoreMoves
  <2> QED BY <2>1, <2>2
<1>5. stored' \in SessionState /\ Known(stored)'
  BY <1>2, <1>3, <1>4 DEF Known, WriteOK
<1>6. StoreTypeOK'
  BY <1>1, <1>2, <1>4, <1>5 DEF StoreTypeOK, TypeOK
<1>7. TypeOK'
  BY <1>2, <1>3, <1>6 DEF TypeOK
<1> QED BY <1>1, <1>3, <1>4, <1>5, <1>7, EnvironmentMoves

LEMMA EnvironmentStep ==
    ASSUME IInv, EnvironmentNext
    PROVE  IInv'
<1>1. CASE LateWriteArrives /\ UNCHANGED <<serverVars, req, faults>>
  BY <1>1, LateWriteStep
<1>2. CASE LateDeleteArrives /\ UNCHANGED <<serverVars, req, faults>>
  <2>1. ServerMoves /\ StoreMoves /\ Known(stored)' /\ lateWrites' = lateWrites
    BY <1>2 DEF LateDeleteArrives, Delete, ServerMoves, StoreMoves, Known, IInv, TypeOK,
                ServerTypeOK, serverVars
  <2>2. TypeOK'
    BY <1>2 DEF LateDeleteArrives, Delete, IInv, TypeOK, StoreTypeOK, ServerTypeOK, serverVars
  <2> QED BY <1>2, <2>1, <2>2, EnvironmentMoves
<1>3. CASE (AccessTokenExpires \/ WithdrawTokens) /\ UNCHANGED <<storeVars, req, faults>>
  <2>1. ServerTypeOK' /\ ServerMoves /\ issued' = issued
    <3>1. /\ issued \in Nat \ {0} /\ valid \subseteq 1..issued /\ expired \subseteq 1..issued
          /\ withdrawn \in BOOLEAN
      BY DEF IInv, TypeOK, ServerTypeOK
    <3>2. CASE AccessTokenExpires
      BY <3>1, <3>2 DEF AccessTokenExpires, ServerTypeOK, ServerMoves
    <3>3. CASE WithdrawTokens
      BY <3>1, <3>3 DEF WithdrawTokens, ServerTypeOK, ServerMoves
    <3> QED BY <1>3, <3>2, <3>3
  <2>2. StoreMoves /\ Known(stored)' /\ lateWrites' = lateWrites
    BY <1>3, <2>1 DEF StoreMoves, Known, IInv, storeVars
  <2>3. TypeOK'
    BY <1>3, <2>1 DEF IInv, TypeOK, StoreTypeOK, storeVars
  <2> QED BY <1>3, <2>1, <2>2, <2>3, EnvironmentMoves
<1> QED BY <1>1, <1>2, <1>3 DEF EnvironmentNext

(* ------------------------- The inductive proof ------------------------- *)

LEMMA Initially == Init => IInv
<1> SUFFICES ASSUME Init PROVE IInv
  OBVIOUS
<1>1. /\ present = TRUE /\ version = 1 /\ lateWrites = {} /\ lateDelete = FALSE
      /\ stored \in {FromCompleted(1), FromCompleted(NoToken)}
      /\ issued = 1 /\ valid = {stored.refresh_token} \ {NoToken} /\ expired = {}
      /\ withdrawn = FALSE /\ faults = 0
      /\ req = [r \in Request |-> FreshRequest]
  BY DEF Init, StoreInit, ServerInit
<1>2. /\ stored \in SessionState /\ stored.refresh_token \in {1, NoToken}
      /\ stored.token_expiry = 1
  <2>1. \A t \in {1, NoToken} : /\ FromCompleted(t).refresh_token = t
                                /\ FromCompleted(t).token_expiry = 1
    BY DEF FromCompleted
  <2> QED BY <1>1, <2>1, ConstantTypes
<1>3. StoreTypeOK
  BY <1>1, <1>2 DEF StoreTypeOK
<1>4. ServerTypeOK
  <2>1. issued \in Nat \ {0} /\ 1 \in 1..issued
    BY <1>1
  <2>2. valid \subseteq 1..issued
    BY <1>1, <1>2, <2>1
  <2>3. expired \subseteq 1..issued /\ withdrawn \in BOOLEAN
    BY <1>1
  <2> QED BY <2>1, <2>2, <2>3 DEF ServerTypeOK
<1>5. TypeOK
  BY <1>1, <1>3, <1>4, ConstantTypes, BoundsAssumption DEF TypeOK
<1>6. Known(stored)
  BY <1>1, <1>2 DEF Known
<1>7. ASSUME NEW r \in Request PROVE LocalOK(req[r])
  <2>1. req[r] = FreshRequest
    BY <1>1
  <2>2. Known(FromCompleted(NoToken)) /\ ~FromCompleted(NoToken).terminated
    BY <1>1 DEF Known, FromCompleted
  <2>3. /\ req[r].pc = "start" /\ req[r].call = "none" /\ req[r].outcome = "none"
        /\ req[r].held = FromCompleted(NoToken)
    BY <2>1 DEF FreshRequest
  <2> QED BY <2>2, <2>3 DEF LocalOK, PhaseOK, Copies
<1> QED BY <1>1, <1>5, <1>6, <1>7 DEF IInv

LEMMA Inductive == IInv /\ [Next]_vars => IInv'
<1> SUFFICES ASSUME IInv, [Next]_vars PROVE IInv'
  OBVIOUS
<1>1. ASSUME NEW r \in Request, RequestNext(r) PROVE IInv'
  BY <1>1, LoadSessionStep, StartRefreshStep, ExchangeSucceedsStep, ExchangeRejectedStep,
     ExchangeUnavailableStep, ExchangeAnswerLostStep, LoadForCommitStep, LoadForUpdateStep,
     LoadForTeardownStep, AnswerWriteStep, CleanUpStep, DeleteRecordStep, HandleStep,
     RespondStep, FaultStep
     DEF RequestNext, Progress
<1>2. CASE EnvironmentNext
  BY <1>2, EnvironmentStep
<1>3. CASE UNCHANGED vars
  <2>1. ServerMoves /\ StoreMoves /\ Known(stored)' /\ lateWrites' = lateWrites
        /\ UNCHANGED req
    BY <1>3 DEF vars, storeVars, serverVars, ServerMoves, StoreMoves, Known, IInv, TypeOK,
                ServerTypeOK
  <2>2. TypeOK'
    BY <1>3 DEF vars, storeVars, serverVars, IInv, TypeOK, StoreTypeOK, ServerTypeOK
  <2> QED BY <2>1, <2>2, EnvironmentMoves
<1> QED BY <1>1, <1>2, <1>3 DEF Next

\* Every behaviour stays within the inductive invariant.
THEOREM Invariance == Spec => []IInv
BY Initially, Inductive, PTL DEF Spec

\* Only the two places where a write reaches the store replace the record, and
\* what they write follows what is stored.
LEMMA RecordMoves == IInv /\ [Next]_vars => StoreMoves
<1> SUFFICES ASSUME IInv, [Next]_vars PROVE StoreMoves
  OBVIOUS
<1>1. ASSUME NEW w \in Write, WriteOK(w), CompareAndSwap(w) PROVE StoreMoves
  <2>1. CASE SaveOutcome(w.base) = "Committed"
    <3>1. /\ present /\ version = w.base
          /\ stored' = w.session /\ version' = version + 1 /\ present' = present
      BY <1>1, <2>1 DEF CompareAndSwap, SaveOutcome
    <3>2. ~stored.terminated /\ Follows(stored, w.session)
      BY <1>1, <3>1 DEF WriteOK
    <3> QED BY <3>1, <3>2 DEF StoreMoves, Follows, Edits, Refreshes
  <2>2. CASE SaveOutcome(w.base) # "Committed"
    BY <1>1, <2>2 DEF CompareAndSwap, StoreMoves
  <2> QED BY <2>1, <2>2
<1>2. ASSUME NEW r \in Request, AnswerWrite(r) PROVE StoreMoves
  <2>1. req[r].write \in Write /\ WriteOK(req[r].write) /\ CompareAndSwap(req[r].write)
    BY <1>2 DEF IInv, TypeOK, RequestState, LocalOK, AnswerWrite
  <2> QED BY <1>1, <2>1
<1>3. CASE LateWriteArrives
  BY <1>1, <1>3 DEF LateWriteArrives, IInv, TypeOK, StoreTypeOK
<1>4. ASSUME NEW r \in Request, CleanUp(r) \/ DeleteRecord(r) PROVE StoreMoves
  BY <1>4 DEF CleanUp, DeleteRecord, Delete, StoreMoves
<1>5. CASE LateDeleteArrives
  BY <1>5 DEF LateDeleteArrives, Delete, StoreMoves
<1>6. ASSUME NEW r \in Request, RequestNext(r), ~AnswerWrite(r), ~CleanUp(r), ~DeleteRecord(r)
      PROVE  UNCHANGED <<present, version, stored>>
  BY <1>6 DEF RequestNext, Progress, LoadSession, Logout, Supersede, StartRefresh,
     ExchangeSucceeds, ExchangeRejected, ExchangeUnavailable, ExchangeAnswerLost, LoadForCommit,
     LoadForUpdate, LoadForSave, LoadForTeardown, Handle, Respond, BackendFails, DropRequest,
     LeaveBehind, storeVars
<1>7. CASE (AccessTokenExpires \/ WithdrawTokens) /\ UNCHANGED <<storeVars, req, faults>>
  BY <1>7 DEF storeVars, StoreMoves
<1>8. CASE UNCHANGED vars
  BY <1>8 DEF vars, storeVars, StoreMoves
<1> QED BY <1>2, <1>3, <1>4, <1>5, <1>6, <1>7, <1>8 DEF Next, EnvironmentNext, StoreMoves

(* ------------------ What the answers to an update say ------------------ *)

\* The application has answered: the request makes no update any more.
Over(q) == q.pc \in {"respond", "done"} \/ q.call = "deferred"

\* Nor was an update of the request answered with anything that denies it.
Settled(q) == Over(q) /\ q.reply \notin {"Gone", "Conflict", "Refused"}

SettledRequests == {x \in Request : Settled(req[x])}

\* s takes no update out of the record and adds at most those of xs.
Adds(s, xs) == stored.app \subseteq s.app /\ s.app \subseteq stored.app \cup xs

UpdateOK(q, r) ==
    /\ q.call # "save"
    /\ Over(q) \/ q.reply = "none"
    /\ q.reply = "Ok" => r \in stored.app
    /\ q.pc = "cas" /\ q.write.base = version
           => Adds(q.write.session, IF q.call = "update" THEN {r} ELSE {})
    /\ q.pc = "cas" /\ q.call = "update" => r \in q.write.session.app

\* An update is in the record, or on its way without a caller, only if its
\* request is settled.
AnswersOK ==
    /\ stored.app \subseteq SettledRequests
    /\ \A w \in lateWrites : w.base = version => Adds(w.session, SettledRequests)
    /\ \A r \in Request : UpdateOK(req[r], r)

LEMMA AnswersKept ==
    ASSUME IInv, AnswersOK,
           \/ UNCHANGED <<version, stored>>
           \/ /\ version' = version + 1
              /\ stored.app \subseteq stored'.app
              /\ stored'.app \subseteq SettledRequests',
           \A x \in Request : Settled(req[x]) => Settled(req[x])',
           \A x \in Request : req'[x] = req[x] \/ UpdateOK(req[x], x)',
           \A w \in lateWrites' :
               \/ w \in lateWrites
               \/ UNCHANGED version /\ (w.base = version => Adds(w.session, SettledRequests)')
    PROVE  AnswersOK'
<1>1. SettledRequests \subseteq SettledRequests'
  BY DEF SettledRequests
<1>2. version \in Nat
  BY DEF IInv, TypeOK, StoreTypeOK
<1>3. stored'.app \subseteq SettledRequests' /\ stored.app \subseteq stored'.app
  BY <1>1 DEF AnswersOK
<1>4. ASSUME NEW w \in lateWrites', w.base = version'
      PROVE  Adds(w.session, SettledRequests)'
  <2>1. CASE w \in lateWrites
    <3>1. w.base \in Nat /\ w.base <= version
      BY <2>1 DEF IInv, WriteOK, TypeOK, StoreTypeOK, Write
    <3>2. UNCHANGED <<version, stored>>
      BY <1>2, <1>4, <3>1
    <3>3. Adds(w.session, SettledRequests)
      BY <1>4, <2>1, <3>2 DEF AnswersOK
    <3> QED BY <1>1, <3>2, <3>3 DEF Adds
  <2>2. CASE w \notin lateWrites
    BY <1>4, <2>2
  <2> QED BY <2>1, <2>2
<1>5. ASSUME NEW x \in Request PROVE UpdateOK(req[x], x)'
  <2>1. CASE req'[x] = req[x]
    <3>1. UpdateOK(req[x], x)
      BY DEF AnswersOK
    <3>2. req[x].pc = "cas" => req[x].write.base \in Nat /\ req[x].write.base <= version
      BY DEF IInv, LocalOK, WriteOK, TypeOK, RequestState, Write
    <3>3. CASE UNCHANGED <<version, stored>>
      BY <2>1, <3>1, <3>3 DEF UpdateOK, Adds, Over
    <3>4. CASE version' = version + 1
      <4>1. req[x].pc = "cas" => req[x].write.base # version'
        BY <1>2, <3>2, <3>4
      <4> QED BY <1>3, <2>1, <3>1, <4>1 DEF UpdateOK, Over
    <3> QED BY <3>3, <3>4
  <2> QED BY <2>1
<1> QED BY <1>3, <1>4, <1>5 DEF AnswersOK

\* A request goes on without a new write and without a new Ok.
GoesOn(q, q2) ==
    /\ q2.pc # "cas" /\ q2.call # "save"
    /\ Over(q) => Over(q2)
    /\ q2.reply = q.reply \/ (~Over(q) /\ Over(q2) /\ q2.reply # "Ok")

LEMMA AnswersKeptOnTheWay ==
    ASSUME IInv, AnswersOK, NEW r \in Request, NEW q2, Become(r, q2),
           UNCHANGED <<version, stored>>,
           GoesOn(req[r], q2),
           \A w \in lateWrites' :
               w \in lateWrites \/ (w.base = version => Adds(w.session, {x \in {r} : Settled(q2)}))
    PROVE  AnswersOK'
<1>1. /\ req'[r] = q2
      /\ \A x \in Request \ {r} : req'[x] = req[x]
  BY DEF Become, IInv, TypeOK
<1>2. \A x \in Request : Settled(req[x]) => Settled(req[x])'
  BY <1>1 DEF GoesOn, Settled, Over
<1>3. UpdateOK(req[r], r)'
  BY <1>1 DEF GoesOn, UpdateOK, AnswersOK, Over
<1>4. {x \in {r} : Settled(q2)} \subseteq SettledRequests'
  BY <1>1 DEF SettledRequests, Settled, Over
<1>5. ASSUME NEW w \in lateWrites', w \notin lateWrites, w.base = version
      PROVE  Adds(w.session, SettledRequests)'
  BY <1>4, <1>5 DEF Adds
<1> QED BY <1>1, <1>2, <1>3, <1>5, AnswersKept

LEMMA Goings ==
    ASSUME NEW q \in RequestState
    PROVE  /\ \A o : GoesOn(q, Finish(q, o))
           /\ ~Over(q) => \A o, s : /\ GoesOn(q, Serve(q, o, s))
                                       /\ GoesOn(q, [Serve(q, o, s) EXCEPT !.expected = 0])
           /\ ~Over(q) => \A c \in Call \ {"save"} : GoesOn(q, Enter(q, c))
<1>1. ASSUME NEW o PROVE GoesOn(q, Finish(q, o))
  BY DEF Finish, RequestState, GoesOn, Over
<1>2. ASSUME ~Over(q), NEW o, NEW s
      PROVE  /\ GoesOn(q, Serve(q, o, s))
             /\ GoesOn(q, [Serve(q, o, s) EXCEPT !.expected = 0])
  BY <1>2 DEF Serve, RequestState, GoesOn
<1>3. ASSUME ~Over(q), NEW c \in Call \ {"save"} PROVE GoesOn(q, Enter(q, c))
  BY <1>3 DEF Enter, RequestState, GoesOn
<1> QED BY <1>1, <1>2, <1>3

LEMMA ReturnedGoesOn ==
    ASSUME NEW q \in RequestState, NEW reply, NEW s,
           q.pc \in {"load", "cas", "cleanup"}, q.call \notin {"none", "save"},
           q.call = "update" => reply # "Ok"
    PROVE  GoesOn(q, Returned(q, reply, s))
<1>1. CASE q.call = "eager"
  <2>1. ~Over(q)
    BY <1>1 DEF Over
  <2>2. GoesOn(q, [Serve(q, "Active", s) EXCEPT !.expected = 0, !.response = NoResponse])
    BY <2>1 DEF Serve, RequestState, GoesOn
  <2>3. /\ GoesOn(q, Finish(q, "ClearedInvalid"))
        /\ GoesOn(q, Serve(q, "ActivePending", Refreshed(q.held, q.response)))
    BY <2>1, Goings
  <2>4. GoesOn(q, EagerReturned(q, reply, s))
    BY <2>2, <2>3 DEF EagerReturned
  <2> QED BY <1>1, <2>4 DEF Returned
<1>2. CASE q.call = "deferred"
  BY <1>2, Goings DEF Returned, DeferredReturned
<1>3. CASE q.call = "teardown"
  BY <1>3, Goings DEF Returned, TeardownReturned
<1>4. CASE q.call = "update"
  <2>1. ~Over(q)
    BY <1>4 DEF Over
  <2>2. GoesOn(q, HandlerReturned(q, reply))
    BY <1>4, <2>1 DEF HandlerReturned, RequestState, GoesOn, Over
  <2> QED BY <1>4, <2>2 DEF Returned
<1> QED BY <1>1, <1>2, <1>3, <1>4 DEF RequestState, Call

\* Steps that leave the record and everything in flight as they are.
LEMMA AnswersKeptByLocalSteps ==
    ASSUME IInv, AnswersOK, "save" \notin Handlers, NEW r \in Request,
           \/ LoadSession(r) \/ Logout(r) \/ Supersede(r)
           \/ StartRefresh(r) \/ ExchangeSucceeds(r) \/ ExchangeRejected(r)
           \/ ExchangeUnavailable(r) \/ ExchangeAnswerLost(r)
           \/ Handle(r) \/ Respond(r) \/ DeleteRecord(r) \/ CleanUp(r)
    PROVE  AnswersOK'
<1>1. PICK q \in RequestState : q = req[r]
  BY DEF IInv, TypeOK
<1>2. PhaseOK(q) /\ UpdateOK(q, r)
  BY <1>1 DEF IInv, LocalOK, AnswersOK
<1>3. UNCHANGED <<version, stored, lateWrites>>
  BY DEF LoadSession, Logout, Supersede, StartRefresh, ExchangeSucceeds, ExchangeRejected,
     ExchangeUnavailable, ExchangeAnswerLost, Handle, Respond, DeleteRecord, CleanUp, storeVars
<1>4. ASSUME NEW q2, Become(r, q2), GoesOn(q, q2) PROVE AnswersOK'
  BY <1>1, <1>3, <1>4, AnswersKeptOnTheWay
<1>5. CASE LoadSession(r) \/ Logout(r) \/ Supersede(r)
  <2>1. ~Over(q)
    BY <1>1, <1>2, <1>5 DEF LoadSession, Logout, Supersede, PhaseOK, Over
  <2>2. ASSUME NEW pc \in {"delete", "refresh"}, NEW o, NEW s
        PROVE  /\ GoesOn(q, [q EXCEPT !.pc = pc, !.outcome = o])
               /\ GoesOn(q, [q EXCEPT !.pc = pc, !.held = s, !.outcome = o])
    BY <1>2, <2>1 DEF GoesOn, RequestState, UpdateOK
  <2>3. \/ \E o : Become(r, Finish(q, o))
        \/ \E o, s : Become(r, Serve(q, o, s))
        \/ \E pc \in {"delete", "refresh"} : \E o :
               Become(r, [q EXCEPT !.pc = pc, !.outcome = o])
        \/ \E pc \in {"delete", "refresh"} : \E o, s :
               Become(r, [q EXCEPT !.pc = pc, !.held = s, !.outcome = o])
    BY <1>1, <1>5, Zenon DEF LoadSession, Logout, Supersede
  <2> QED BY <1>4, <2>1, <2>2, <2>3, Goings
<1>6. CASE StartRefresh(r)
  <2> DEFINE e == [q EXCEPT !.expected = q.held.refresh_revision]
  <2>1. /\ ~Over(q) /\ q.pc = "refresh"
        /\ \/ Become(r, [e EXCEPT !.pc = "exchange", !.attempt = 0])
           \/ Become(r, Serve(e, "Active", e.held))
           \/ Become(r, Enter(e, "teardown"))
    BY <1>1, <1>2, <1>6 DEF StartRefresh, PhaseOK, Over
  <2>2. /\ GoesOn(q, [e EXCEPT !.pc = "exchange", !.attempt = 0])
        /\ GoesOn(q, Serve(e, "Active", e.held))
        /\ GoesOn(q, Enter(e, "teardown"))
    BY <1>2, <2>1 DEF GoesOn, Serve, Enter, RequestState, UpdateOK
  <2> QED BY <1>4, <2>1, <2>2
<1>7. CASE \/ ExchangeSucceeds(r) \/ ExchangeRejected(r)
           \/ ExchangeUnavailable(r) \/ ExchangeAnswerLost(r)
  <2>1. /\ ~Over(q) /\ q.pc = "exchange"
        /\ \/ \E x : Become(r, [Enter(q, "eager") EXCEPT !.response = x])
           \/ Become(r, Enter(q, "teardown"))
           \/ Become(r, [q EXCEPT !.attempt = @ + 1])
           \/ \E o : Become(r, Finish(q, o))
           \/ \E s : Become(r, [Serve(q, "Active", s) EXCEPT !.expected = 0])
    <3>1. q.pc = "exchange"
      BY <1>1, <1>7 DEF ExchangeSucceeds, ExchangeRejected, ExchangeUnavailable,
                        ExchangeAnswerLost
    <3>2. ~Over(q)
      BY <1>2, <3>1 DEF PhaseOK, Over
    <3>3. ExchangeFailed(r) =>
             \/ Become(r, [q EXCEPT !.attempt = @ + 1])
             \/ \E o : Become(r, Finish(q, o))
             \/ \E s : Become(r, [Serve(q, "Active", s) EXCEPT !.expected = 0])
      BY <1>1, Zenon DEF ExchangeFailed
    <3> QED BY <1>1, <1>7, <3>1, <3>2, <3>3, Zenon
            DEF ExchangeSucceeds, ExchangeRejected, ExchangeUnavailable, ExchangeAnswerLost
  <2>2. ASSUME NEW x
        PROVE  /\ GoesOn(q, [Enter(q, "eager") EXCEPT !.response = x])
               /\ GoesOn(q, [q EXCEPT !.attempt = @ + 1])
    BY <1>2, <2>1 DEF GoesOn, Enter, RequestState, UpdateOK
  <2>3. "teardown" \in Call \ {"save"}
    BY DEF Call
  <2> QED BY <1>4, <2>1, <2>2, <2>3, Goings
<1>8. CASE Handle(r)
  <2>1. /\ ~Over(q) /\ q.pc = "handler"
        /\ \/ Become(r, Enter(q, "update"))
           \/ \E o : Become(r, [q EXCEPT !.pc = "delete", !.outcome = o])
           \/ Become(r, [q EXCEPT !.pc = "respond"])
    BY <1>1, <1>2, <1>8 DEF Handle, PhaseOK, Over
  <2>2. ASSUME NEW o
        PROVE  /\ GoesOn(q, [q EXCEPT !.pc = "delete", !.outcome = o])
               /\ GoesOn(q, [q EXCEPT !.pc = "respond"])
    BY <1>2, <2>1 DEF GoesOn, RequestState, UpdateOK
  <2>3. "update" \in Call \ {"save"}
    BY DEF Call
  <2> QED BY <1>4, <2>1, <2>2, <2>3, Goings
<1>9. CASE Respond(r)
  <2>1. \/ Become(r, Enter(q, "deferred"))
        \/ Become(r, Finish(q, q.outcome))
    BY <1>1, <1>9 DEF Respond
  <2>2. GoesOn(q, Enter(q, "deferred"))
    BY DEF GoesOn, Enter, RequestState, Over
  <2> QED BY <1>4, <2>1, <2>2, Goings
<1>10. CASE DeleteRecord(r)
  BY <1>1, <1>4, <1>10, Goings DEF DeleteRecord
<1>11. CASE CleanUp(r)
  <2>1. q.pc = "cleanup" /\ q.call = "teardown"
    BY <1>1, <1>2, <1>11 DEF CleanUp, PhaseOK
  <2> QED BY <1>1, <1>4, <1>11, <2>1, ReturnedGoesOn DEF CleanUp, ReturnTo
<1> QED BY <1>5, <1>6, <1>7, <1>8, <1>9, <1>10, <1>11

\* Proposing a write that copies the record, or that adds the request's own
\* update to it.
LEMMA AnswersKeptByProposal ==
    ASSUME IInv, AnswersOK, NEW r \in Request, NEW s \in SessionState,
           req[r].pc = "load", Propose(r, s), UNCHANGED <<storeVars, serverVars, faults>>,
           IF req[r].call = "update" THEN s.app = stored.app \cup {r}
                                     ELSE s.app = stored.app
    PROVE  AnswersOK'
<1>1. PICK q \in RequestState : q = req[r]
  BY DEF IInv, TypeOK
<1>2. UpdateOK(q, r)
  BY <1>1 DEF AnswersOK
<1> DEFINE v == [q EXCEPT !.pc = "cas", !.write = [base |-> version, session |-> s]]
<1>3. /\ req'[r] = v
      /\ \A x \in Request \ {r} : req'[x] = req[x]
  BY <1>1 DEF Propose, Become, IInv, TypeOK
<1>4. /\ v.pc = "cas" /\ v.call = q.call /\ v.reply = q.reply
      /\ v.write.session = s
  BY DEF RequestState
<1> HIDE DEF v
<1>5. UNCHANGED <<version, stored, lateWrites>>
  BY DEF storeVars
<1>6. UpdateOK(req[r], r)'
  BY <1>1, <1>2, <1>3, <1>4, <1>5 DEF UpdateOK, Adds, Over
<1>7. \A x \in Request : Settled(req[x]) => Settled(req[x])'
  BY <1>1, <1>3, <1>4 DEF Settled, Over
<1> QED BY <1>3, <1>5, <1>6, <1>7, AnswersKept

LEMMA AnswersKeptByLoads ==
    ASSUME IInv, AnswersOK, NEW r \in Request,
           LoadForCommit(r) \/ LoadForUpdate(r) \/ LoadForSave(r) \/ LoadForTeardown(r)
    PROVE  AnswersOK'
<1>1. PICK q \in RequestState : q = req[r]
  BY DEF IInv, TypeOK
<1>2. /\ q.pc = "load" /\ q.call \notin {"none", "save"}
      /\ stored \in SessionState /\ q.response \in [token_expiry: Nat, refresh_token: Token]
  <2>1. q.call # "save" /\ PhaseOK(q)
    BY <1>1 DEF AnswersOK, UpdateOK, IInv, LocalOK
  <2> QED BY <1>1, <2>1 DEF LoadForCommit, LoadForUpdate, LoadForSave, LoadForTeardown, PhaseOK,
                            IInv, TypeOK, StoreTypeOK, RequestState
<1>3. UNCHANGED <<storeVars, serverVars, faults>> /\ UNCHANGED <<version, stored, lateWrites>>
  BY DEF LoadForCommit, LoadForUpdate, LoadForSave, LoadForTeardown, storeVars
<1>4. ASSUME NEW q2, Become(r, q2), GoesOn(q, q2) PROVE AnswersOK'
  BY <1>1, <1>3, <1>4, AnswersKeptOnTheWay
<1>5. ASSUME NEW reply, NEW s, q.call = "update" => reply # "Ok", ReturnTo(r, reply, s)
      PROVE  AnswersOK'
  BY <1>1, <1>2, <1>4, <1>5, ReturnedGoesOn DEF ReturnTo
<1>6. CASE LoadForCommit(r)
  <2>1. /\ q.call \in {"eager", "deferred"}
        /\ \/ \E reply, s : ReturnTo(r, reply, s)
           \/ /\ stored.refresh_revision < MaxRevision
              /\ Propose(r, CommitCandidate(stored, q.response))
    BY <1>1, <1>6, Zenon DEF LoadForCommit
  <2>2. ASSUME stored.refresh_revision < MaxRevision
        PROVE  /\ CommitCandidate(stored, q.response) \in SessionState
               /\ CommitCandidate(stored, q.response).app = stored.app
    BY <1>2, <2>2, SessionTypes DEF CommitCandidate, Refreshed, SessionState
  <2> QED BY <1>1, <1>2, <1>3, <1>5, <2>1, <2>2, AnswersKeptByProposal
<1>7. CASE LoadForUpdate(r)
  <2>1. /\ q.call = "update"
        /\ \/ \E reply \in {"Gone", "Refused"} : \E s : ReturnTo(r, reply, s)
           \/ Propose(r, Mutated(stored, r))
    BY <1>1, <1>7 DEF LoadForUpdate
  <2>2. /\ Mutated(stored, r) \in SessionState
        /\ Mutated(stored, r).app = stored.app \cup {r}
    BY <1>2, SessionTypes DEF Mutated, SessionState
  <2> QED BY <1>1, <1>2, <1>3, <1>5, <2>1, <2>2, AnswersKeptByProposal
<1>8. CASE LoadForTeardown(r)
  <2>1. /\ q.call = "teardown" /\ ~Over(q)
        /\ \/ \E reply, s : ReturnTo(r, reply, s)
           \/ Become(r, [q EXCEPT !.pc = "cleanup"])
           \/ \E o : Become(r, Finish(q, o))
           \/ Become(r, [Serve(q, "Active", stored) EXCEPT !.expected = 0])
           \/ Propose(r, Tombstone(stored))
    BY <1>1, <1>2, <1>8 DEF LoadForTeardown, Settled, Over
  <2>2. GoesOn(q, [q EXCEPT !.pc = "cleanup"])
    BY <1>2, <2>1 DEF GoesOn, RequestState
  <2>3. /\ Tombstone(stored) \in SessionState
        /\ Tombstone(stored).app = stored.app
    BY <1>2, SessionTypes DEF Tombstone, SessionState
  <2> QED BY <1>1, <1>2, <1>3, <1>4, <1>5, <2>1, <2>2, <2>3, Goings, AnswersKeptByProposal
<1>9. CASE LoadForSave(r)
  BY <1>1, <1>2, <1>9 DEF LoadForSave
<1> QED BY <1>6, <1>7, <1>8, <1>9

LEMMA AnswersKeptByWrites ==
    ASSUME IInv, AnswersOK, NEW r \in Request, AnswerWrite(r)
    PROVE  AnswersOK'
<1>1. PICK q \in RequestState : q = req[r]
  BY DEF IInv, TypeOK
<1>2. q.pc = "cas" /\ q.call \notin {"none", "save"} /\ UpdateOK(q, r)
  BY <1>1 DEF AnswersOK, UpdateOK, IInv, LocalOK, PhaseOK, AnswerWrite
<1>3. UNCHANGED lateWrites
  BY DEF AnswerWrite
<1>4. CASE SaveOutcome(q.write.base) = "Committed"
  <2>1. /\ version = q.write.base /\ version' = version + 1 /\ stored' = q.write.session
        /\ \/ q.call # "teardown" /\ Become(r, Returned(q, "Ok", q.write.session))
           \/ /\ q.call = "teardown"
              /\ Become(r, [q EXCEPT !.pc = "cleanup", !.write = NoWrite])
    BY <1>1, <1>4 DEF AnswerWrite, CompareAndSwap, SaveOutcome, ReturnTo
  <2>2. /\ Adds(q.write.session, IF q.call = "update" THEN {r} ELSE {})
        /\ q.call = "update" => r \in q.write.session.app
    BY <1>2, <2>1 DEF UpdateOK
  <2>3. PICK q2 : /\ req'[r] = q2
                  /\ q2.pc # "cas" /\ q2.call # "save"
                  /\ q.call # "update" => q2.reply = q.reply \/ q2.reply # "Ok"
                  /\ Settled(q) \/ q.call = "update" => Settled(q2)
                  /\ Over(q2) \/ q2.reply = "none"
    <3>1. ASSUME NEW v, Become(r, v) PROVE req'[r] = v
      BY <3>1 DEF Become, IInv, TypeOK
    <3>2. CASE q.call = "teardown"
      <4>1. GoesOn(q, [q EXCEPT !.pc = "cleanup", !.write = NoWrite])
        BY <1>2, <3>2 DEF GoesOn, RequestState, Settled, Over
      <4> QED BY <1>2, <2>1, <3>1, <3>2, <4>1 DEF GoesOn, Settled, UpdateOK
    <3>3. CASE q.call \in {"eager", "deferred"}
      <4>1. GoesOn(q, Returned(q, "Ok", q.write.session))
        BY <1>2, <3>3, ReturnedGoesOn
      <4> QED BY <1>2, <2>1, <3>1, <3>3, <4>1 DEF GoesOn, Settled, UpdateOK
    <3>4. CASE q.call = "update"
      <4>1. Returned(q, "Ok", q.write.session) = HandlerReturned(q, "Ok")
        BY <3>4 DEF Returned
      <4>2. /\ HandlerReturned(q, "Ok").pc = "respond" /\ HandlerReturned(q, "Ok").call = "none"
            /\ HandlerReturned(q, "Ok").reply = "Ok"
        BY DEF HandlerReturned, RequestState
      <4> QED BY <2>1, <3>1, <3>4, <4>1, <4>2 DEF Settled, Over
    <3> QED BY <1>2, <3>2, <3>3, <3>4 DEF RequestState, Call
  <2>4. \A x \in Request \ {r} : req'[x] = req[x]
    BY <2>1 DEF Become, IInv, TypeOK
  <2>5. \A x \in Request : Settled(req[x]) => Settled(req[x])'
    BY <1>1, <2>3, <2>4 DEF Settled, Over
  <2>6. SettledRequests \subseteq SettledRequests' /\ (q.call = "update" => r \in SettledRequests')
    BY <2>3, <2>5 DEF SettledRequests, Settled, Over
  <2>7. stored.app \subseteq stored'.app /\ stored'.app \subseteq SettledRequests'
    BY <2>1, <2>2, <2>6 DEF Adds, AnswersOK
  <2>8. UpdateOK(req[r], r)'
    <3>1. q2.reply = "Ok" => r \in stored'.app
      BY <1>2, <2>1, <2>2, <2>3, <2>7 DEF UpdateOK
    <3> QED BY <2>3, <3>1 DEF UpdateOK, Over
  <2> QED BY <1>3, <2>1, <2>4, <2>5, <2>7, <2>8, AnswersKept
<1>5. CASE SaveOutcome(q.write.base) # "Committed"
  <2>1. /\ UNCHANGED <<version, stored>>
        /\ \/ \E reply \in {"Gone", "Conflict"} : Become(r, Returned(q, reply, q.held))
           \/ Become(r, [q EXCEPT !.pc = "load", !.attempt = @ + 1, !.write = NoWrite])
    BY <1>1, <1>5 DEF AnswerWrite, CompareAndSwap, ReturnTo
  <2>2. GoesOn(q, [q EXCEPT !.pc = "load", !.attempt = @ + 1, !.write = NoWrite])
    BY <1>2 DEF GoesOn, RequestState, Settled, Over
  <2>3. ASSUME NEW reply \in {"Gone", "Conflict"}
        PROVE  GoesOn(q, Returned(q, reply, q.held))
    BY <1>2, ReturnedGoesOn
  <2> QED BY <1>1, <1>3, <2>1, <2>2, <2>3, AnswersKeptOnTheWay
<1> QED BY <1>4, <1>5

\* A write that is left behind brings its request's own update at most, and
\* that request is over.
LEMMA AnswersKeptByFaults ==
    ASSUME IInv, AnswersOK, NEW r \in Request, BackendFails(r) \/ DropRequest(r)
    PROVE  AnswersOK'
<1>1. PICK q \in RequestState : q = req[r]
  BY DEF IInv, TypeOK
<1>2. PhaseOK(q) /\ UpdateOK(q, r)
  BY <1>1 DEF IInv, LocalOK, AnswersOK
<1>3. LeaveBehind(q) /\ UNCHANGED <<version, stored>>
  BY <1>1 DEF BackendFails, DropRequest, LeaveBehind
<1>4. PICK q2 : /\ Become(r, q2) /\ GoesOn(q, q2)
                /\ q.pc = "cas" /\ q.call = "update" => Settled(q2)
  <2>1. ASSUME NEW o, Become(r, Finish(q, o))
        PROVE  /\ GoesOn(q, Finish(q, o))
               /\ q.pc = "cas" /\ q.call = "update" => Settled(Finish(q, o))
    BY <1>2, Goings DEF Finish, RequestState, Settled, Over, UpdateOK
  <2>2. ASSUME q.pc \in {"load", "cas"}, Become(r, Returned(q, "Unavailable", q.held))
        PROVE  /\ GoesOn(q, Returned(q, "Unavailable", q.held))
               /\ q.pc = "cas" /\ q.call = "update"
                      => Settled(Returned(q, "Unavailable", q.held))
    <3>1. q.call \notin {"none", "save"}
      BY <1>2, <2>2 DEF PhaseOK, UpdateOK
    <3>2. GoesOn(q, Returned(q, "Unavailable", q.held))
      BY <2>2, <3>1, ReturnedGoesOn
    <3>3. q.call = "update" => Settled(Returned(q, "Unavailable", q.held))
      BY DEF Returned, HandlerReturned, RequestState, Settled, Over
    <3> QED BY <3>2, <3>3
  <2>3. ASSUME q.pc = "cleanup", Become(r, Returned(q, "Ok", q.held))
        PROVE  GoesOn(q, Returned(q, "Ok", q.held))
    BY <1>2, <2>3, ReturnedGoesOn DEF PhaseOK
  <2>4. \/ \E o : Become(r, Finish(q, o))
        \/ q.pc \in {"load", "cas"} /\ Become(r, Returned(q, "Unavailable", q.held))
        \/ q.pc = "cleanup" /\ Become(r, Returned(q, "Ok", q.held))
    BY <1>1, Zenon DEF BackendFails, DropRequest, ReturnTo
  <2> QED BY <2>1, <2>2, <2>3, <2>4
<1>5. ASSUME NEW w \in lateWrites', w \notin lateWrites, w.base = version
      PROVE  Adds(w.session, {x \in {r} : Settled(q2)})
  <2>1. w = q.write /\ q.pc = "cas"
    BY <1>3, <1>5 DEF LeaveBehind
  <2>2. Adds(w.session, IF q.call = "update" THEN {r} ELSE {})
    BY <1>2, <1>5, <2>1 DEF UpdateOK
  <2> QED BY <1>4, <2>1, <2>2 DEF Adds
<1> QED BY <1>1, <1>3, <1>4, <1>5, AnswersKeptOnTheWay

LEMMA AnswersKeptByEnvironment ==
    ASSUME IInv, AnswersOK, EnvironmentNext \/ UNCHANGED vars
    PROVE  AnswersOK'
<1>1. UNCHANGED req /\ lateWrites' \subseteq lateWrites
  BY DEF EnvironmentNext, LateWriteArrives, LateDeleteArrives, vars, storeVars
<1>2. SettledRequests' = SettledRequests
  BY <1>1 DEF SettledRequests, Settled, Over
<1>3. \A x \in Request : Settled(req[x]) => Settled(req[x])'
  BY <1>1 DEF Settled, Over
<1>4. \/ UNCHANGED <<version, stored>>
      \/ /\ version' = version + 1
         /\ stored.app \subseteq stored'.app
         /\ stored'.app \subseteq SettledRequests'
  <2>1. ASSUME NEW w \in lateWrites, CompareAndSwap(w)
        PROVE  \/ UNCHANGED <<version, stored>>
               \/ /\ version' = version + 1
                  /\ stored.app \subseteq stored'.app
                  /\ stored'.app \subseteq SettledRequests'
    <3>1. CASE SaveOutcome(w.base) = "Committed"
      <4>1. version = w.base /\ stored' = w.session /\ version' = version + 1
        BY <2>1, <3>1 DEF CompareAndSwap, SaveOutcome
      <4>2. Adds(w.session, SettledRequests) /\ stored.app \subseteq SettledRequests
        BY <4>1 DEF AnswersOK
      <4> QED BY <1>2, <4>1, <4>2 DEF Adds
    <3>2. CASE SaveOutcome(w.base) # "Committed"
      BY <2>1, <3>2 DEF CompareAndSwap
    <3> QED BY <3>1, <3>2
  <2>2. CASE LateWriteArrives
    BY <2>1, <2>2 DEF LateWriteArrives
  <2>3. CASE ~LateWriteArrives
    BY <2>3 DEF EnvironmentNext, LateDeleteArrives, vars, storeVars
  <2> QED BY <2>2, <2>3
<1> QED BY <1>1, <1>3, <1>4, AnswersKept

LEMMA AnswersInductive ==
    ASSUME IInv, AnswersOK, "save" \notin Handlers, [Next]_vars
    PROVE  AnswersOK'
<1>1. ASSUME NEW r \in Request, RequestNext(r) PROVE AnswersOK'
  BY <1>1, AnswersKeptByLocalSteps, AnswersKeptByLoads, AnswersKeptByWrites,
     AnswersKeptByFaults DEF RequestNext, Progress
<1> QED BY <1>1, AnswersKeptByEnvironment DEF Next

LEMMA AnswersInitially == Init => AnswersOK
<1> SUFFICES ASSUME Init PROVE AnswersOK
  OBVIOUS
<1>1. stored.app = {} /\ lateWrites = {} /\ \A r \in Request : req[r] = FreshRequest
  BY DEF Init, StoreInit, FromCompleted
<1> QED BY <1>1 DEF AnswersOK, UpdateOK, FreshRequest

(* ------------------- Strict rotation strands no token ------------------ *)

\* Every exchange retires the token it was given, and nothing has failed.
Strict == faults = 0 /\ ~withdrawn /\ Policy = {"retire"}

\* A response the request has still to persist.
Owed(q) == q.call \in {"eager", "deferred"} \/ q.outcome = "ActivePending"

\* The request holds the successor of the record's token, if only until it
\* deletes the record.
Successor(q) ==
    /\ Owed(q) \/ q.pc = "delete"
    /\ q.expected = stored.refresh_revision
    /\ q.response.refresh_token \in valid

\* What a write on its way does to the credentials it was proposed over.
ProposalOK(q) ==
    IF q.call \in {"eager", "deferred"}
    THEN /\ q.expected = stored.refresh_revision
         /\ q.write.session.refresh_revision = stored.refresh_revision + 1
         /\ q.write.session.refresh_token = q.response.refresh_token
    ELSE q.call # "teardown" =>
         /\ q.write.session.refresh_revision = stored.refresh_revision
         /\ q.write.session.refresh_token = stored.refresh_token

RotationOK(q) ==
    /\ q.pc = "start" => q.outcome # "ActivePending"
    /\ q.outcome = "PersistFailed" => q.pc = "done"
    /\ Owed(q) /\ q.expected = stored.refresh_revision =>
           stored.refresh_token \notin valid /\ q.response.refresh_token \in valid
    /\ q.pc = "cas" /\ q.write.base = version => ProposalOK(q)
    /\ q.pc \in {"refresh", "exchange"}
           /\ q.held.refresh_revision < stored.refresh_revision =>
           q.held.refresh_token \notin valid

\* Only the record's own token can be exchanged, and while its successor is
\* owed not even that one.
RotationInv ==
    Strict =>
        /\ lateWrites = {}
        /\ LoadLive =>
            /\ stored.refresh_token \notin valid \cup {NoToken} =>
                   \E r \in Request : Successor(req[r]) \/ req[r].outcome = "PersistFailed"
            /\ \A r \in Request : RotationOK(req[r])

\* A step that leaves the record's credentials and the valid tokens alone has
\* to show only what becomes of the request that takes it.
LEMMA RotationKept ==
    ASSUME IInv, RotationInv, Strict, LoadLive, lateWrites' = {},
           stored'.refresh_revision = stored.refresh_revision,
           stored'.refresh_token = stored.refresh_token,
           valid' = valid,
           version' = version \/ version' = version + 1,
           NEW r \in Request, NEW q2, Become(r, q2),
           req[r].pc # "done",
           RotationOK(q2)',
           Successor(req[r]) => Successor(q2)' \/ q2.outcome = "PersistFailed"
    PROVE  RotationInv'
<1>1. /\ req'[r] = q2
      /\ \A x \in Request \ {r} : req'[x] = req[x]
  BY DEF Become, IInv, TypeOK
<1>2. \A x \in Request : RotationOK(req[x])
  BY DEF RotationInv
<1>3. ASSUME NEW x \in Request PROVE RotationOK(req[x])'
  <2>1. CASE x = r
    BY <1>1, <2>1 DEF RotationOK, Owed, ProposalOK
  <2>2. CASE x # r
    <3>1. req[x].pc = "cas" => req[x].write.base # version + 1
      <4>1. req[x].pc = "cas" => /\ req[x].write.base \in Nat /\ version \in Nat
                                 /\ req[x].write.base <= version
        BY DEF IInv, LocalOK, WriteOK, TypeOK, StoreTypeOK, RequestState, Write
      <4> QED BY <4>1
    <3>2. req'[x] = req[x] /\ RotationOK(req[x])
      BY <1>1, <1>2, <2>2
    <3> QED BY <3>1, <3>2 DEF RotationOK, Owed, ProposalOK
  <2> QED BY <2>1, <2>2
<1>4. ASSUME stored'.refresh_token \notin valid' \cup {NoToken}
      PROVE  \E x \in Request : (Successor(req[x]) \/ req[x].outcome = "PersistFailed")'
  <2>1. PICK x \in Request : Successor(req[x]) \/ req[x].outcome = "PersistFailed"
    BY <1>4 DEF RotationInv
  <2>2. CASE x = r
    <3>1. req[r].outcome # "PersistFailed"
      BY <1>2 DEF RotationOK
    <3>2. Successor(q2)' \/ q2.outcome = "PersistFailed"
      BY <2>1, <2>2, <3>1
    <3> QED BY <1>1, <3>2 DEF Successor, Owed
  <2>3. CASE x # r
    <3>1. req'[x] = req[x]
      BY <1>1, <2>3
    <3> QED BY <2>1, <3>1 DEF Successor, Owed
  <2> QED BY <2>2, <2>3
<1> QED BY <1>3, <1>4 DEF RotationInv

\* The request goes on without a write of its own.
Passes(q, q2) ==
    /\ q2.pc \notin {"start", "cas"}
    /\ q2.outcome = "PersistFailed" => q2.pc = "done"
    /\ q2.pc \in {"refresh", "exchange"} =>
           q2.held = stored \/ (q.pc \in {"refresh", "exchange"} /\ q2.held = q.held)
    /\ Owed(q2) => Owed(q) /\ q2.expected = q.expected /\ q2.response = q.response
    /\ Successor(q) => Successor(q2) \/ q2.outcome = "PersistFailed"

LEMMA RotationKeptOnTheWay ==
    ASSUME IInv, RotationInv, NEW r \in Request, NEW q2, Become(r, q2),
           req[r].pc # "done",
           UNCHANGED <<version, stored, lateWrites, valid, withdrawn, faults>>,
           LoadLive' => LoadLive /\ (Strict => Passes(req[r], q2))
    PROVE  RotationInv'
<1>1. Strict' = Strict
  BY DEF Strict
<1>2. CASE ~Strict
  BY <1>1, <1>2 DEF RotationInv
<1>3. CASE Strict /\ ~LoadLive'
  BY <1>3 DEF RotationInv
<1>4. CASE Strict /\ LoadLive'
  <2>1. RotationOK(req[r]) /\ lateWrites = {} /\ LoadLive
    BY <1>4 DEF RotationInv
  <2>2. RotationOK(q2)'
    <3>1. stored.refresh_revision \in Nat
      BY MaxRevisionAssumption DEF IInv, TypeOK, StoreTypeOK, SessionState
    <3>2. Passes(req[r], q2)
      BY <1>4
    <3> QED BY <2>1, <3>1, <3>2 DEF RotationOK, Passes, Owed
  <2>3. Successor(req[r]) => Successor(q2)' \/ q2.outcome = "PersistFailed"
    BY <1>4 DEF Passes, Successor, Owed
  <2> QED BY <1>4, <2>1, <2>2, <2>3, RotationKept
<1> QED BY <1>2, <1>3, <1>4

LEMMA Passings ==
    ASSUME NEW q \in RequestState, ~Successor(q)
    PROVE  /\ \A o \in Outcome \ {"ActivePending"} : Passes(q, Finish(q, o))
           /\ \A s : /\ Passes(q, Serve(q, "Active", s))
                     /\ Passes(q, [Serve(q, "Active", s) EXCEPT !.expected = 0])
<1>1. ASSUME NEW o \in Outcome \ {"ActivePending"} PROVE Passes(q, Finish(q, o))
  BY <1>1 DEF Finish, RequestState, Passes, Owed
<1>2. ASSUME NEW s
      PROVE  /\ Passes(q, Serve(q, "Active", s))
             /\ Passes(q, [Serve(q, "Active", s) EXCEPT !.expected = 0])
  BY DEF Serve, RequestState, Passes, Owed
<1> QED BY <1>1, <1>2

\* A driver call gives a successor up only once it is committed, replaced or
\* without a record, or with PersistFailed.
LEMMA ReturnedPasses ==
    ASSUME NEW q \in RequestState, NEW reply \in Reply, NEW s,
           q.pc \in {"load", "cas", "cleanup"}, PhaseOK(q), q.outcome # "PersistFailed",
           q.call \in {"eager", "deferred"} /\ reply \in {"Ok", "Gone"} => ~Successor(q)
    PROVE  Passes(q, Returned(q, reply, s))
<1>1. CASE q.call = "eager"
  <2>1. CASE reply = "Ok"
    <3>1. Passes(q, [Serve(q, "Active", s) EXCEPT !.expected = 0, !.response = NoResponse])
      BY <1>1, <2>1 DEF Serve, RequestState, Passes, Owed
    <3> QED BY <1>1, <2>1, <3>1 DEF Returned, EagerReturned
  <2>2. CASE reply = "Gone"
    BY <1>1, <2>2, Passings DEF Returned, EagerReturned, Outcome
  <2>3. CASE reply \notin {"Ok", "Gone"}
    <3> DEFINE v == Serve(q, "ActivePending", Refreshed(q.held, q.response))
    <3>1. /\ v.pc = "handler" /\ v.outcome = "ActivePending" /\ v.call = "none"
          /\ v.expected = q.expected /\ v.response = q.response
      BY DEF Serve, RequestState
    <3>2. Returned(q, reply, s) = v
      BY <1>1, <2>3 DEF Returned, EagerReturned
    <3> HIDE DEF v
    <3>3. Passes(q, v)
      BY <1>1, <3>1 DEF Passes, Successor, Owed
    <3> QED BY <3>2, <3>3
  <2> QED BY <2>1, <2>2, <2>3
<1>2. CASE q.call = "deferred"
  <2>1. Passes(q, Finish(q, "PersistFailed"))
    BY DEF Finish, RequestState, Passes, Owed
  <2>2. reply = "Ok" => Passes(q, Finish(q, "Active"))
    BY <1>2, Passings DEF Outcome
  <2> QED BY <1>2, <2>1, <2>2 DEF Returned, DeferredReturned
<1>3. CASE q.call = "teardown"
  <2>1. ~Successor(q)
    BY <1>3 DEF PhaseOK, Successor, Owed
  <2>2. \A x : TeardownReturned(q, x) \in
            {Finish(q, "RefreshUnavailable"), Finish(q, "ClearedNoToken"),
             Finish(q, "ClearedRejected")}
    BY DEF TeardownReturned
  <2>3. \A o \in {"RefreshUnavailable", "ClearedNoToken", "ClearedRejected"} :
            Passes(q, Finish(q, o))
    BY <2>1, Passings DEF Outcome
  <2>4. \A x : Passes(q, TeardownReturned(q, x))
    BY <2>2, <2>3
  <2> QED BY <1>3, <2>4 DEF Returned
<1>4. CASE q.call \in {"update", "save"}
  <2> DEFINE v == HandlerReturned(q, reply)
  <2>1. /\ v.pc = "respond" /\ v.call = "none" /\ v.outcome = q.outcome
        /\ v.expected = q.expected /\ v.response = q.response
    BY DEF HandlerReturned, RequestState
  <2>2. Returned(q, reply, s) = v
    BY <1>4 DEF Returned
  <2> HIDE DEF v
  <2>3. Passes(q, v)
    BY <1>4, <2>1 DEF Passes, Successor, Owed
  <2> QED BY <2>2, <2>3
<1> QED BY <1>1, <1>2, <1>3, <1>4 DEF RequestState, Call, PhaseOK

LEMMA RotationKeptByLocalSteps ==
    ASSUME IInv, RotationInv, NEW r \in Request,
           \/ LoadSession(r) \/ Logout(r) \/ Supersede(r)
           \/ StartRefresh(r) \/ ExchangeRejected(r) \/ ExchangeUnavailable(r)
           \/ Handle(r) \/ Respond(r) \/ DeleteRecord(r) \/ CleanUp(r)
    PROVE  RotationInv'
<1>1. PICK q \in RequestState : q = req[r]
  BY DEF IInv, TypeOK
<1>2. PhaseOK(q)
  BY <1>1 DEF IInv, LocalOK
<1>3. UNCHANGED <<version, stored, lateWrites, valid, withdrawn, faults>> /\ q.pc # "done"
  BY <1>1 DEF LoadSession, Logout, Supersede, StartRefresh, ExchangeRejected,
     ExchangeUnavailable, Handle, Respond, DeleteRecord, CleanUp, storeVars, serverVars
<1>4. Strict /\ LoadLive => RotationOK(q)
  BY <1>1 DEF RotationInv
<1>5. CASE DeleteRecord(r) \/ CleanUp(r)
  <2>1. PICK q2 : Become(r, q2)
    BY <1>5 DEF DeleteRecord, CleanUp, ReturnTo
  <2>2. ~LoadLive'
    BY <1>5 DEF DeleteRecord, CleanUp, Delete, LoadLive
  <2> QED BY <1>1, <1>3, <2>1, <2>2, RotationKeptOnTheWay
<1>6. ASSUME ~DeleteRecord(r), ~CleanUp(r),
             NEW q2, Become(r, q2), Strict /\ LoadLive => Passes(q, q2)
      PROVE  RotationInv'
  <2>1. LoadLive' => LoadLive
    BY <1>6 DEF LoadSession, Logout, Supersede, StartRefresh, ExchangeRejected,
       ExchangeUnavailable, Handle, Respond, storeVars, LoadLive
  <2> QED BY <1>1, <1>3, <1>6, <2>1, RotationKeptOnTheWay
<1>7. CASE ~DeleteRecord(r) /\ ~CleanUp(r) /\ ~(Strict /\ LoadLive)
  <2>1. PICK q2 : Become(r, q2)
    BY <1>7 DEF LoadSession, Logout, Supersede, StartRefresh, ExchangeRejected,
       ExchangeUnavailable, ExchangeFailed, Handle, Respond
  <2> QED BY <1>6, <1>7, <2>1
<1>8. CASE ~DeleteRecord(r) /\ ~CleanUp(r) /\ Strict /\ LoadLive
  <2>1. CASE LoadSession(r) \/ Logout(r) \/ Supersede(r)
    <3>1. q.pc = "start" /\ q.call = "none" /\ q.outcome # "ActivePending" /\ ~Successor(q)
      BY <1>1, <1>2, <1>4, <1>8, <2>1
         DEF LoadSession, Logout, Supersede, PhaseOK, RotationOK, Successor, Owed
    <3>2. ASSUME NEW pc \in {"delete", "refresh"},
                 NEW o \in {"LoggedOut", "Superseded", "ClearedPolicy", "none"}
          PROVE  /\ Passes(q, [q EXCEPT !.pc = "delete", !.outcome = o])
                 /\ Passes(q, [q EXCEPT !.pc = pc, !.held = stored, !.outcome = o])
      BY <3>1 DEF Passes, RequestState, Owed
    <3>3. \/ \E o \in {"LoggedOut", "Superseded", "ClearedInvalid"} : Become(r, Finish(q, o))
          \/ Become(r, Serve(q, "Active", stored))
          \/ \E o \in {"LoggedOut", "Superseded", "ClearedPolicy", "none"} :
                 Become(r, [q EXCEPT !.pc = "delete", !.outcome = o])
          \/ \E pc \in {"delete", "refresh"},
                o \in {"LoggedOut", "Superseded", "ClearedPolicy", "none"} :
                 Become(r, [q EXCEPT !.pc = pc, !.held = stored, !.outcome = o])
      BY <1>1, <2>1 DEF LoadSession, Logout, Supersede
    <3>4. \A o \in {"LoggedOut", "Superseded", "ClearedInvalid"} : Passes(q, Finish(q, o))
      BY <3>1, Passings DEF Outcome
    <3> QED BY <1>6, <1>8, <3>1, <3>2, <3>3, <3>4, Passings
  <2>2. CASE StartRefresh(r)
    <3> DEFINE e == [q EXCEPT !.expected = q.held.refresh_revision]
    <3>1. /\ q.pc = "refresh"
          /\ \/ Become(r, [e EXCEPT !.pc = "exchange", !.attempt = 0])
             \/ Become(r, Serve(e, "Active", e.held))
             \/ Become(r, Enter(e, "teardown"))
      BY <1>1, <2>2 DEF StartRefresh
    <3>2. q.call = "none" /\ q.outcome = "none" /\ ~Successor(q)
      BY <1>2, <3>1 DEF PhaseOK, Successor, Owed
    <3>3. /\ Passes(q, [e EXCEPT !.pc = "exchange", !.attempt = 0])
          /\ Passes(q, Serve(e, "Active", e.held))
          /\ Passes(q, Enter(e, "teardown"))
      BY <3>1, <3>2 DEF Passes, Serve, Enter, RequestState, Owed
    <3> QED BY <1>6, <1>8, <3>1, <3>3
  <2>3. CASE ExchangeRejected(r) \/ ExchangeUnavailable(r)
    <3>1. /\ q.pc = "exchange"
          /\ \/ Become(r, Enter(q, "teardown"))
             \/ Become(r, [q EXCEPT !.attempt = @ + 1])
             \/ Become(r, Finish(q, "RefreshUnavailable"))
             \/ Become(r, [Serve(q, "Active", q.held) EXCEPT !.expected = 0])
      BY <1>1, <2>3 DEF ExchangeRejected, ExchangeUnavailable, ExchangeFailed
    <3>2. q.call = "none" /\ q.outcome = "none" /\ ~Successor(q)
      BY <1>2, <3>1 DEF PhaseOK, Successor, Owed
    <3>3. /\ Passes(q, Enter(q, "teardown"))
          /\ Passes(q, [q EXCEPT !.attempt = @ + 1])
      BY <3>1, <3>2 DEF Passes, Enter, RequestState, Owed
    <3>4. Passes(q, Finish(q, "RefreshUnavailable"))
      BY <3>2, Passings DEF Outcome
    <3> QED BY <1>6, <1>8, <3>1, <3>2, <3>3, <3>4, Passings
  <2>4. CASE Handle(r)
    <3>1. /\ q.pc = "handler"
          /\ \/ Become(r, Enter(q, "update"))
             \/ \E s : Become(r, Enter([q EXCEPT !.held = s], "save"))
             \/ Become(r, [q EXCEPT !.pc = "delete", !.outcome = "LoggedOut"])
             \/ Become(r, [q EXCEPT !.pc = "respond"])
      BY <1>1, <2>4 DEF Handle
    <3>2. q.call = "none" /\ q.outcome # "PersistFailed"
      BY <1>2, <1>4, <1>8, <3>1 DEF PhaseOK, RotationOK
    <3>3. ASSUME NEW s
          PROVE  /\ Passes(q, Enter(q, "update"))
                 /\ Passes(q, Enter([q EXCEPT !.held = s], "save"))
                 /\ Passes(q, [q EXCEPT !.pc = "delete", !.outcome = "LoggedOut"])
                 /\ Passes(q, [q EXCEPT !.pc = "respond"])
      BY <3>1, <3>2 DEF Passes, Enter, RequestState, Owed, Successor
    <3> QED BY <1>6, <1>8, <3>1, <3>3
  <2>5. CASE Respond(r)
    <3>1. /\ q.pc = "respond"
          /\ \/ q.outcome = "ActivePending" /\ Become(r, Enter(q, "deferred"))
             \/ q.outcome # "ActivePending" /\ Become(r, Finish(q, q.outcome))
      BY <1>1, <2>5 DEF Respond
    <3>2. q.outcome = "ActivePending" => Passes(q, Enter(q, "deferred"))
      BY DEF Passes, Enter, RequestState, Owed, Successor
    <3>3. q.outcome # "ActivePending" => Passes(q, Finish(q, q.outcome))
      <4>1. q.outcome # "ActivePending" => ~Successor(q)
        BY <1>2, <3>1 DEF PhaseOK, Successor, Owed
      <4> QED BY <4>1, Passings DEF RequestState
    <3> QED BY <1>6, <1>8, <3>1, <3>2, <3>3
  <2> QED BY <1>8, <2>1, <2>2, <2>3, <2>4, <2>5
<1> QED BY <1>5, <1>7, <1>8

\* Under strict rotation an exchange presents the record's own token, so no
\* other successor is owed when a new one is issued.
LEMMA RotationKeptByExchange ==
    ASSUME IInv, RotationInv, NEW r \in Request, ExchangeSucceeds(r)
    PROVE  RotationInv'
<1>1. PICK q \in RequestState : q = req[r]
  BY DEF IInv, TypeOK
<1>2. /\ q.pc = "exchange" /\ LocalOK(q) /\ UNCHANGED <<storeVars, faults>>
      /\ UNCHANGED <<present, version, stored, lateWrites, withdrawn>>
  BY <1>1 DEF ExchangeSucceeds, Exchange, IInv, storeVars
<1>3. CASE ~Strict \/ ~LoadLive
  BY <1>2, <1>3 DEF RotationInv, Strict, LoadLive
<1>4. CASE Strict /\ LoadLive
  <2> DEFINE q2 == [Enter(q, "eager") EXCEPT !.response = Response("retire")]
  <2>1. /\ Exchange(q.held.refresh_token, "retire") /\ Become(r, q2)
        /\ q.held.refresh_token \in valid
    BY <1>1, <1>4 DEF ExchangeSucceeds, Strict, Exchange
  <2>2. issued \in Nat /\ \A t \in valid : t \in Nat /\ t <= issued
    BY DEF IInv, TypeOK, ServerTypeOK
  <2>3. \A x \in Request : RotationOK(req[x])
    BY <1>4 DEF RotationInv
  <2>4. /\ q.held.refresh_token = stored.refresh_token
        /\ q.expected = stored.refresh_revision
    <3>1. q.held.refresh_revision \in Nat /\ stored.refresh_revision \in Nat
      BY MaxRevisionAssumption DEF IInv, TypeOK, StoreTypeOK, SessionState, RequestState
    <3>2. CopyOK(q.held)
      BY <1>2, <1>4 DEF LocalOK, PhaseOK, Copies, Pc
    <3>3. ~(q.held.refresh_revision < stored.refresh_revision)
      BY <1>1, <1>2, <2>1, <2>3 DEF RotationOK
    <3>4. q.held.refresh_revision = stored.refresh_revision
      BY <3>1, <3>2, <3>3 DEF CopyOK
    <3> QED BY <1>2, <3>2, <3>4 DEF CopyOK, Credentials, LocalOK, PhaseOK
  <2>5. valid' = (valid \ {stored.refresh_token}) \cup {issued + 1}
    BY <2>1, <2>4 DEF Exchange
  <2>6. /\ q2.pc = "load" /\ q2.call = "eager" /\ q2.expected = q.expected
        /\ q2.outcome = q.outcome /\ q2.response.refresh_token = issued + 1
    BY DEF Enter, RequestState, Response
  <2>7. stored.refresh_token \notin valid'
    BY <2>1, <2>2, <2>4, <2>5
  <2> HIDE DEF q2
  <2>8. /\ req'[r] = q2
        /\ \A x \in Request \ {r} : req'[x] = req[x]
    BY <1>1, <2>1 DEF Become, IInv, TypeOK
  <2>9. q.outcome = "none"
    BY <1>2 DEF LocalOK, PhaseOK
  <2>10. Successor(req[r])'
    BY <1>2, <2>4, <2>5, <2>6, <2>8 DEF Successor, Owed
  <2>11. ASSUME NEW x \in Request PROVE RotationOK(req[x])'
    <3>1. CASE x = r
      BY <1>2, <2>4, <2>5, <2>6, <2>7, <2>8, <2>9, <3>1 DEF RotationOK, Owed
    <3>2. CASE x # r
      <4>1. req'[x] = req[x] /\ RotationOK(req[x])
        BY <2>3, <2>8, <3>2
      <4>2. ~(Owed(req[x]) /\ req[x].expected = stored.refresh_revision)
        BY <2>1, <2>4, <4>1 DEF RotationOK
      <4>3. req[x].held.refresh_token # issued + 1
        <5>1. Known(req[x].held) /\ req[x].held.refresh_token \in Nat \cup {NoToken}
          BY DEF IInv, LocalOK, TypeOK, RequestState, SessionState, Token
        <5> QED BY <2>2, <5>1, NoTokenAssumption DEF Known
      <4> QED BY <1>2, <2>5, <4>1, <4>2, <4>3 DEF RotationOK, Owed, ProposalOK
    <3> QED BY <3>1, <3>2
  <2> QED BY <1>2, <1>4, <2>10, <2>11 DEF RotationInv
<1> QED BY <1>3, <1>4

LEMMA RotationKeptByProposal ==
    ASSUME IInv, RotationInv, NEW r \in Request, NEW s \in SessionState,
           req[r].pc = "load", Propose(r, s), UNCHANGED <<storeVars, serverVars, faults>>,
           IF req[r].call \in {"eager", "deferred"}
           THEN /\ req[r].expected = stored.refresh_revision
                /\ s.refresh_revision = stored.refresh_revision + 1
                /\ Policy = {"retire"} /\ LoadLive /\ req[r].response.refresh_token \in valid
                       => s.refresh_token = req[r].response.refresh_token
           ELSE req[r].call # "teardown" =>
                /\ s.refresh_revision = stored.refresh_revision
                /\ s.refresh_token = stored.refresh_token
    PROVE  RotationInv'
<1>1. PICK q \in RequestState : q = req[r]
  BY DEF IInv, TypeOK
<1>2. UNCHANGED <<present, version, stored, lateWrites, valid, withdrawn, faults>>
  BY DEF storeVars, serverVars
<1>3. CASE ~Strict \/ ~LoadLive
  BY <1>2, <1>3 DEF RotationInv, Strict, LoadLive
<1>4. CASE Strict /\ LoadLive
  <2>0. PICK v : v = [q EXCEPT !.pc = "cas", !.write = [base |-> version, session |-> s]]
    OBVIOUS
  <2>1. Become(r, v)
    BY <1>1, <2>0 DEF Propose
  <2>2. /\ v.pc = "cas" /\ v.call = q.call /\ v.outcome = q.outcome /\ v.expected = q.expected
        /\ v.response = q.response /\ v.write.session = s
    BY <2>0 DEF RequestState
  <2>3. RotationOK(q) /\ lateWrites = {}
    BY <1>1, <1>4 DEF RotationInv
  <2>4. RotationOK(v)'
    <3>1. ProposalOK(v)'
      BY <1>1, <1>2, <1>4, <2>2, <2>3 DEF ProposalOK, RotationOK, Owed, Strict
    <3> QED BY <1>1, <1>2, <2>2, <2>3, <3>1 DEF RotationOK, Owed
  <2>5. Successor(q) => Successor(v)'
    BY <1>1, <1>2, <2>2 DEF Successor, Owed
  <2> QED BY <1>1, <1>2, <1>4, <2>1, <2>3, <2>4, <2>5, RotationKept
<1> QED BY <1>3, <1>4

LEMMA RotationKeptByLoads ==
    ASSUME IInv, RotationInv, NEW r \in Request,
           LoadForCommit(r) \/ LoadForUpdate(r) \/ LoadForSave(r) \/ LoadForTeardown(r)
    PROVE  RotationInv'
<1>1. PICK q \in RequestState : q = req[r]
  BY DEF IInv, TypeOK
<1>2. /\ q.pc = "load" /\ PhaseOK(q)
      /\ stored \in SessionState /\ q.response \in [token_expiry: Nat, refresh_token: Token]
      /\ q.held \in SessionState
  BY <1>1 DEF LoadForCommit, LoadForUpdate, LoadForSave, LoadForTeardown,
     IInv, LocalOK, TypeOK, StoreTypeOK, RequestState
<1>3. /\ UNCHANGED <<storeVars, serverVars, faults>>
      /\ UNCHANGED <<present, version, stored, lateWrites, valid, withdrawn, faults>>
  BY DEF LoadForCommit, LoadForUpdate, LoadForSave, LoadForTeardown, storeVars, serverVars
<1>4. Strict /\ LoadLive => RotationOK(q)
  BY <1>1 DEF RotationInv
<1>5. ASSUME NEW q2, Become(r, q2), Strict /\ LoadLive => Passes(q, q2)
      PROVE  RotationInv'
  <2>1. LoadLive' => LoadLive
    BY <1>3 DEF LoadLive
  <2> QED BY <1>1, <1>2, <1>3, <1>5, <2>1, RotationKeptOnTheWay
<1>6. ASSUME NEW reply \in Reply, NEW s, ReturnTo(r, reply, s),
             LoadLive /\ q.call \in {"eager", "deferred"} /\ reply \in {"Ok", "Gone"}
                 => ~Successor(q)
      PROVE  RotationInv'
  <2>1. Strict /\ LoadLive => Passes(q, Returned(q, reply, s))
    BY <1>2, <1>4, <1>6, ReturnedPasses DEF RotationOK
  <2> QED BY <1>1, <1>5, <1>6, <2>1 DEF ReturnTo
<1>7. CASE LoadForCommit(r)
  <2>1. CASE ~LoadLive /\ ReturnTo(r, "Gone", q.held)
    BY <1>6, <2>1 DEF Reply
  <2>2. CASE ~CommitsOver(stored, q.expected) /\ ReturnTo(r, "Ok", stored)
    BY <1>6, <2>2 DEF Reply, CommitsOver, Successor
  <2>3. CASE ReturnTo(r, "Store", q.held)
    BY <1>6, <2>3 DEF Reply
  <2>4. CASE /\ CommitsOver(stored, q.expected) /\ stored.refresh_revision < MaxRevision
             /\ Propose(r, CommitCandidate(stored, q.response))
    <3> DEFINE s == CommitCandidate(stored, q.response)
    <3>1. s \in SessionState
      BY <1>2, <2>4, SessionTypes
    <3>2. /\ s.refresh_revision = stored.refresh_revision + 1
          /\ q.response.refresh_token # NoToken => s.refresh_token = q.response.refresh_token
      BY <1>2 DEF CommitCandidate, Refreshed, SessionState
    <3>3. NoToken \notin valid
      <4>1. valid \subseteq Nat
        BY DEF IInv, TypeOK, ServerTypeOK
      <4> QED BY <4>1, NoTokenAssumption
    <3>4. q.call \in {"eager", "deferred"} /\ q.expected = stored.refresh_revision
      BY <1>1, <1>7, <2>4 DEF LoadForCommit, CommitsOver
    <3> HIDE DEF s
    <3> QED BY <1>1, <1>2, <1>3, <2>4, <3>1, <3>2, <3>3, <3>4, RotationKeptByProposal DEF s
  <2> QED BY <1>1, <1>7, <2>1, <2>2, <2>3, <2>4 DEF LoadForCommit
<1>8. CASE LoadForUpdate(r)
  <2>1. /\ q.call = "update"
        /\ \/ \E reply \in {"Gone", "Refused"} : ReturnTo(r, reply, q.held)
           \/ Propose(r, Mutated(stored, r))
    BY <1>1, <1>8 DEF LoadForUpdate
  <2>2. /\ Mutated(stored, r) \in SessionState
        /\ Mutated(stored, r).refresh_revision = stored.refresh_revision
        /\ Mutated(stored, r).refresh_token = stored.refresh_token
    BY <1>2 DEF Mutated, SessionState
  <2> QED BY <1>1, <1>2, <1>3, <1>6, <2>1, <2>2, RotationKeptByProposal DEF Reply
<1>9. CASE LoadForSave(r)
  <2> DEFINE s == [q.held EXCEPT !.token_expiry = stored.token_expiry]
  <2>1. /\ q.call = "save"
        /\ \/ \E reply \in {"Gone", "Conflict"} : ReturnTo(r, reply, q.held)
           \/ MatchesPersistedRefresh(q.held, stored) /\ Propose(r, s)
    BY <1>1, <1>9 DEF LoadForSave
  <2>2. /\ s \in SessionState
        /\ MatchesPersistedRefresh(q.held, stored) =>
               /\ s.refresh_revision = stored.refresh_revision
               /\ s.refresh_token = stored.refresh_token
    BY <1>2 DEF MatchesPersistedRefresh, Credentials, SessionState
  <2> HIDE DEF s
  <2> QED BY <1>1, <1>2, <1>3, <1>6, <2>1, <2>2, RotationKeptByProposal DEF Reply
<1>10. CASE LoadForTeardown(r)
  <2>1. /\ q.call = "teardown"
        /\ \/ ReturnTo(r, "Ok", q.held)
           \/ Become(r, [q EXCEPT !.pc = "cleanup"])
           \/ Become(r, Finish(q, "RefreshUnavailable"))
           \/ Become(r, [Serve(q, "Active", stored) EXCEPT !.expected = 0])
           \/ Propose(r, Tombstone(stored))
    BY <1>1, <1>10 DEF LoadForTeardown
  <2>2. q.outcome = "none" /\ ~Successor(q)
    BY <1>2, <2>1 DEF PhaseOK, Successor, Owed
  <2>3. Passes(q, [q EXCEPT !.pc = "cleanup"])
    BY <2>1, <2>2 DEF Passes, RequestState, Owed
  <2>4. Passes(q, Finish(q, "RefreshUnavailable"))
    BY <2>2, Passings DEF Outcome
  <2>5. Tombstone(stored) \in SessionState
    BY <1>2, SessionTypes DEF RequestState
  <2> QED BY <1>1, <1>2, <1>3, <1>5, <1>6, <2>1, <2>2, <2>3, <2>4, <2>5, Passings,
             RotationKeptByProposal DEF Reply
<1> QED BY <1>7, <1>8, <1>9, <1>10

\* A committed response makes its own token the record's, which no exchange
\* has retired meanwhile.
LEMMA RotationKeptByCommit ==
    ASSUME IInv, RotationInv, Strict, LoadLive, NEW r \in Request,
           req[r].pc = "cas", req[r].call \in {"eager", "deferred"},
           req[r].write.base = version,
           stored' = req[r].write.session, version' = version + 1,
           UNCHANGED <<valid, lateWrites>>,
           ReturnTo(r, "Ok", req[r].write.session)
    PROVE  RotationInv'
<1>1. PICK q \in RequestState : q = req[r]
  BY DEF IInv, TypeOK
<1>2. \A x \in Request : RotationOK(req[x])
  BY DEF RotationInv
<1>3. /\ q.expected = stored.refresh_revision
      /\ stored'.refresh_revision = stored.refresh_revision + 1
      /\ stored'.refresh_token = q.response.refresh_token
  BY <1>1, <1>2 DEF RotationOK, ProposalOK
<1>4. stored.refresh_token \notin valid /\ stored'.refresh_token \in valid
  BY <1>1, <1>2, <1>3 DEF RotationOK, Owed
<1>5. stored.refresh_revision \in Nat /\ version \in Nat
  BY MaxRevisionAssumption DEF IInv, TypeOK, StoreTypeOK, SessionState
<1>6. PICK q2 : q2 = Returned(q, "Ok", q.write.session)
  OBVIOUS
<1>7. /\ req'[r] = q2
      /\ \A x \in Request \ {r} : req'[x] = req[x]
  BY <1>1, <1>6 DEF ReturnTo, Become, IInv, TypeOK
<1>8. q2.pc \in {"handler", "done"} /\ q2.call = "none" /\ q2.outcome = "Active"
  BY <1>1, <1>6 DEF Returned, EagerReturned, DeferredReturned, Serve, Finish, RequestState
<1>9. ASSUME NEW x \in Request PROVE RotationOK(req[x])'
  <2>1. CASE x = r
    BY <1>7, <1>8, <2>1 DEF RotationOK, Owed
  <2>2. CASE x # r
    <3>1. req'[x] = req[x] /\ RotationOK(req[x]) /\ LocalOK(req[x])
      BY <1>2, <1>7, <2>2 DEF IInv
    <3>2. /\ req[x] \in RequestState
          /\ req[x].expected \in Nat /\ req[x].held.refresh_revision \in Nat
      BY MaxRevisionAssumption DEF IInv, TypeOK, RequestState, SessionState
    <3>3. Owed(req[x]) => req[x].expected # stored'.refresh_revision
      <4>1. Owed(req[x]) => req[x].expected <= stored.refresh_revision
        BY <3>1 DEF LocalOK, Owed, ResponseOK
      <4> QED BY <1>3, <1>5, <3>2, <4>1
    <3>4. req[x].pc = "cas" => req[x].write.base # version'
      <4>1. req[x].pc = "cas" => req[x].write.base \in Nat /\ req[x].write.base <= version
        BY <3>1, <3>2 DEF LocalOK, WriteOK, RequestState, Write
      <4> QED BY <1>5, <4>1
    <3>5. req[x].pc \in {"refresh", "exchange"} => req[x].held.refresh_token \notin valid
      <4>1. ASSUME req[x].pc \in {"refresh", "exchange"}
            PROVE  req[x].held.refresh_token \notin valid
        <5>1. CopyOK(req[x].held)
          BY <3>1, <4>1 DEF LocalOK, PhaseOK, Copies, Pc
        <5>2. CASE req[x].held.refresh_revision < stored.refresh_revision
          BY <3>1, <4>1, <5>2 DEF RotationOK
        <5>3. CASE req[x].held.refresh_revision = stored.refresh_revision
          BY <1>4, <5>1, <5>3 DEF CopyOK, Credentials
        <5> QED BY <1>5, <3>2, <5>1, <5>2, <5>3 DEF CopyOK
      <4> QED BY <4>1
    <3>6. Owed(req[x])' = Owed(req[x])
      BY <3>1 DEF Owed
    <3> QED BY <3>1, <3>3, <3>4, <3>5, <3>6 DEF RotationOK
  <2> QED BY <2>1, <2>2
<1> QED BY <1>4, <1>9 DEF RotationInv

LEMMA RotationKeptByWrites ==
    ASSUME IInv, RotationInv, NEW r \in Request, AnswerWrite(r)
    PROVE  RotationInv'
<1>1. PICK q \in RequestState : q = req[r]
  BY DEF IInv, TypeOK
<1>2. /\ q.pc = "cas" /\ LocalOK(q) /\ PhaseOK(q) /\ q.call # "none"
      /\ UNCHANGED <<lateWrites, valid, withdrawn, faults>>
  BY <1>1 DEF AnswerWrite, IInv, LocalOK, PhaseOK, serverVars
<1>3. CASE ~Strict
  BY <1>2, <1>3 DEF RotationInv, Strict
<1>4. CASE Strict /\ ~LoadLive'
  BY <1>2, <1>4 DEF RotationInv, Strict
<1>5. CASE Strict /\ LoadLive'
  <2>1. LoadLive
    <3>1. StoreMoves
      BY <1>1, RecordMoves DEF Next, RequestNext, Progress
    <3> QED BY <1>5, <3>1 DEF StoreMoves, LoadLive
  <2>2. RotationOK(q) /\ lateWrites = {}
    BY <1>1, <1>5, <2>1 DEF RotationInv
  <2>3. CASE SaveOutcome(q.write.base) = "Committed"
    <3>1. /\ version = q.write.base /\ version' = version + 1 /\ stored' = q.write.session
          /\ q.call # "teardown" => ReturnTo(r, "Ok", q.write.session)
      BY <1>1, <2>3 DEF AnswerWrite, CompareAndSwap, SaveOutcome
    <3>2. q.call # "teardown"
      BY <1>2, <1>5, <3>1 DEF LocalOK, LoadLive
    <3>3. CASE q.call \in {"eager", "deferred"}
      BY <1>1, <1>2, <1>5, <2>1, <3>1, <3>3, RotationKeptByCommit
    <3>4. CASE q.call \in {"update", "save"}
      <4>1. /\ stored'.refresh_revision = stored.refresh_revision
            /\ stored'.refresh_token = stored.refresh_token
        BY <1>2, <2>2, <3>1, <3>4 DEF RotationOK, ProposalOK
      <4>2. PICK q2 : q2 = HandlerReturned(q, "Ok")
        OBVIOUS
      <4>3. Become(r, q2)
        BY <1>1, <3>1, <3>4, <4>2 DEF ReturnTo, Returned
      <4>4. /\ q2.pc = "respond" /\ q2.call = "none" /\ q2.outcome = q.outcome
            /\ q2.expected = q.expected /\ q2.response = q.response
        BY <4>2 DEF HandlerReturned, RequestState
      <4>5. RotationOK(q2)' /\ (Successor(q) => Successor(q2)')
        BY <1>2, <2>2, <3>4, <4>1, <4>4 DEF RotationOK, Owed, Successor
      <4> QED BY <1>1, <1>2, <1>5, <2>1, <2>2, <3>1, <4>1, <4>3, <4>5, RotationKept
    <3> QED BY <1>2, <3>2, <3>3, <3>4 DEF RequestState, Call
  <2>4. CASE SaveOutcome(q.write.base) # "Committed"
    <3>1. /\ UNCHANGED <<version, stored>>
          /\ \/ Become(r, Returned(q, "Conflict", q.held))
             \/ Become(r, [q EXCEPT !.pc = "load", !.attempt = @ + 1, !.write = NoWrite])
      BY <1>1, <2>1, <2>4 DEF AnswerWrite, CompareAndSwap, ReturnTo, SaveOutcome, LoadLive
    <3>2. Passes(q, [q EXCEPT !.pc = "load", !.attempt = @ + 1, !.write = NoWrite])
      BY <1>2, <2>2 DEF Passes, RequestState, Successor, Owed, RotationOK
    <3>3. Passes(q, Returned(q, "Conflict", q.held))
      BY <1>2, <2>2, ReturnedPasses DEF RotationOK, Reply
    <3> QED BY <1>1, <1>2, <2>1, <3>1, <3>2, <3>3, RotationKeptOnTheWay
  <2> QED BY <2>3, <2>4
<1> QED BY <1>3, <1>4, <1>5

LEMMA RotationKeptByEnvironment ==
    ASSUME IInv, RotationInv, EnvironmentNext \/ UNCHANGED vars
    PROVE  RotationInv'
<1>1. UNCHANGED <<req, faults>> /\ lateWrites' \subseteq lateWrites /\ (withdrawn => withdrawn')
  BY DEF EnvironmentNext, LateWriteArrives, LateDeleteArrives, AccessTokenExpires,
     WithdrawTokens, vars, storeVars, serverVars
<1>2. CASE ~Strict' \/ ~LoadLive'
  BY <1>1, <1>2 DEF RotationInv, Strict
<1>3. CASE Strict' /\ LoadLive'
  <2>1. Strict /\ lateWrites = {}
    BY <1>1, <1>3 DEF Strict, RotationInv
  <2>2. ~LateWriteArrives /\ ~LateDeleteArrives /\ ~WithdrawTokens
    BY <1>3, <2>1 DEF LateWriteArrives, LateDeleteArrives, Delete, LoadLive, WithdrawTokens,
                      Strict
  <2>3. UNCHANGED <<present, version, stored, lateWrites, valid>>
    BY <2>2 DEF EnvironmentNext, AccessTokenExpires, vars, storeVars, serverVars
  <2>4. LoadLive
    BY <1>3, <2>3 DEF LoadLive
  <2>5. \A x \in Request : RotationOK(req[x])'
    BY <1>1, <2>1, <2>3, <2>4 DEF RotationInv, RotationOK, Owed, ProposalOK
  <2>6. \A x \in Request : Successor(req[x]) => Successor(req[x])'
    BY <1>1, <2>3 DEF Successor, Owed
  <2> QED BY <1>1, <2>1, <2>3, <2>4, <2>5, <2>6 DEF RotationInv
<1> QED BY <1>2, <1>3

LEMMA RotationInductive ==
    ASSUME IInv, RotationInv, [Next]_vars
    PROVE  RotationInv'
<1>1. ASSUME NEW r \in Request,
             ExchangeAnswerLost(r) \/ BackendFails(r) \/ DropRequest(r)
      PROVE  RotationInv'
  <2>1. faults' # 0
    <3>1. faults \in Nat /\ faults' = faults + 1
      BY <1>1, BoundsAssumption
         DEF ExchangeAnswerLost, BackendFails, DropRequest, IInv, TypeOK
    <3> QED BY <3>1
  <2> QED BY <2>1 DEF RotationInv, Strict
<1>2. ASSUME NEW r \in Request, RequestNext(r) PROVE RotationInv'
  BY <1>1, <1>2, RotationKeptByLocalSteps, RotationKeptByExchange, RotationKeptByLoads,
     RotationKeptByWrites DEF RequestNext, Progress
<1> QED BY <1>2, RotationKeptByEnvironment DEF Next

LEMMA RotationInitially == Init => RotationInv
<1> SUFFICES ASSUME Init PROVE RotationInv
  OBVIOUS
<1>1. /\ lateWrites = {} /\ version = 1 /\ stored.refresh_token \in valid \cup {NoToken}
      /\ \A r \in Request : req[r] = FreshRequest
  BY DEF Init, StoreInit, ServerInit
<1>2. ASSUME NEW r \in Request PROVE RotationOK(req[r])
  BY <1>1 DEF RotationOK, Owed, FreshRequest
<1> QED BY <1>1, <1>2 DEF RotationInv

(* ------------------------------- Results ------------------------------- *)

\* Every variable keeps its type, the widths of the counters included: no
\* revision passes MaxRevision.
THEOREM TypeCorrect == Spec => []TypeOK
BY Invariance, PTL DEF IInv

\* The end of a session is final, whatever write is still on its way.
THEOREM EndIsFinal == Spec => TerminationIsFinal
<1>1. IInv /\ [Next]_vars => [Ended => Ended']_vars
  BY RecordMoves, EndedStable DEF IInv
<1> QED BY <1>1, Invariance, PTL DEF Spec, TerminationIsFinal

\* A conditional teardown ends only credentials that no request can use.
THEOREM TeardownIsJustified == Spec => TombstoneIsJustified
<1>1. IInv /\ [Next]_vars
        => [LoadLive /\ stored'.terminated => NoLongerUsable(stored)]_vars
  BY RecordMoves DEF StoreMoves, Follows, Edits, Refreshes, LoadLive
<1> QED BY <1>1, Invariance, PTL DEF Spec, TombstoneIsJustified

\* Credentials in the record only advance, one revision at a time.
THEOREM CredentialsAdvance == Spec => CredentialsOnlyAdvance
<1>1. IInv /\ [Next]_vars
        => [LoadLive /\ LoadLive' /\ Credentials(stored') # Credentials(stored)
             => /\ stored'.refresh_revision = stored.refresh_revision + 1
                /\ stored'.token_expiry > stored.token_expiry]_vars
  BY RecordMoves DEF StoreMoves, Follows, Edits, Refreshes, LoadLive
<1> QED BY <1>1, Invariance, PTL DEF Spec, CredentialsOnlyAdvance

\* A browser is told that its session is rejected, out of tokens or invalid
\* only when it has ended.
THEOREM ClearedSessionsEnded == Spec => []ClearedMeansEnded
<1>1. IInv => ClearedMeansEnded
  BY DEF IInv, LocalOK, PhaseOK, ClearedMeansEnded
<1> QED BY <1>1, Invariance, PTL

\* No request works with credentials the record has never held under their
\* revision, except one that owes their persist.
THEOREM CopiesAgree == Spec => []CopiesAgreeWithRecord
<1>1. IInv => CopiesAgreeWithRecord
  BY DEF IInv, LocalOK, CopyOK, CopiesAgreeWithRecord
<1> QED BY <1>1, Invariance, PTL

\* In an application without whole-session saves, what an update answered is
\* what the record holds.
THEOREM UpdateAnswers == Spec => []UpdateAnswersAreTrue
<1>1. AnswersOK => UpdateAnswersAreTrue
  BY DEF AnswersOK, UpdateOK, SettledRequests, Settled, UpdateAnswersAreTrue
<1>2. CASE "save" \notin Handlers
  <2>1. Init => AnswersOK
    BY AnswersInitially
  <2>2. IInv /\ AnswersOK /\ [Next]_vars => AnswersOK'
    BY <1>2, AnswersInductive
  <2> QED BY <1>1, <2>1, <2>2, Invariance, PTL DEF Spec
<1>3. CASE "save" \in Handlers
  <2>1. UpdateAnswersAreTrue
    BY <1>3 DEF UpdateAnswersAreTrue
  <2> QED BY <2>1, PTL
<1> QED BY <1>2, <1>3

\* Under strict rotation, and while nothing fails, the successor of a retired
\* token is held by a request that owes its persist, or was given up aloud.
THEOREM RotationIsNotStranded == Spec => []RotationNotStranded
<1>1. IInv /\ RotationInv => RotationNotStranded
  BY DEF RotationInv, Strict, Successor, RotationNotStranded
<1>2. IInv /\ RotationInv /\ [Next]_vars => RotationInv'
  BY RotationInductive
<1> QED BY <1>1, <1>2, RotationInitially, Invariance, PTL DEF Spec

\* The driver, the engine and everything in flight implement AtomicSession.
THEOREM Atomicity == Spec => BehavesAtomically
<1>1. Init => Atomic!Init
  <2> SUFFICES ASSUME Init PROVE Atomic!Init
    OBVIOUS
  <2>1. PICK t \in {1, NoToken} : stored = FromCompleted(t) /\ present = TRUE
    BY DEF Init, StoreInit
  <2>2. LoadLive
    BY <2>1 DEF LoadLive, FromCompleted
  <2>3. Visible = [refresh_revision |-> 0, refresh_token |-> t, token_expiry |-> 1, app |-> {}]
    BY <2>1, <2>2 DEF Visible, FromCompleted
  <2> QED BY <2>2, <2>3 DEF Atomic!Init
<1>2. ASSUME IInv, TypeOK', [Next]_vars
      PROVE  [Atomic!Next]_<<LoadLive, Visible>>
  <2>1. StoreMoves
    BY <1>2, RecordMoves
  <2>2. CASE LoadLive' = LoadLive /\ (LoadLive => stored' = stored)
    BY <2>2 DEF Visible
  <2>3. CASE LoadLive /\ ~LoadLive'
    BY <2>3 DEF Atomic!Next, Atomic!End, Atomic!NoSession, Visible
  <2>4. CASE LoadLive /\ LoadLive' /\ Edits(stored, stored')
    <3>1. Visible' = [Visible EXCEPT !.app = stored'.app]
      BY <2>4 DEF Edits, Credentials, Visible
    <3>2. stored'.app \in SUBSET Request
      BY <1>2 DEF TypeOK, StoreTypeOK, SessionState
    <3> QED BY <2>4, <3>1, <3>2 DEF Atomic!Next, Atomic!Edit
  <2>5. CASE LoadLive /\ LoadLive' /\ Refreshes(stored, stored')
    <3>1. /\ Visible' = [refresh_revision |-> stored'.refresh_revision,
                         refresh_token |-> stored'.refresh_token,
                         token_expiry |-> stored'.token_expiry,
                         app |-> stored'.app]
          /\ Visible = [refresh_revision |-> stored.refresh_revision,
                        refresh_token |-> stored.refresh_token,
                        token_expiry |-> stored.token_expiry,
                        app |-> stored.app]
      BY <2>5 DEF Visible
    <3> QED BY <2>5, <3>1 DEF Atomic!Next, Atomic!Refresh, Refreshes
  <2> QED BY <2>1, <2>2, <2>3, <2>4, <2>5 DEF StoreMoves, Follows, LoadLive
<1> QED BY <1>1, <1>2, Invariance, TypeCorrect, PTL DEF Spec, BehavesAtomically, Atomic!Spec

(* --------------------- The budgets of a request ------------------------ *)

\* The steps that are left of the optimistic loop q is in: a load and a
\* compare_and_swap for each attempt.
LoopWork(q) ==
    2 * (MaxAttempts - q.attempt) + (IF q.pc = "load" THEN 2 ELSE 1)

\* The steps that are at most left of q: those of its loop and those that may
\* come after it, handler, call of the handler, response and deferred persist.
Work(q) ==
    CASE q.pc = "done" -> 0
      [] q.pc \in {"cleanup", "delete"} -> 1
      [] q.pc \in {"load", "cas"} ->
            LoopWork(q) + (CASE q.call = "deferred" -> 0
                             [] q.call \in {"update", "save"} -> 2 * MaxAttempts + 3
                             [] OTHER -> 4 * MaxAttempts + 6)
      [] q.pc = "respond" -> 2 * MaxAttempts + 3
      [] q.pc = "handler" -> 4 * MaxAttempts + 6
      [] q.pc = "exchange" -> 6 * MaxAttempts + 8 + MaxTries - q.attempt
      [] q.pc = "refresh" -> 6 * MaxAttempts + 9 + MaxTries
      [] OTHER -> 6 * MaxAttempts + 10 + MaxTries

\* Attempts are counted below their budget.
WithinBudget(q) ==
    /\ q.pc \in {"load", "cas"} => q.attempt < MaxAttempts
    /\ q.pc = "exchange" => q.attempt < MaxTries

\* The fields that the work of a request depends on.
Counted(q) ==
    /\ q.pc \in Pc /\ q.call \in Call /\ q.attempt \in Nat
    /\ q.pc \in {"load", "cas"} => q.call # "none"
    /\ WithinBudget(q)

\* The phases of a request, each with less work than those before it.
LEMMA WorkOfPhases ==
    ASSUME NEW q, Counted(q)
    PROVE  /\ q.pc = "done" => Work(q) = 0
           /\ q.pc \in {"cleanup", "delete"} => Work(q) = 1
           /\ q.pc \in {"load", "cas"} /\ q.call = "deferred"
                 => Work(q) \in 3..(2 * MaxAttempts + 2)
           /\ q.pc = "respond" => Work(q) = 2 * MaxAttempts + 3
           /\ q.pc \in {"load", "cas"} /\ q.call \in {"update", "save"}
                 => Work(q) \in (2 * MaxAttempts + 6)..(4 * MaxAttempts + 5)
           /\ q.pc = "handler" => Work(q) = 4 * MaxAttempts + 6
           /\ q.pc \in {"load", "cas"} /\ q.call \in {"eager", "teardown"}
                 => Work(q) \in (4 * MaxAttempts + 9)..(6 * MaxAttempts + 8)
           /\ q.pc = "exchange"
                 => /\ Work(q) = 6 * MaxAttempts + 8 + MaxTries - q.attempt
                    /\ Work(q) \in (6 * MaxAttempts + 9)..(6 * MaxAttempts + 8 + MaxTries)
           /\ q.pc = "refresh" => Work(q) = 6 * MaxAttempts + 9 + MaxTries
           /\ q.pc = "start" => Work(q) = 6 * MaxAttempts + 10 + MaxTries
           /\ Work(q) \in 0..(6 * MaxAttempts + 10 + MaxTries)
<1>1. /\ MaxAttempts \in Nat /\ MaxAttempts >= 1
      /\ MaxTries \in Nat /\ MaxTries >= 1
  BY BoundsAssumption
<1>2. CASE q.pc \in {"load", "cas"}
  <2>1. q.attempt \in Nat /\ q.attempt < MaxAttempts
    BY <1>2 DEF Counted, WithinBudget
  <2>2. LoopWork(q) \in 3..(2 * MaxAttempts + 2)
    BY <1>1, <1>2, <2>1 DEF LoopWork
  <2>3. CASE q.call = "deferred"
    <3>1. Work(q) = LoopWork(q) + 0
      BY <1>2, <2>3 DEF Work
    <3> QED BY <1>1, <1>2, <2>2, <2>3, <3>1
  <2>4. CASE q.call \in {"update", "save"}
    <3>1. Work(q) = LoopWork(q) + (2 * MaxAttempts + 3)
      BY <1>2, <2>4 DEF Work
    <3> QED BY <1>1, <1>2, <2>2, <2>4, <3>1
  <2>5. CASE q.call \in {"eager", "teardown"}
    <3>1. Work(q) = LoopWork(q) + (4 * MaxAttempts + 6)
      BY <1>2, <2>5 DEF Work
    <3> QED BY <1>1, <1>2, <2>2, <2>5, <3>1
  <2> QED BY <1>2, <2>3, <2>4, <2>5 DEF Counted, Call
<1>3. CASE q.pc = "exchange"
  <2>1. /\ q.attempt \in Nat /\ q.attempt < MaxTries
        /\ Work(q) = 6 * MaxAttempts + 8 + MaxTries - q.attempt
    BY <1>3 DEF Counted, WithinBudget, Work
  <2> QED BY <1>1, <1>3, <2>1
<1>4. CASE q.pc \notin {"load", "cas", "exchange"}
  BY <1>1, <1>4 DEF Work, Counted, Pc
<1> QED BY <1>2, <1>3, <1>4

\* What a step of a request must do.
RunsOn(q, q2) == Counted(q2) /\ Work(q2) < Work(q)

\* A loop that was loading writes, one that lost its write loads again for
\* the next attempt, and an exchange that failed is sent again.
LEMMA RoundsRunDown ==
    ASSUME NEW q, NEW q2, Counted(q),
           q2.pc \in Pc, q2.call = q.call,
           \/ q.pc = "load" /\ q2.pc = "cas" /\ q2.attempt = q.attempt
           \/ /\ q.pc = "cas" /\ q2.pc = "load"
              /\ q2.attempt = q.attempt + 1 /\ q.attempt + 1 < MaxAttempts
           \/ /\ q.pc = "exchange" /\ q2.pc = "exchange"
              /\ q2.attempt = q.attempt + 1 /\ q.attempt + 1 < MaxTries
    PROVE  RunsOn(q, q2)
<1>1. /\ MaxAttempts \in Nat /\ MaxTries \in Nat
      /\ q.attempt \in Nat
  BY BoundsAssumption DEF Counted
<1>2. Counted(q2)
  BY <1>1 DEF Counted, WithinBudget
<1>3. CASE q.pc = "exchange"
  BY <1>1, <1>2, <1>3, WorkOfPhases DEF RunsOn
<1>4. CASE q.pc \in {"load", "cas"}
  <2>1. q2.pc \in {"load", "cas"} /\ q.attempt < MaxAttempts
    BY <1>4 DEF Counted, WithinBudget
  <2>2. LoopWork(q2) < LoopWork(q) /\ LoopWork(q2) \in Nat /\ LoopWork(q) \in Nat
    BY <1>1, <1>4, <2>1 DEF LoopWork
  <2>3. CASE q.call = "deferred"
    <3>1. Work(q) = LoopWork(q) + 0 /\ Work(q2) = LoopWork(q2) + 0
      BY <1>4, <2>1, <2>3 DEF Work
    <3> QED BY <1>2, <2>2, <3>1 DEF RunsOn
  <2>4. CASE q.call \in {"update", "save"}
    <3>1. /\ Work(q) = LoopWork(q) + (2 * MaxAttempts + 3)
          /\ Work(q2) = LoopWork(q2) + (2 * MaxAttempts + 3)
      BY <1>4, <2>1, <2>4 DEF Work
    <3> QED BY <1>1, <1>2, <2>2, <3>1 DEF RunsOn
  <2>5. CASE q.call \in {"eager", "teardown"}
    <3>1. /\ Work(q) = LoopWork(q) + (4 * MaxAttempts + 6)
          /\ Work(q2) = LoopWork(q2) + (4 * MaxAttempts + 6)
      BY <1>4, <2>1, <2>5 DEF Work
    <3> QED BY <1>1, <1>2, <2>2, <3>1 DEF RunsOn
  <2> QED BY <1>4, <2>3, <2>4, <2>5 DEF Counted, Call
<1> QED BY <1>3, <1>4

\* A request that is not answered yet may be answered.
LEMMA FinishRunsDown ==
    ASSUME NEW q \in RequestState, Counted(q), q.pc # "done", NEW o
    PROVE  RunsOn(q, Finish(q, o))
<1>1. /\ Finish(q, o).pc = "done" /\ Finish(q, o).call = "none"
      /\ Finish(q, o).attempt = 0
  BY DEF Finish, RequestState
<1>2. Counted(Finish(q, o))
  BY <1>1 DEF Counted, WithinBudget, Pc, Call
<1>3. /\ MaxAttempts \in Nat /\ MaxAttempts >= 1
      /\ MaxTries \in Nat /\ MaxTries >= 1
  BY BoundsAssumption
<1>4. Work(q) >= 1
  <2> HIDE DEF Work
  <2>1. q.pc \in Pc /\ q.call \in Call /\ (q.pc \in {"load", "cas"} => q.call # "none")
    BY DEF Counted
  <2>2. CASE q.pc \in {"load", "cas"}
    <3>1. q.call \in {"deferred", "update", "save", "eager", "teardown"}
      BY <2>1, <2>2 DEF Call
    <3> QED BY <1>3, <2>2, <3>1, WorkOfPhases
  <2>3. CASE q.pc \notin {"load", "cas"}
    BY <1>3, <2>1, <2>3, WorkOfPhases DEF Pc
  <2> QED BY <2>2, <2>3
<1> QED BY <1>1, <1>2, <1>4, WorkOfPhases DEF RunsOn

\* A request moves to a phase with less work than the one it leaves.
LEMMA PhasesRunDown ==
    ASSUME NEW q, NEW q2, Counted(q),
           q2.pc \in Pc, q2.call \in Call, q2.attempt \in Nat,
           q2.pc \in {"load", "cas"} \/ q2.pc = "exchange" => q2.attempt = 0,
           \/ /\ q2.pc = "refresh" /\ q.pc = "start"
           \/ /\ q2.pc = "exchange" /\ q.pc = "refresh"
           \/ /\ q2.pc = "load" /\ q2.call \in {"eager", "teardown"}
              /\ q.pc \in {"refresh", "exchange"}
           \/ /\ q2.pc = "load" /\ q2.call \in {"update", "save"}
              /\ q.pc = "handler"
           \/ /\ q2.pc = "load" /\ q2.call = "deferred"
              /\ q.pc = "respond"
           \/ /\ q2.pc = "handler"
              /\ \/ q.pc \in {"start", "refresh", "exchange"}
                 \/ q.pc \in {"load", "cas"} /\ q.call \in {"eager", "teardown"}
           \/ /\ q2.pc = "respond"
              /\ \/ q.pc = "handler"
                 \/ q.pc \in {"load", "cas"} /\ q.call \in {"update", "save"}
           \/ /\ q2.pc = "delete"
              /\ q.pc \in {"start", "handler"}
           \/ /\ q2.pc = "cleanup"
              /\ q.pc \in {"load", "cas"} /\ q.call = "teardown"
    PROVE  RunsOn(q, q2)
<1>1. /\ MaxAttempts \in Nat /\ MaxAttempts >= 1
      /\ MaxTries \in Nat /\ MaxTries >= 1
  BY BoundsAssumption
<1>2. Counted(q2)
  BY <1>1 DEF Counted, WithinBudget
<1>3. Work(q2) < Work(q)
  <2>1. CASE q2.pc \in {"refresh", "exchange"}
    BY <1>1, <1>2, <2>1, WorkOfPhases
  <2>2. CASE q2.pc = "load"
    BY <1>1, <1>2, <2>2, WorkOfPhases
  <2>3. CASE q2.pc = "handler"
    BY <1>1, <1>2, <2>3, WorkOfPhases
  <2>4. CASE q2.pc = "respond"
    BY <1>1, <1>2, <2>4, WorkOfPhases
  <2>5. CASE q2.pc \in {"delete", "cleanup"}
    BY <1>1, <1>2, <2>5, WorkOfPhases
  <2> QED BY <2>1, <2>2, <2>3, <2>4, <2>5
<1> QED BY <1>2, <1>3 DEF RunsOn

\* An answered driver call is not made again.
LEMMA ReturnsRunDown ==
    ASSUME NEW q \in RequestState, Counted(q),
           q.pc \in {"load", "cas"} \/ (q.pc = "cleanup" /\ q.call = "teardown"),
           NEW reply, NEW s
    PROVE  RunsOn(q, Returned(q, reply, s))
<1>1. \A o : RunsOn(q, Finish(q, o))
  BY FinishRunsDown
<1>2. ASSUME NEW o, NEW t, q.pc \in {"load", "cas"}, q.call \in {"eager", "teardown"},
             NEW q2, q2.pc = Serve(q, o, t).pc, q2.call = Serve(q, o, t).call,
             q2.attempt = Serve(q, o, t).attempt
      PROVE  RunsOn(q, q2)
  <2>1. q2.pc = "handler" /\ q2.call = "none" /\ q2.attempt = 0
    BY <1>2 DEF Serve, RequestState
  <2> QED BY <1>2, <2>1, PhasesRunDown DEF Pc, Call
<1>3. CASE q.call = "eager"
  <2>1. q.pc \in {"load", "cas"}
    BY <1>3
  <2>2. CASE reply = "Ok"
    <3> DEFINE q2 == [Serve(q, "Active", s) EXCEPT !.expected = 0, !.response = NoResponse]
    <3>1. /\ q2.pc = Serve(q, "Active", s).pc
          /\ q2.call = Serve(q, "Active", s).call
          /\ q2.attempt = Serve(q, "Active", s).attempt
      BY DEF Serve, RequestState
    <3>2. Returned(q, reply, s) = q2
      BY <1>3, <2>2 DEF Returned, EagerReturned
    <3> HIDE DEF q2
    <3> QED BY <1>2, <1>3, <2>1, <3>1, <3>2
  <2>3. CASE reply = "Gone"
    BY <1>1, <1>3, <2>3 DEF Returned, EagerReturned
  <2>4. CASE reply \notin {"Ok", "Gone"}
    <3>1. Returned(q, reply, s) = Serve(q, "ActivePending", Refreshed(q.held, q.response))
      BY <1>3, <2>4 DEF Returned, EagerReturned
    <3> QED BY <1>2, <1>3, <2>1, <3>1
  <2> QED BY <2>2, <2>3, <2>4
<1>4. CASE q.call = "deferred"
  BY <1>1, <1>4 DEF Returned, DeferredReturned
<1>5. CASE q.call = "teardown"
  BY <1>1, <1>5 DEF Returned, TeardownReturned
<1>6. CASE q.call \in {"update", "save"}
  <2>1. Returned(q, reply, s) = HandlerReturned(q, reply)
    BY <1>6 DEF Returned
  <2>2. /\ HandlerReturned(q, reply).pc = "respond"
        /\ HandlerReturned(q, reply).call = "none"
        /\ HandlerReturned(q, reply).attempt = 0
    BY DEF HandlerReturned, RequestState
  <2> QED BY <1>6, <2>1, <2>2, PhasesRunDown DEF Pc, Call
<1> QED BY <1>3, <1>4, <1>5, <1>6 DEF Counted, Call

(* ------------------- One step of a request, by action ------------------ *)

\* r takes a step that leaves it less to do.
Spends(r) == \E q2 : Become(r, q2) /\ RunsOn(req[r], q2)

LEMMA FinishSpends ==
    ASSUME TypeOK, NEW r \in Request, Counted(req[r]), req[r].pc # "done",
           NEW o, Become(r, Finish(req[r], o))
    PROVE  Spends(r)
BY FinishRunsDown DEF TypeOK, Spends

LEMMA ReturnSpends ==
    ASSUME TypeOK, NEW r \in Request, Counted(req[r]),
           \/ req[r].pc \in {"load", "cas"}
           \/ req[r].pc = "cleanup" /\ req[r].call = "teardown",
           NEW reply, NEW s, ReturnTo(r, reply, s)
    PROVE  Spends(r)
<1>1. req[r] \in RequestState
  BY DEF TypeOK
<1>2. RunsOn(req[r], Returned(req[r], reply, s))
  BY <1>1, ReturnsRunDown
<1> QED BY <1>2 DEF Spends, ReturnTo

LEMMA ProposeSpends ==
    ASSUME TypeOK, NEW r \in Request, Counted(req[r]), req[r].pc = "load",
           NEW s, Propose(r, s)
    PROVE  Spends(r)
<1> DEFINE q2 == [req[r] EXCEPT !.pc = "cas", !.write = [base |-> version, session |-> s]]
<1>1. req[r] \in RequestState
  BY DEF TypeOK
<1>2. q2.pc = "cas" /\ q2.call = req[r].call /\ q2.attempt = req[r].attempt
  BY <1>1 DEF RequestState
<1>3. Become(r, q2)
  BY DEF Propose
<1> HIDE DEF q2
<1>4. RunsOn(req[r], q2)
  BY <1>2, RoundsRunDown DEF Pc
<1> QED BY <1>3, <1>4 DEF Spends

LEMMA ServeSpends ==
    ASSUME TypeOK, NEW r \in Request, Counted(req[r]),
           \/ req[r].pc \in {"start", "refresh", "exchange"}
           \/ req[r].pc \in {"load", "cas"} /\ req[r].call \in {"eager", "teardown"},
           NEW q \in RequestState, NEW o, NEW s,
           \/ Become(r, Serve(q, o, s))
           \/ Become(r, [Serve(q, o, s) EXCEPT !.expected = 0])
    PROVE  Spends(r)
<1>1. ASSUME NEW q2, Become(r, q2), q2.pc = "handler", q2.call = "none", q2.attempt = 0
      PROVE  Spends(r)
  BY <1>1, PhasesRunDown DEF Spends, Pc, Call
<1>2. /\ Serve(q, o, s).pc = "handler"
      /\ Serve(q, o, s).call = "none"
      /\ Serve(q, o, s).attempt = 0
  BY DEF Serve, RequestState
<1>3. /\ [Serve(q, o, s) EXCEPT !.expected = 0].pc = "handler"
      /\ [Serve(q, o, s) EXCEPT !.expected = 0].call = "none"
      /\ [Serve(q, o, s) EXCEPT !.expected = 0].attempt = 0
  BY DEF Serve, RequestState
<1> QED BY <1>1, <1>2, <1>3

LEMMA EnterSpends ==
    ASSUME TypeOK, NEW r \in Request, Counted(req[r]),
           NEW q \in RequestState, NEW c \in Call, Become(r, Enter(q, c)),
           \/ c \in {"eager", "teardown"} /\ req[r].pc \in {"refresh", "exchange"}
           \/ c \in {"update", "save"} /\ req[r].pc = "handler"
           \/ c = "deferred" /\ req[r].pc = "respond"
    PROVE  Spends(r)
<1>1. Enter(q, c).pc = "load" /\ Enter(q, c).call = c /\ Enter(q, c).attempt = 0
  BY DEF Enter, RequestState
<1>2. RunsOn(req[r], Enter(q, c))
  BY <1>1, PhasesRunDown DEF Pc
<1> QED BY <1>2 DEF Spends

LEMMA BeginningsSpend ==
    ASSUME TypeOK, NEW r \in Request, Counted(req[r]),
           LoadSession(r) \/ Logout(r) \/ Supersede(r)
    PROVE  Spends(r)
<1>1. req[r] \in RequestState /\ req[r].pc = "start" /\ stored \in SessionState
  BY DEF TypeOK, StoreTypeOK, LoadSession, Logout, Supersede
<1>2. ASSUME NEW o, Become(r, Finish(req[r], o)) PROVE Spends(r)
  BY <1>1, <1>2, FinishSpends
<1>3. ASSUME NEW q2, Become(r, q2), q2.pc \in {"delete", "refresh"},
             q2.call = req[r].call, q2.attempt = req[r].attempt
      PROVE  Spends(r)
  <2>1. q2.call \in Call /\ q2.attempt \in Nat
    BY <1>1, <1>3 DEF RequestState
  <2> QED BY <1>1, <1>3, <2>1, PhasesRunDown DEF Spends, Pc
<1>4. CASE LoadSession(r)
  <2>1. ASSUME NEW pc \in {"delete", "refresh"},
               Become(r, [req[r] EXCEPT
                   !.pc = pc, !.held = stored,
                   !.outcome = IF pc = "delete" THEN "ClearedPolicy" ELSE "none"])
        PROVE  Spends(r)
    <3> DEFINE q2 == [req[r] EXCEPT
                   !.pc = pc, !.held = stored,
                   !.outcome = IF pc = "delete" THEN "ClearedPolicy" ELSE "none"]
    <3>1. q2.pc = pc /\ q2.call = req[r].call /\ q2.attempt = req[r].attempt
      BY <1>1 DEF RequestState
    <3> QED BY <1>3, <2>1, <3>1
  <2>2. ASSUME Become(r, Serve(req[r], "Active", stored)) PROVE Spends(r)
    BY <1>1, <2>2, ServeSpends
  <2> QED BY <1>2, <1>4, <2>1, <2>2 DEF LoadSession
<1>5. ASSUME NEW o, Become(r, [req[r] EXCEPT !.pc = "delete", !.outcome = o])
      PROVE  Spends(r)
  <2> DEFINE q2 == [req[r] EXCEPT !.pc = "delete", !.outcome = o]
  <2>1. q2.pc = "delete" /\ q2.call = req[r].call /\ q2.attempt = req[r].attempt
    BY <1>1 DEF RequestState
  <2> QED BY <1>3, <1>5, <2>1
<1>6. CASE Logout(r)
  BY <1>2, <1>5, <1>6 DEF Logout
<1>7. CASE Supersede(r)
  BY <1>2, <1>5, <1>7 DEF Supersede
<1> QED BY <1>4, <1>6, <1>7

LEMMA RefreshSpends ==
    ASSUME TypeOK, NEW r \in Request, Counted(req[r]), StartRefresh(r)
    PROVE  Spends(r)
<1> DEFINE q == [req[r] EXCEPT !.expected = req[r].held.refresh_revision]
<1>1. req[r] \in RequestState /\ req[r].pc = "refresh"
  BY DEF TypeOK, StartRefresh
<1>2. /\ q \in RequestState
      /\ q.pc = req[r].pc /\ q.call = req[r].call /\ q.attempt = req[r].attempt
  <2>1. req[r].held.refresh_revision \in 0..MaxRevision
    BY <1>1 DEF RequestState, SessionState
  <2> QED BY <1>1, <2>1 DEF RequestState
<1> HIDE DEF q
<1>3. ASSUME Become(r, [q EXCEPT !.pc = "exchange", !.attempt = 0]) PROVE Spends(r)
  <2> DEFINE q2 == [q EXCEPT !.pc = "exchange", !.attempt = 0]
  <2>1. q2.pc = "exchange" /\ q2.call = req[r].call /\ q2.attempt = 0
    BY <1>2 DEF RequestState
  <2>2. q2.call \in Call
    BY <1>1, <2>1 DEF RequestState
  <2> HIDE DEF q2
  <2>3. RunsOn(req[r], q2)
    BY <1>1, <2>1, <2>2, PhasesRunDown DEF Pc
  <2> QED BY <1>3, <2>3 DEF Spends, q2
<1>4. ASSUME Become(r, Serve(q, "Active", q.held)) PROVE Spends(r)
  BY <1>1, <1>2, <1>4, ServeSpends
<1>5. ASSUME Become(r, Enter(q, "teardown")) PROVE Spends(r)
  BY <1>1, <1>2, <1>5, EnterSpends DEF Call
<1> QED BY <1>3, <1>4, <1>5 DEF StartRefresh, q

LEMMA FailedExchangeSpends ==
    ASSUME TypeOK, NEW r \in Request, Counted(req[r]),
           req[r].pc = "exchange", ExchangeFailed(r)
    PROVE  Spends(r)
<1>1. req[r] \in RequestState
  BY DEF TypeOK
<1>2. ASSUME req[r].attempt + 1 < MaxTries, Become(r, [req[r] EXCEPT !.attempt = @ + 1])
      PROVE  Spends(r)
  <2> DEFINE q2 == [req[r] EXCEPT !.attempt = @ + 1]
  <2>1. q2.pc = "exchange" /\ q2.call = req[r].call /\ q2.attempt = req[r].attempt + 1
    BY <1>1 DEF RequestState
  <2> HIDE DEF q2
  <2>2. RunsOn(req[r], q2)
    BY <1>2, <2>1, RoundsRunDown DEF Pc
  <2> QED BY <1>2, <2>2 DEF Spends, q2
<1>3. ASSUME Become(r, Finish(req[r], "RefreshUnavailable")) PROVE Spends(r)
  BY <1>3, FinishSpends
<1>4. ASSUME Become(r, [Serve(req[r], "Active", req[r].held) EXCEPT !.expected = 0])
      PROVE  Spends(r)
  BY <1>1, <1>4, ServeSpends
<1> QED BY <1>2, <1>3, <1>4 DEF ExchangeFailed

LEMMA ExchangesSpend ==
    ASSUME TypeOK, NEW r \in Request, Counted(req[r]),
           \/ ExchangeSucceeds(r) \/ ExchangeRejected(r)
           \/ ExchangeUnavailable(r) \/ ExchangeAnswerLost(r)
    PROVE  Spends(r)
<1>1. req[r] \in RequestState /\ req[r].pc = "exchange"
  BY DEF TypeOK, ExchangeSucceeds, ExchangeRejected, ExchangeUnavailable, ExchangeAnswerLost
<1>2. CASE ExchangeSucceeds(r)
  <2>1. PICK answer \in Policy :
            Become(r, [Enter(req[r], "eager") EXCEPT !.response = Response(answer)])
    BY <1>2 DEF ExchangeSucceeds
  <2> DEFINE q2 == [Enter(req[r], "eager") EXCEPT !.response = Response(answer)]
  <2>2. q2.pc = "load" /\ q2.call = "eager" /\ q2.attempt = 0
    BY <1>1 DEF Enter, RequestState
  <2> HIDE DEF q2
  <2>3. RunsOn(req[r], q2)
    BY <1>1, <2>2, PhasesRunDown DEF Pc, Call
  <2> QED BY <2>1, <2>3 DEF Spends, q2
<1>3. CASE ExchangeRejected(r)
  BY <1>1, <1>3, EnterSpends DEF ExchangeRejected, Call
<1>4. CASE ExchangeUnavailable(r) \/ ExchangeAnswerLost(r)
  BY <1>1, <1>4, FailedExchangeSpends DEF ExchangeUnavailable, ExchangeAnswerLost
<1> QED BY <1>2, <1>3, <1>4

LEMMA LoadsSpend ==
    ASSUME TypeOK, NEW r \in Request, Counted(req[r]),
           \/ LoadForCommit(r) \/ LoadForUpdate(r)
           \/ LoadForSave(r) \/ LoadForTeardown(r)
    PROVE  Spends(r)
<1>1. req[r] \in RequestState /\ req[r].pc = "load"
  BY DEF TypeOK, LoadForCommit, LoadForUpdate, LoadForSave, LoadForTeardown
<1>2. ASSUME NEW reply, NEW s, ReturnTo(r, reply, s) PROVE Spends(r)
  BY <1>1, <1>2, ReturnSpends
<1>3. ASSUME NEW s, Propose(r, s) PROVE Spends(r)
  BY <1>1, <1>3, ProposeSpends
<1>4. CASE LoadForCommit(r)
  BY <1>2, <1>3, <1>4 DEF LoadForCommit
<1>5. CASE LoadForUpdate(r)
  BY <1>2, <1>3, <1>5 DEF LoadForUpdate
<1>6. CASE LoadForSave(r)
  BY <1>2, <1>3, <1>6 DEF LoadForSave
<1>7. CASE LoadForTeardown(r)
  <2>1. req[r].call = "teardown"
    BY <1>7 DEF LoadForTeardown
  <2>2. ASSUME Become(r, [req[r] EXCEPT !.pc = "cleanup"]) PROVE Spends(r)
    <3> DEFINE q2 == [req[r] EXCEPT !.pc = "cleanup"]
    <3>1. q2.pc = "cleanup" /\ q2.call = req[r].call /\ q2.attempt = req[r].attempt
      BY <1>1 DEF RequestState
    <3>2. q2.call \in Call /\ q2.attempt \in Nat
      BY <1>1, <3>1 DEF RequestState
    <3> HIDE DEF q2
    <3>3. RunsOn(req[r], q2)
      BY <1>1, <2>1, <3>1, <3>2, PhasesRunDown DEF Pc
    <3> QED BY <2>2, <3>3 DEF Spends, q2
  <2>3. ASSUME Become(r, Finish(req[r], "RefreshUnavailable")) PROVE Spends(r)
    BY <1>1, <2>3, FinishSpends
  <2>4. ASSUME Become(r, [Serve(req[r], "Active", stored) EXCEPT !.expected = 0])
        PROVE  Spends(r)
    BY <1>1, <2>1, <2>4, ServeSpends
  <2> QED BY <1>2, <1>3, <1>7, <2>2, <2>3, <2>4 DEF LoadForTeardown
<1> QED BY <1>4, <1>5, <1>6, <1>7

LEMMA WritesSpend ==
    ASSUME TypeOK, NEW r \in Request, Counted(req[r]), AnswerWrite(r)
    PROVE  Spends(r)
<1>1. req[r] \in RequestState /\ req[r].pc = "cas"
  BY DEF TypeOK, AnswerWrite
<1>2. ASSUME NEW reply, NEW s, ReturnTo(r, reply, s) PROVE Spends(r)
  BY <1>1, <1>2, ReturnSpends
<1>3. ASSUME req[r].call = "teardown",
             Become(r, [req[r] EXCEPT !.pc = "cleanup", !.write = NoWrite])
      PROVE  Spends(r)
  <2> DEFINE q2 == [req[r] EXCEPT !.pc = "cleanup", !.write = NoWrite]
  <2>1. q2.pc = "cleanup" /\ q2.call = req[r].call /\ q2.attempt = req[r].attempt
    BY <1>1 DEF RequestState
  <2>2. q2.call \in Call /\ q2.attempt \in Nat
    BY <1>1, <2>1 DEF RequestState
  <2> HIDE DEF q2
  <2>3. RunsOn(req[r], q2)
    BY <1>1, <1>3, <2>1, <2>2, PhasesRunDown DEF Pc
  <2> QED BY <1>3, <2>3 DEF Spends, q2
<1>4. ASSUME req[r].attempt + 1 < MaxAttempts,
             Become(r, [req[r] EXCEPT !.pc = "load", !.attempt = @ + 1, !.write = NoWrite])
      PROVE  Spends(r)
  <2> DEFINE q2 == [req[r] EXCEPT !.pc = "load", !.attempt = @ + 1, !.write = NoWrite]
  <2>1. q2.pc = "load" /\ q2.call = req[r].call /\ q2.attempt = req[r].attempt + 1
    BY <1>1 DEF RequestState
  <2> HIDE DEF q2
  <2>2. RunsOn(req[r], q2)
    BY <1>1, <1>4, <2>1, RoundsRunDown DEF Pc
  <2> QED BY <1>4, <2>2 DEF Spends, q2
<1> QED BY <1>2, <1>3, <1>4 DEF AnswerWrite

LEMMA ApplicationSpends ==
    ASSUME TypeOK, NEW r \in Request, Counted(req[r]), Handle(r) \/ Respond(r)
    PROVE  Spends(r)
<1>1. req[r] \in RequestState
  BY DEF TypeOK
<1>2. CASE Handle(r)
  <2>1. req[r].pc = "handler"
    BY <1>2 DEF Handle
  <2>2. ASSUME Become(r, Enter(req[r], "update")) PROVE Spends(r)
    BY <1>1, <2>1, <2>2, EnterSpends DEF Call
  <2>3. ASSUME Become(r, Enter([req[r] EXCEPT !.held = Mutated(@, r)], "save"))
        PROVE  Spends(r)
    <3>1. [req[r] EXCEPT !.held = Mutated(@, r)] \in RequestState
      BY <1>1, SessionTypes DEF RequestState
    <3> QED BY <2>1, <2>3, <3>1, EnterSpends DEF Call
  <2>4. ASSUME NEW q2, Become(r, q2), q2.pc \in {"delete", "respond"},
               q2.call = req[r].call, q2.attempt = req[r].attempt
        PROVE  Spends(r)
    <3>1. q2.call \in Call /\ q2.attempt \in Nat
      BY <1>1, <2>4 DEF RequestState
    <3> QED BY <2>1, <2>4, <3>1, PhasesRunDown DEF Spends, Pc
  <2>5. /\ [req[r] EXCEPT !.pc = "delete", !.outcome = "LoggedOut"].pc = "delete"
        /\ [req[r] EXCEPT !.pc = "delete", !.outcome = "LoggedOut"].call = req[r].call
        /\ [req[r] EXCEPT !.pc = "delete", !.outcome = "LoggedOut"].attempt = req[r].attempt
        /\ [req[r] EXCEPT !.pc = "respond"].pc = "respond"
        /\ [req[r] EXCEPT !.pc = "respond"].call = req[r].call
        /\ [req[r] EXCEPT !.pc = "respond"].attempt = req[r].attempt
    BY <1>1 DEF RequestState
  <2> QED BY <1>2, <2>2, <2>3, <2>4, <2>5 DEF Handle
<1>3. CASE Respond(r)
  <2>1. req[r].pc = "respond"
    BY <1>3 DEF Respond
  <2>2. ASSUME Become(r, Enter(req[r], "deferred")) PROVE Spends(r)
    BY <1>1, <2>1, <2>2, EnterSpends DEF Call
  <2>3. ASSUME NEW o, Become(r, Finish(req[r], o)) PROVE Spends(r)
    BY <2>1, <2>3, FinishSpends
  <2> QED BY <1>3, <2>2, <2>3 DEF Respond
<1> QED BY <1>2, <1>3

LEMMA EndingsSpend ==
    ASSUME TypeOK, NEW r \in Request, Counted(req[r]),
           req[r].pc = "cleanup" => req[r].call = "teardown",
           CleanUp(r) \/ DeleteRecord(r) \/ BackendFails(r) \/ DropRequest(r)
    PROVE  Spends(r)
<1>1. req[r].pc # "done"
  BY DEF CleanUp, DeleteRecord, BackendFails, DropRequest
<1>2. ASSUME NEW o, Become(r, Finish(req[r], o)) PROVE Spends(r)
  BY <1>1, <1>2, FinishSpends
<1>3. ASSUME req[r].pc \in {"load", "cas", "cleanup"},
             NEW reply, NEW s, ReturnTo(r, reply, s)
      PROVE  Spends(r)
  BY <1>3, ReturnSpends
<1>4. CASE CleanUp(r)
  BY <1>3, <1>4 DEF CleanUp
<1>5. CASE DeleteRecord(r)
  BY <1>2, <1>5 DEF DeleteRecord
<1>6. CASE BackendFails(r)
  BY <1>2, <1>3, <1>6 DEF BackendFails
<1>7. CASE DropRequest(r)
  BY <1>2, <1>7 DEF DropRequest
<1> QED BY <1>4, <1>5, <1>6, <1>7

LEMMA RequestSpends ==
    ASSUME IInv, NEW r \in Request, Counted(req[r]), RequestNext(r)
    PROVE  Spends(r)
<1>1. TypeOK /\ (req[r].pc = "cleanup" => req[r].call = "teardown")
  BY DEF IInv, LocalOK, PhaseOK
<1> QED BY <1>1, BeginningsSpend, RefreshSpends, ExchangesSpend, LoadsSpend, WritesSpend,
           ApplicationSpends, EndingsSpend DEF RequestNext, Progress

\* Every request counts its attempts within its budgets.
WithinBudgets == \A r \in Request : WithinBudget(req[r])

\* The requests that take no step keep the work they have.
LEMMA BudgetStep ==
    ASSUME IInv, WithinBudgets, [Next]_vars
    PROVE  /\ WithinBudgets'
           /\ \A r \in Request :
                 RequestNext(r) \/ req'[r] # req[r] => Work(req'[r]) < Work(req[r])
<1>1. ASSUME NEW r \in Request
      PROVE  req[r] \in RequestState /\ Counted(req[r])
  BY DEF IInv, TypeOK, RequestState, LocalOK, PhaseOK, WithinBudgets, Counted
<1>2. ASSUME NEW r \in Request, RequestNext(r)
      PROVE  /\ RunsOn(req[r], req'[r])
             /\ \A x \in Request \ {r} : req'[x] = req[x]
  <2>1. PICK q2 : Become(r, q2) /\ RunsOn(req[r], q2)
    BY <1>1, <1>2, RequestSpends DEF Spends
  <2> QED BY <2>1 DEF Become, IInv, TypeOK
<1>3. CASE req' = req
  <2>1. \A r \in Request : ~RequestNext(r)
    <3>1. SUFFICES ASSUME NEW r \in Request, RequestNext(r) PROVE FALSE
      OBVIOUS
    <3>2. Work(req[r]) < Work(req[r]) /\ Work(req[r]) \in Nat
      BY <1>1, <1>2, <1>3, <3>1, WorkOfPhases DEF RunsOn
    <3> QED BY <3>2
  <2> QED BY <1>3, <2>1 DEF WithinBudgets
<1>4. ASSUME NEW r \in Request, RequestNext(r)
      PROVE  /\ WithinBudgets'
             /\ \A x \in Request :
                   RequestNext(x) \/ req'[x] # req[x] => Work(req'[x]) < Work(req[x])
  <2>1. \A x \in Request : RequestNext(x) => Work(req'[x]) < Work(req[x])
    BY <1>2 DEF RunsOn
  <2>2. \A x \in Request : req'[x] # req[x] => Work(req'[x]) < Work(req[x])
    BY <1>2, <1>4 DEF RunsOn
  <2>3. WithinBudgets'
    <3>1. WithinBudget(req'[r])
      BY <1>2, <1>4 DEF RunsOn, Counted
    <3>2. \A x \in Request \ {r} : WithinBudget(req'[x])
      BY <1>2, <1>4 DEF WithinBudgets
    <3> QED BY <3>1, <3>2 DEF WithinBudgets
  <2> QED BY <2>1, <2>2, <2>3
<1>5. CASE EnvironmentNext \/ UNCHANGED vars
  BY <1>3, <1>5 DEF EnvironmentNext, vars
<1> QED BY <1>4, <1>5 DEF Next

\* No request works without end, whoever it shares the session with: every
\* step it takes leaves it less to do, nobody else's step leaves it more, and
\* it never has more than 6 * MaxAttempts + MaxTries + 10 steps left.  So
\* conflicts, failing calls and an unreachable authorization server only use
\* up its budgets (UPDATE_MAX_ATTEMPTS, REFRESH_MAX_ATTEMPTS and the single
\* deferred persist of PendingPersist::commit).
THEOREM BudgetsRunDown ==
    Spec => /\ [](\A r \in Request :
                     Work(req[r]) \in 0..(6 * MaxAttempts + MaxTries + 10))
            /\ [][\A r \in Request :
                     RequestNext(r) \/ req'[r] # req[r]
                       => Work(req'[r]) < Work(req[r])]_vars
<1>1. Init => WithinBudgets
  BY DEF Init, FreshRequest, WithinBudgets, WithinBudget
<1>2. IInv /\ WithinBudgets
        => \A r \in Request : Work(req[r]) \in 0..(6 * MaxAttempts + MaxTries + 10)
  <2>1. SUFFICES ASSUME IInv, WithinBudgets, NEW r \in Request
        PROVE  Work(req[r]) \in 0..(6 * MaxAttempts + MaxTries + 10)
    OBVIOUS
  <2>2. Counted(req[r])
    BY <2>1 DEF IInv, TypeOK, RequestState, LocalOK, PhaseOK, WithinBudgets, Counted
  <2> QED BY <2>2, WorkOfPhases, BoundsAssumption
<1> QED BY <1>1, <1>2, BudgetStep, Invariance, PTL DEF Spec
=============================================================================
