---------------------------- MODULE ExternalStore ----------------------------
(***************************************************************************)
(* The application's session store, as the trait ExternalSessionStore      *)
(* promises it and as the in-memory test store implements it: one record   *)
(* per session key, guarded by a version that every successful write       *)
(* changes.  The module follows one session key after its insert.          *)
(*                                                                         *)
(* A backend call may fail without telling its caller whether it took      *)
(* effect.  Such a call stays in lateWrites (or sets lateDelete) and may   *)
(* take effect at any later time, or never: "the acknowledgement was       *)
(* lost" and "the write arrived after the caller gave up" are the same     *)
(* behaviour here.                                                         *)
(***************************************************************************)
EXTENDS Tokens

CONSTANTS
    Request,        \* HTTP requests that carry this session's pointer cookie
    MaxRevision     \* u64::MAX for refresh_revision, small when model checking

ASSUME MaxRevisionAssumption == MaxRevision \in Nat \ {0}

VARIABLES
    present,        \* a record is stored under the session key
    version,        \* its ExternalSessionStore::Version
    stored,         \* its content (the last one, once the record is gone)
    lateWrites,     \* compare_and_swap calls whose callers saw an error
    lateDelete      \* a delete whose caller saw an error

storeVars == <<present, version, stored, lateWrites, lateDelete>>

\* token_expiry names the grant whose access token is in force; app holds the
\* requests whose change to the application fields is in the record.
SessionState ==
    [refresh_revision: 0..MaxRevision, refresh_token: Token,
     token_expiry: Nat, terminated: BOOLEAN, app: SUBSET Request]

Credentials(s) == <<s.refresh_token, s.token_expiry>>

\* What SessionState::from_completed builds at login; a grant without
\* offline access carries no refresh token.
FromCompleted(token) ==
    [refresh_revision |-> 0, refresh_token |-> token, token_expiry |-> 1,
     terminated |-> FALSE, app |-> {}]

Write == [base: Nat, session: SessionState]

NoWrite == [base |-> 0, session |-> FromCompleted(NoToken)]

StoreTypeOK ==
    /\ present \in BOOLEAN
    /\ version \in Nat
    /\ stored \in SessionState
    /\ lateWrites \subseteq Write
    /\ lateDelete \in BOOLEAN

StoreInit ==
    /\ present = TRUE
    /\ version = 1
    /\ stored \in {FromCompleted(t) : t \in {1, NoToken}}
    /\ lateWrites = {}
    /\ lateDelete = FALSE

---------------------------------------------------------------------------

\* load_live: a tombstone reads as a missing record.
LoadLive == present /\ ~stored.terminated

\* A tombstone loses its last holder with the record: both read as missing.
Ended == ~LoadLive

\* Mistake: a store that writes without comparing the version.
SaveOutcomeIgnoringVersion(base) ==
    IF present THEN "Committed" ELSE "Missing"

\* compare_and_swap never inserts a missing record.
SaveOutcome(base) ==
    IF ~present THEN "Missing"
    ELSE IF version # base THEN "Conflict"
    ELSE "Committed"

\* The effect of a compare_and_swap that reaches the store.
CompareAndSwap(w) ==
    IF SaveOutcome(w.base) = "Committed"
    THEN /\ stored' = w.session
         /\ version' = version + 1
         /\ UNCHANGED present
    ELSE UNCHANGED <<stored, version, present>>

\* delete is unconditional and idempotent.
Delete == present' = FALSE

LateWriteArrives ==
    \E w \in lateWrites :
        /\ CompareAndSwap(w)
        /\ lateWrites' = lateWrites \ {w}
        /\ UNCHANGED lateDelete

LateDeleteArrives ==
    /\ lateDelete
    /\ Delete
    /\ lateDelete' = FALSE
    /\ UNCHANGED <<stored, version, lateWrites>>
=============================================================================
