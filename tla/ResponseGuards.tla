--------------------------- MODULE ResponseGuards ---------------------------
(***************************************************************************)
(* The work a loaded session owes to its response, over sessions kept in a *)
(* cookie: SetCookies, the headers to append, and PendingPersist, the save *)
(* of a refreshed session whose eager save failed.  Both count their drop  *)
(* while they are armed.  An adapter may be cancelled at any await, may    *)
(* panic, forget a guard or give one up on purpose, and responses get lost.*)
(*                                                                         *)
(* A session is known by the rotation of its refresh token; the clear of a *)
(* cookie is rotation 0.  An Option is a set of at most one element.       *)
(***************************************************************************)
EXTENDS Requests, Integers

CONSTANTS
    MaxRotation     \* bound: refresh tokens issued

ASSUME RotationAssumption == MaxRotation \in Nat \ {0}

VARIABLES
    token,      \* the rotation the authorization server honours
    browser,    \* the browser's session
    guarded,    \* the requests
    counted,    \* huskarl.session.dropped: what was dropped armed
    delivered,  \* observed: rotations that reached the browser
    explained   \* observed: lost outside the engine, or given up by name

guardVars == <<token, browser, guarded, counted, delivered, explained>>

Clear == 0
Rotation == 1..MaxRotation

\* pending and cookies are the armed guards; commit is what a commit that was
\* polled is saving.
GuardState ==
    [pc: {"idle", "sent", "serving", "committing", "polled", "answered"},
     shown: SUBSET Rotation, pending: SUBSET Rotation, commit: SUBSET Rotation,
     cookies: SUBSET (Rotation \cup {Clear}), answer: SUBSET (Rotation \cup {Clear})]

Unguarded == [pc |-> "idle", shown |-> {}, pending |-> {}, commit |-> {}, cookies |-> {},
         answer |-> {}]

GuardsTypeOK ==
    /\ token \in Rotation
    /\ browser \in SUBSET Rotation
    /\ guarded \in [Request -> GuardState]
    /\ \A r \in Request :
        /\ guarded[r].pending # {} => guarded[r].pc \in {"serving", "committing"}
        /\ guarded[r].commit # {} <=> guarded[r].pc = "polled"
        /\ guarded[r].answer # {} => guarded[r].pc = "answered"
    /\ counted \subseteq Rotation \cup {Clear}
    /\ delivered \subseteq Rotation /\ explained \subseteq Rotation \cup {Clear}

---------------------------------------------------------------------------

Hold(r, q) == guarded' = [guarded EXCEPT ![r] = q]

GuardsInit ==
    /\ token = 1 /\ browser = {1} /\ delivered = {1}
    /\ counted = {} /\ explained = {}
    /\ guarded = [r \in Request |-> Unguarded]

Send(r) ==
    /\ guarded[r].pc = "idle"
    /\ Hold(r, [Unguarded EXCEPT !.pc = "sent", !.shown = browser])
    /\ UNCHANGED <<token, browser, counted, delivered, explained>>

Serve(r, pending, cookies) ==
    Hold(r, [guarded[r] EXCEPT !.pc = "serving", !.pending = pending, !.cookies = cookies])

\* Nothing is due, or there is no session.
LoadActive(r) ==
    /\ guarded[r].pc = "sent"
    /\ Serve(r, {}, {})
    /\ UNCHANGED <<token, browser, counted, delivered, explained>>

\* A refresh, saved eagerly or owed.
LoadRefreshed(r) ==
    /\ guarded[r].pc = "sent" /\ token \in guarded[r].shown /\ token < MaxRotation
    /\ token' = token + 1
    /\ Serve(r, {}, {token + 1}) \/ Serve(r, {token + 1}, {})
    /\ UNCHANGED <<browser, counted, delivered, explained>>

\* A token that was rotated away is rejected, and the session torn down.
LoadCleared(r) ==
    /\ guarded[r].pc = "sent" /\ guarded[r].shown # {} /\ token \notin guarded[r].shown
    /\ Serve(r, {}, {Clear})
    /\ UNCHANGED <<token, browser, counted, delivered, explained>>

\* Mistake: the response is taken when the future is made.
CommitTaking(r) ==
    Hold(r, [guarded[r] EXCEPT
        !.pc = "committing", !.pending = {}, !.commit = guarded[r].pending])

\* PendingPersist::commit: the future is made, the guard still armed.
Commit(r) == Hold(r, [guarded[r] EXCEPT !.pc = "committing"])

StartCommit(r) ==
    /\ guarded[r].pc = "serving" /\ guarded[r].pending # {}
    /\ Commit(r)
    /\ UNCHANGED <<token, browser, counted, delivered, explained>>

\* The first poll disarms the guard, before the store is awaited.
Poll(r) ==
    LET q == guarded[r] IN
    /\ q.pc = "committing"
    /\ Hold(r, [q EXCEPT !.pc = "polled", !.pending = {}, !.commit = q.commit \cup q.pending])
    /\ UNCHANGED <<token, browser, counted, delivered, explained>>

CommitSucceeds(r) ==
    LET q == guarded[r] IN
    /\ q.pc = "polled"
    /\ Hold(r, [q EXCEPT !.pc = "serving", !.commit = {}, !.cookies = q.commit])
    /\ UNCHANGED <<token, browser, counted, delivered, explained>>

\* The error is the adapter's: its policy replaces the response or not.
CommitFails(r) ==
    /\ guarded[r].pc = "polled"
    /\ Hold(r, Unguarded)
    /\ explained' = explained \cup guarded[r].commit
    /\ UNCHANGED <<token, browser, counted, delivered>>

\* The application ends the session: terminate_session, and abandon of the
\* save that became moot.
Terminate(r) ==
    LET q == guarded[r] IN
    /\ q.pc = "serving" /\ q.shown # {} /\ q.cookies = {}
    /\ Hold(r, [q EXCEPT !.pending = {}, !.cookies = {Clear}])
    /\ explained' = explained \cup q.pending
    /\ UNCHANGED <<token, browser, counted, delivered>>

\* SetCookies::into_headers takes the headers out of the guard.
IntoHeaders(cookies) == [headers |-> cookies, left |-> {}]

\* Drop for SetCookies and for PendingPersist.
DropCounts(guard, panicking) == IF panicking THEN {} ELSE guard

\* The cookies are appended to the response.
Append(r) ==
    LET q == guarded[r]  taken == IntoHeaders(q.cookies) IN
    /\ q.pc = "serving" /\ q.pending = {}
    /\ Hold(r, [Unguarded EXCEPT !.pc = "answered", !.answer = taken.headers])
    /\ counted' = counted \cup DropCounts(taken.left, FALSE)
    /\ UNCHANGED <<token, browser, delivered, explained>>

\* The response is gone already: the cookies are given up by name.
Discard(r) ==
    LET q == guarded[r] IN
    /\ q.pc = "serving" /\ q.pending = {} /\ q.cookies # {}
    /\ Hold(r, Unguarded)
    /\ explained' = explained \cup q.cookies
    /\ UNCHANGED <<token, browser, counted, delivered>>

\* The request's future is dropped, or the adapter forgets what it holds; a
\* commit that was polled is cancelled in its await.
Drop(r) ==
    LET q == guarded[r] IN
    /\ q.pc \in {"serving", "committing", "polled"}
    /\ Hold(r, Unguarded)
    /\ counted' = counted \cup DropCounts(q.pending, FALSE) \cup DropCounts(q.cookies, FALSE)
    /\ explained' = explained \cup (IF q.pc = "polled" THEN q.commit ELSE {})
    /\ UNCHANGED <<token, browser, delivered>>

\* The handler or the adapter panics: everything it holds is dropped.
Panic(r) ==
    LET q == guarded[r] IN
    /\ q.pc \in {"serving", "committing", "polled"}
    /\ Hold(r, Unguarded)
    /\ counted' = counted \cup DropCounts(q.pending, TRUE) \cup DropCounts(q.cookies, TRUE)
    /\ explained' = explained \cup q.pending \cup q.cookies \cup q.commit
    /\ UNCHANGED <<token, browser, delivered>>

DeliverAnswer(r) ==
    LET answer == guarded[r].answer IN
    /\ guarded[r].pc = "answered"
    /\ browser' = IF answer = {} THEN browser ELSE answer \ {Clear}
    /\ delivered' = delivered \cup (answer \ {Clear})
    /\ Hold(r, Unguarded)
    /\ UNCHANGED <<token, counted, explained>>

Lose(r) ==
    /\ guarded[r].pc \in {"sent", "answered"}
    /\ explained' = explained \cup guarded[r].answer
    /\ Hold(r, Unguarded)
    /\ UNCHANGED <<token, browser, counted, delivered>>

GuardsNext ==
    \E r \in Request :
        \/ Send(r) \/ LoadActive(r) \/ LoadRefreshed(r) \/ LoadCleared(r)
        \/ StartCommit(r) \/ Poll(r) \/ CommitSucceeds(r) \/ CommitFails(r)
        \/ Terminate(r) \/ Append(r) \/ Discard(r) \/ Drop(r) \/ Panic(r)
        \/ DeliverAnswer(r) \/ Lose(r)

GuardsSpec == GuardsInit /\ [][GuardsNext]_guardVars

---------------------------------------------------------------------------
(* Correctness *)

Held(r) ==
    guarded[r].pending \cup guarded[r].commit \cup guarded[r].cookies \cup guarded[r].answer

\* Every rotated refresh token has one fate: it is on its way in one request,
\* or it reached the browser, or its loss was counted, or somebody outside the
\* engine knows of it.  A lost rotation is the end of the session, so a loss
\* nobody sees is a logout without a cause (refresh.md: "the drop is detected
\* at runtime and counted"), and a count of work that was not lost a false
\* alarm.
EveryRotationHasOneFate ==
    \A c \in 1..token :
        /\ c \in delivered \cup counted \cup explained \/ \E r \in Request : c \in Held(r)
        /\ c \in delivered => c \notin counted \cup explained
        /\ c \in counted => c \notin explained
        /\ \A r \in Request : c \in Held(r) =>
              /\ c \notin delivered \cup counted \cup explained
              /\ \A s \in Request \ {r} : c \notin Held(s)
=============================================================================
