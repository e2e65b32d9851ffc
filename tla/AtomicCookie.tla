----------------------------- MODULE AtomicCookie -----------------------------
(***************************************************************************)
(* What a browser-held session looks like from outside: one value, that    *)
(* each delivered response leaves alone, replaces as a whole or clears.    *)
(***************************************************************************)
EXTENDS Naturals

CONSTANT Request

VARIABLES
    held,           \* the session the browser presents
    answers         \* what each response on its way says: {} nothing, {s} hold s

\* No session, and what cookies that spell no session load as.
NoSession == [seal |-> 0, size |-> 0, grant |-> 0]
Torn == [seal |-> 0, size |-> 1, grant |-> 0]

Init ==
    /\ held # Torn
    /\ answers = [r \in Request |-> {}]

Says(r, said) == answers' = [answers EXCEPT ![r] = said]

Answer(r) ==
    /\ \E s \in answers'[r] : s # Torn /\ Says(r, {s})
    /\ UNCHANGED held

Deliver(r) ==
    /\ held' \in answers[r]
    /\ Says(r, {})

Lose(r) ==
    /\ Says(r, {})
    /\ UNCHANGED held

Expire ==
    /\ held' = NoSession
    /\ UNCHANGED answers

Next == Expire \/ \E r \in Request : Answer(r) \/ Deliver(r) \/ Lose(r)

Spec == Init /\ [][Next]_<<held, answers>>
=============================================================================
