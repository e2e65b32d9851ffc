----------------------------- MODULE AtomicSession -----------------------------
(***************************************************************************)
(* What the store-backed driver promises about one session, whatever the   *)
(* interleaving of requests, nodes and faults: a single object that is     *)
(* refreshed, edited and ended atomically.  A refresh installs a later     *)
(* grant's credentials and the next revision and touches nothing else; an  *)
(* edit touches application fields only; the end is final.                 *)
(***************************************************************************)
EXTENDS Tokens

CONSTANT Request

VARIABLES
    live,           \* a pointer to this session authenticates
    session         \* its content while live

\* The value of session once it has ended.
NoSession ==
    [refresh_revision |-> 0, refresh_token |-> NoToken, token_expiry |-> 0,
     app |-> {}]

Init ==
    /\ live = TRUE
    /\ session \in {[refresh_revision |-> 0, refresh_token |-> t, token_expiry |-> 1,
                      app |-> {}] : t \in {1, NoToken}}

Refresh ==
    /\ live /\ live'
    /\ session'.token_expiry > session.token_expiry
    /\ session'.refresh_token \in {session.refresh_token, session'.token_expiry}
    /\ session' = [refresh_revision |-> session.refresh_revision + 1,
                   refresh_token |-> session'.refresh_token,
                   token_expiry |-> session'.token_expiry,
                   app |-> session.app]

Edit ==
    /\ live /\ live'
    /\ \E app \in SUBSET Request : session' = [session EXCEPT !.app = app]

End ==
    /\ live /\ ~live'
    /\ session' = NoSession

Next == Refresh \/ Edit \/ End

Spec == Init /\ [][Next]_<<live, session>>
=============================================================================
