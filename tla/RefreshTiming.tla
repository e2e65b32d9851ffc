--------------------------- MODULE RefreshTiming ---------------------------
(***************************************************************************)
(* When a session's access token is refreshed, how long a request waits    *)
(* for it, and what is served when the refresh fails.  Requests of one     *)
(* session load it, decide by the clock and a random share of the margin   *)
(* whether its token is due, and exchange the refresh token, repeating a   *)
(* transient failure within a budget of attempts and of delay.  A refresh  *)
(* of another request may be stored meanwhile, and is what is served then. *)
(*                                                                         *)
(* What an exchange does to the tokens is in AuthServer, how the result is *)
(* stored in SessionRequests: here it is stored at once.  An Option is a   *)
(* set of at most one element.                                             *)
(***************************************************************************)
EXTENDS Requests, Integers, FiniteSetsExt

CONSTANTS
    Margins,            \* token_refresh_margin of the deployments
    Lifetimes,          \* default_token_lifetime of the deployments
    Granted,            \* expires_in of a token response
    RetryAfter,         \* the delays a server may ask for
    BaseDelay,          \* REFRESH_RETRY_BASE_DELAY
    JitterMax,          \* REFRESH_RETRY_JITTER_MAX
    MaxDelay,           \* REFRESH_RETRY_MAX_DELAY
    MaxAttempts,        \* REFRESH_MAX_ATTEMPTS
    MaxClock            \* bound: the clock

ASSUME DurationsAssumption ==
    /\ Margins \subseteq Nat /\ Lifetimes \subseteq Nat
    /\ Granted \subseteq Nat \ {0}
    /\ BaseDelay \in Nat /\ MaxDelay \in Nat /\ JitterMax \in Nat \ {0}
    /\ MaxAttempts \in Nat \ {0} /\ MaxClock \in Nat
ASSUME RetryAfterAssumption ==
    \A after \in RetryAfter : after \subseteq Nat /\ \A a, b \in after : a = b

VARIABLES
    clock,      \* the clock
    margin, lifetime,           \* the deployment's settings
    credentials,    \* the stored session, and (observed) when its token was granted
    refresh,    \* the requests
    overtaken   \* those whose session another request has refreshed since

refreshVars == <<clock, margin, lifetime, credentials, refresh, overtaken>>

Credentials == [expiry: Nat, refreshable: BOOLEAN, granted: SUBSET Nat]

\* Observed: held, how long it slept, and earliest, before when the server
\* wants no other attempt.
RefreshState ==
    [pc: {"idle", "refreshing", "sleeping", "active", "cleared", "unavailable"},
     expiry: Nat, attempt: 0..(MaxAttempts - 1), wake: Int, held: Int, earliest: Int]

NotBegun == [pc |-> "idle", expiry |-> 0, attempt |-> 0, wake |-> 0, held |-> 0, earliest |-> 0]

RefreshTypeOK ==
    /\ clock \in 0..MaxClock
    /\ margin \in Margins /\ lifetime \in Lifetimes
    /\ credentials \in Credentials
    /\ refresh \in [Request -> RefreshState]
    /\ overtaken \subseteq Request
    /\ \A r \in overtaken : refresh[r].pc \in {"refreshing", "sleeping"}

---------------------------------------------------------------------------
(* Settings and decisions *)

\* validate_durations
DurationsAccepted(m, l) == l > 0 /\ m < l

\* Mistake: the random share may be all of the margin.
RefreshDueWide(remaining, m) ==
    IF remaining <= 0 THEN {TRUE} ELSE {remaining <= m - share : share \in 0..m}

\* refresh_due: the answers it may give, one for every random share.
RefreshDue(remaining, m) ==
    IF remaining < 0 THEN {TRUE} ELSE {remaining <= m - share : share \in 0..(m \div 4)}

\* Mistake: the retry waits for the shorter of the two.
RetryDelaysShortest(attempt, after) ==
    {Min({BaseDelay * 2^(attempt - 1) + jitter} \cup after) : jitter \in 0..(JitterMax - 1)}

\* refresh_retry_delay, or what the server asks for when it is longer.
RetryDelays(attempt, after) ==
    {Max({BaseDelay * 2^(attempt - 1) + jitter} \cup after) : jitter \in 0..(JitterMax - 1)}

---------------------------------------------------------------------------

Continue(r, q) == refresh' = [refresh EXCEPT ![r] = q]

RefreshInit ==
    /\ clock = 0
    /\ margin \in Margins /\ lifetime \in Lifetimes
    /\ DurationsAccepted(margin, lifetime)
    /\ credentials \in [expiry: {lifetime} \cup Granted, refreshable: BOOLEAN, granted: {{}}]
    /\ refresh = [r \in Request |-> NotBegun]
    /\ overtaken = {}

\* load_session, and refresh_or_clear without a refresh token.
LoadCredentials(r) ==
    LET loaded == [NotBegun EXCEPT !.expiry = credentials.expiry] IN
    /\ refresh[r].pc = "idle"
    /\ \E due \in RefreshDue(credentials.expiry - clock, margin) :
        Continue(r, [loaded EXCEPT !.pc =
            IF due /\ credentials.refreshable THEN "refreshing"
            ELSE IF ~due \/ clock < credentials.expiry THEN "active" ELSE "cleared"])
    /\ UNCHANGED <<clock, margin, lifetime, credentials, overtaken>>

InFlight == {r \in Request : refresh[r].pc \in {"refreshing", "sleeping"}}

\* The exchange succeeds and the refreshed session is stored; the lifetime of
\* its token is the server's, or the default.
ExchangeSucceeds(r) ==
    /\ refresh[r].pc = "refreshing" /\ r \notin overtaken
    /\ \E expiresIn \in {{}} \cup {{g} : g \in Granted} :
        LET expiry == clock + (IF expiresIn = {} THEN lifetime ELSE Max(expiresIn)) IN
        /\ credentials' = [credentials EXCEPT
               !.expiry = expiry, !.granted = IF expiresIn = {} THEN {clock} ELSE {}]
        /\ Continue(r, [refresh[r] EXCEPT !.pc = "active", !.expiry = expiry])
    /\ overtaken' = InFlight \ {r}
    /\ UNCHANGED <<clock, margin, lifetime>>

\* The exchange succeeds too late: the other refresh is kept, and served
\* (apply_refresh_and_save, commit_refresh).
ExchangeOvertaken(r) ==
    /\ refresh[r].pc = "refreshing" /\ r \in overtaken
    /\ Continue(r, [refresh[r] EXCEPT !.pc = "active", !.expiry = credentials.expiry])
    /\ overtaken' = overtaken \ {r}
    /\ UNCHANGED <<clock, margin, lifetime, credentials>>

\* The record went while its token was exchanged.
RecordGone(r) ==
    /\ refresh[r].pc = "refreshing"
    /\ Continue(r, [refresh[r] EXCEPT !.pc = "cleared"])
    /\ overtaken' = overtaken \ {r}
    /\ UNCHANGED <<clock, margin, lifetime, credentials>>

\* invalid_grant: the session is torn down, unless another request refreshed it
\* (teardown_observed), or the store does not say; a session that is torn down
\* logs in again as it was.
ExchangeRejected(r) ==
    /\ refresh[r].pc = "refreshing"
    /\ \/ Continue(r, [refresh[r] EXCEPT !.pc = "unavailable"])
       \/ r \notin overtaken /\ Continue(r, [refresh[r] EXCEPT !.pc = "cleared"])
       \/ /\ r \in overtaken
          /\ Continue(r, [refresh[r] EXCEPT !.expiry = credentials.expiry, !.pc =
                             IF clock < credentials.expiry THEN "active" ELSE "unavailable"])
    /\ overtaken' = overtaken \ {r}
    /\ UNCHANGED <<clock, margin, lifetime, credentials>>

\* Mistake: the session that was due before the retries is served as it is.
GiveUpActive(r) == Continue(r, [refresh[r] EXCEPT !.pc = "active"])

\* The last arms of refresh_or_clear: the clock is read again.
GiveUp(r) ==
    Continue(r, [refresh[r] EXCEPT !.pc =
        IF clock < refresh[r].expiry THEN "active" ELSE "unavailable"])

\* A failure that repeating will not help.
ExchangeFails(r) ==
    /\ refresh[r].pc = "refreshing"
    /\ GiveUp(r)
    /\ overtaken' = overtaken \ {r}
    /\ UNCHANGED <<clock, margin, lifetime, credentials>>

Sleep(r, delay, after) ==
    Continue(r, [refresh[r] EXCEPT
        !.pc = "sleeping", !.attempt = @ + 1, !.wake = clock + delay,
        !.held = @ + delay, !.earliest = clock + Max({0} \cup after)])

\* Mistake: a delay the server asks for has no limit.
SleepOrGiveUpUnlimited(r, delay, after) ==
    IF refresh[r].attempt + 1 >= MaxAttempts THEN GiveUp(r) ELSE Sleep(r, delay, after)

\* refresh_with_retry: the budgets of attempts and of delay.
SleepOrGiveUp(r, delay, after) ==
    IF refresh[r].attempt + 1 >= MaxAttempts \/ delay > MaxDelay
    THEN GiveUp(r)
    ELSE Sleep(r, delay, after)

\* A transient failure, with or without a delay asked for.
ExchangeTransient(r) ==
    /\ refresh[r].pc = "refreshing"
    /\ \E after \in RetryAfter : \E delay \in RetryDelays(refresh[r].attempt + 1, after) :
        SleepOrGiveUp(r, delay, after)
    /\ overtaken' = {x \in overtaken : x # r \/ refresh'[r].pc = "sleeping"}
    /\ UNCHANGED <<clock, margin, lifetime, credentials>>

Wake(r) ==
    /\ refresh[r].pc = "sleeping" /\ clock >= refresh[r].wake
    /\ Continue(r, [refresh[r] EXCEPT !.pc = "refreshing"])
    /\ UNCHANGED <<clock, margin, lifetime, credentials, overtaken>>

\* The request is answered, or its browser went away.
FinishRefresh(r) ==
    /\ refresh[r].pc # "idle"
    /\ Continue(r, NotBegun)
    /\ overtaken' = overtaken \ {r}
    /\ UNCHANGED <<clock, margin, lifetime, credentials>>

ClockTicks ==
    /\ clock < MaxClock /\ clock' = clock + 1
    /\ UNCHANGED <<margin, lifetime, credentials, refresh, overtaken>>

Exchange(r) ==
    \/ ExchangeSucceeds(r) \/ ExchangeOvertaken(r) \/ RecordGone(r)
    \/ ExchangeRejected(r) \/ ExchangeFails(r) \/ ExchangeTransient(r)

RefreshNext ==
    \/ \E r \in Request : LoadCredentials(r) \/ Exchange(r) \/ Wake(r) \/ FinishRefresh(r)
    \/ ClockTicks

RefreshSpec == RefreshInit /\ [][RefreshNext]_refreshVars

---------------------------------------------------------------------------
(* Correctness *)

\* A refresh never holds the request a browser waits on for longer than its
\* budgets, whatever delays the server asks for
\* (docs/explanation/refresh.md: "one-second budget").
RequestsAreNotHeld ==
    \A r \in Request : refresh[r].held <= (MaxAttempts - 1) * MaxDelay

\* Within the budgets the server is obeyed: no request repeats an exchange
\* before the time its last answer asked for (retry_advice, Retry-After).
RetryAfterIsHonoured ==
    [][\A r \in Request : Exchange(r) => clock >= refresh[r].earliest]_refreshVars

\* A request is served as authenticated only with a token that is valid at
\* that moment, also when it slept and when its refresh failed
\* (refresh_or_clear: "the token may have expired while we were waiting").
\* Tokens that another request's refresh brought are ActiveIsUsable's.
ServedTokensAreLive ==
    [][\A r \in Request :
          refresh[r].pc # "active" /\ refresh'[r].pc = "active" =>
             clock < refresh'[r].expiry \/ ExchangeOvertaken(r)]_refreshVars

\* "Active: Authentication is usable" (docs/explanation/session_model.md:83),
\* and "A newer revision can expire while this request waits for its exchange
\* ... do not serve an expired access token" (teardown_observed), which the path
\* of a successful exchange does not do.
ActiveIsUsable ==
    [][\A r \in Request :
          refresh[r].pc # "active" /\ refresh'[r].pc = "active" =>
             clock < refresh'[r].expiry]_refreshVars

\* The random share moves a refresh within the last quarter of the margin:
\* never before it, and no load inside three quarters of it is served without
\* trying (refresh_due: "Keep at least three quarters of the headroom").  And a
\* token granted for the default lifetime is not due again at once, so that the
\* requests that follow a refresh do not each refresh again (validate_durations).
RefreshesInTheWindow ==
    [][\A r \in Request : LoadCredentials(r) /\ credentials.refreshable =>
          LET remaining == credentials.expiry - clock IN
          IF refresh'[r].pc = "refreshing"
          THEN remaining <= margin /\ credentials.granted # {clock}
          ELSE remaining > margin - margin \div 4]_refreshVars
=============================================================================
