------------------------------ MODULE Lifetime ------------------------------
(***************************************************************************)
(* The absolute lifetime of one session.  The login freezes created_at and *)
(* expire_at into it by the clock and the SessionLifetime cap of its node; *)
(* every later load checks them by the clock and the cap of the node that  *)
(* serves it; every cookie written for it gets a Max-Age from them.  Nodes *)
(* are redeployed with other caps at any time, their clocks differ, and    *)
(* timestamps are stored in whole seconds.                                 *)
(*                                                                         *)
(* An Option is a set of at most one element: a delegated lifetime has the *)
(* cap {}, and a session without a deadline the deadlines {}.              *)
(***************************************************************************)
EXTENDS Requests, Integers, FiniteSets, FiniteSetsExt

CONSTANTS
    Node,           \* the application's nodes
    Offset,         \* what each node's clock reads at time 0
    Caps,           \* SessionLifetime::bound of the deployments
    Second,         \* units of time in a second
    MaxClockSkew,   \* MAX_CLOCK_SKEW
    MaxAge,         \* the Max-Age configured for the cookie
    MaxTime         \* bound: the clock

ASSUME ClockAssumption ==
    /\ Offset \in [Node -> Nat]
    /\ Second \in Nat \ {0}
    /\ MaxClockSkew \in Nat /\ MaxTime \in Nat
ASSUME CapsAssumption ==
    \A cap \in Caps : cap \subseteq Nat \ {0} /\ \A a, b \in cap : a = b
ASSUME MaxAgeAssumption == MaxAge \in Nat \ {0}

VARIABLES
    now,        \* true time since the login began
    cap,        \* the cap each node is deployed with
    stage,      \* the session: not there yet, alive, or ended
    session,    \* its SessionState, and (observed) where and with what cap
    jar,        \* the browser's cookie
    req         \* the requests

vars == <<now, cap, stage, session, jar, req>>

Instant == Nat

SessionState ==
    [createdAt: Instant, expireAt: SUBSET Instant, node: Node, cap: Caps]

\* A cookie: when the browser drops it.
Cookie == [until: Nat]

\* enriching, inserting: the callback; handler: a page that was served;
\* answered: a response with the Max-Age of a cookie, or with a clear.
RequestState ==
    [pc: {"idle", "enriching", "inserting", "handler", "answered"}, node: Node,
     maxAge: SUBSET Nat,                \* the response's cookie, none is a clear
     end: Int]                          \* observed: how long it should last

TypeOK ==
    /\ now \in 0..MaxTime
    /\ cap \in [Node -> Caps]
    /\ stage \in {"none", "login", "alive", "ended"}
    /\ session \in SessionState
    /\ jar \in SUBSET Cookie
    /\ req \in [Request -> RequestState]

Clock(n) == now + Offset[n]

---------------------------------------------------------------------------
(* Instants and durations *)

\* unix_secs: a stored timestamp keeps its whole seconds.
UnixSecs(t) == t - (t % Second)

\* Mistake: as_secs alone.
MaxAgeTruncated(duration) == duration - (duration % Second)

\* cookie_max_age_seconds
CookieMaxAgeSeconds(duration) ==
    IF duration % Second = 0 THEN duration ELSE duration - (duration % Second) + Second

\* is_too_far_future
IsTooFarFuture(timestamp, clock) == timestamp > clock + MaxClockSkew

\* Mistake: the cap in force decides alone.
DeadlineOfConfig(s, bound) == {s.createdAt + c : c \in bound}

\* session_deadline: the earliest of these instants counts.
SessionDeadline(s, bound) == s.expireAt \cup {s.createdAt + c : c \in bound}

\* Mistake: no tolerance for a clock that lags.
TeardownAnySkew(s, bound, clock) ==
    \/ s.createdAt > clock
    \/ \E d \in SessionDeadline(s, bound) : clock > d

\* session_teardown_reason, some reason
Teardown(s, bound, clock) ==
    \/ IsTooFarFuture(s.createdAt, clock)
    \/ \E d \in SessionDeadline(s, bound) : clock > d

\* The Max-Age of a cookie for session s, none if the session is Gone.
WriteMaxAge(s, bound, clock) ==
    LET deadlines == SessionDeadline(s, bound) IN
    IF \E d \in deadlines : d <= clock THEN {}
    ELSE {CookieMaxAgeSeconds(Min({MaxAge} \cup {d - clock : d \in deadlines}))}

Stored(s) ==
    [s EXCEPT !.createdAt = UnixSecs(@), !.expireAt = {UnixSecs(t) : t \in @}]

---------------------------------------------------------------------------

Idle(n) == [pc |-> "idle", node |-> n, maxAge |-> {}, end |-> 0]

\* The session's end as node n writes it, or MaxAge from now if that is earlier.
End(n) ==
    Min({now + MaxAge} \cup {d - Offset[n] : d \in SessionDeadline(session, cap[n])})

Become(r, q) == req' = [req EXCEPT ![r] = q]

Init ==
    /\ now = 0
    /\ cap \in [Node -> Caps]
    /\ stage = "none"
    /\ \E n \in Node :
        /\ session = [createdAt |-> 0, expireAt |-> {}, node |-> n, cap |-> cap[n]]
        /\ req = [r \in Request |-> Idle(n)]
    /\ jar = {}

\* from_completed: the deadline is frozen by the cap of this node.
Login(r) ==
    /\ req[r].pc = "idle" /\ stage = "none"
    /\ \E n \in Node :
        /\ session' = [createdAt |-> Clock(n), expireAt |-> {Clock(n) + c : c \in cap[n]},
                       node |-> n, cap |-> cap[n]]
        /\ Become(r, [Idle(n) EXCEPT !.pc = "enriching"])
    /\ stage' = "login"
    /\ UNCHANGED <<now, cap, jar>>

\* create_session after the enricher: the cookie is prepared, and refused if
\* the deadline has passed; and again when the record is inserted.
Prepare(r) ==
    LET q == req[r]
        maxAge == WriteMaxAge(session, cap[q.node], Clock(q.node))
    IN  /\ q.pc = "enriching"
        /\ IF maxAge = {} THEN stage' = "ended" /\ Become(r, Idle(q.node))
           ELSE /\ Become(r, [q EXCEPT !.pc = "inserting", !.maxAge = maxAge,
                                       !.end = End(q.node)])
                /\ UNCHANGED stage
        /\ UNCHANGED <<now, cap, session, jar>>

Insert(r) ==
    LET q == req[r]
        deadlines == SessionDeadline(session, cap[q.node])
    IN  /\ q.pc = "inserting"
        /\ IF \E d \in deadlines : d <= Clock(q.node)
           THEN stage' = "ended" /\ Become(r, Idle(q.node)) /\ UNCHANGED session
           ELSE /\ stage' = "alive" /\ session' = Stored(session)
                /\ Become(r, [q EXCEPT !.pc = "answered"])
        /\ UNCHANGED <<now, cap, jar>>

\* load_session on any node: torn down, with clears, or served.
Load(r, n) ==
    /\ req[r].pc = "idle" /\ jar # {}
    /\ IF stage # "alive" \/ Teardown(session, cap[n], Clock(n))
       THEN /\ Become(r, [Idle(n) EXCEPT !.pc = "answered"])
            /\ stage' = "ended"
       ELSE /\ Become(r, [Idle(n) EXCEPT !.pc = "handler"])
            /\ UNCHANGED stage
    /\ UNCHANGED <<now, cap, session, jar>>

\* The handler is done, or its request is gone.
Finish(r) ==
    /\ req[r].pc \in {"handler", "answered"}
    /\ Become(r, Idle(req[r].node))
    /\ UNCHANGED <<now, cap, stage, session, jar>>

\* save_session, or a refresh that seals the session again: a new cookie, or
\* Gone if the deadline has passed since the load.
Save(r) ==
    LET q == req[r]
        maxAge == WriteMaxAge(session, cap[q.node], Clock(q.node))
    IN  /\ q.pc = "handler" /\ stage = "alive"
        /\ Become(r, IF maxAge = {} THEN Idle(q.node)
                     ELSE [q EXCEPT !.pc = "answered", !.maxAge = maxAge,
                                    !.end = End(q.node)])
        /\ UNCHANGED <<now, cap, stage, session, jar>>

\* The response arrives; Max-Age counts from now, and 0 deletes the cookie.
Deliver(r) ==
    LET q == req[r] IN
    /\ q.pc = "answered"
    /\ jar' = {[until |-> now + a] : a \in q.maxAge \ {0}}
    /\ Become(r, Idle(q.node))
    /\ UNCHANGED <<now, cap, stage, session>>

\* A node comes back with another cap; what it was working on is lost.
Deploy(n) ==
    /\ \E c \in Caps \ {cap[n]} : cap' = [cap EXCEPT ![n] = c]
    /\ req' = [r \in Request |->
                  IF req[r].node = n /\ req[r].pc # "answered" THEN Idle(n) ELSE req[r]]
    /\ stage' = IF stage = "login"
                   /\ \E r \in Request : req[r].node = n
                         /\ req[r].pc \in {"enriching", "inserting"}
                THEN "ended" ELSE stage
    /\ UNCHANGED <<now, session, jar>>

\* Time passes; the browser drops a cookie whose Max-Age is over.
Tick ==
    /\ now < MaxTime /\ stage # "none"
    /\ now' = now + 1
    /\ jar' = {c \in jar : c.until > now + 1}
    /\ UNCHANGED <<cap, stage, session, req>>

Next ==
    \/ \E r \in Request : \/ Login(r) \/ Prepare(r) \/ Insert(r) \/ Finish(r)
                          \/ Save(r) \/ Deliver(r)
                          \/ \E n \in Node : Load(r, n)
    \/ \E n \in Node : Deploy(n)
    \/ Tick

Spec == Init /\ [][Next]_vars

---------------------------------------------------------------------------
(* Correctness *)

\* By how much the clock that stamped the session is ahead of node n's.
Ahead(n) == Offset[session.node] - Offset[n]

\* A changed cap may shorten a session that exists, and never extends it: a
\* session is served only within the cap of its login and the cap of the node
\* that serves it, and clocks that differ add their difference and no more
\* (session_deadline; SessionLifetime::Bounded).
ServedWithinEveryCap ==
    [][\A r \in Request, n \in Node : Load(r, n) /\ req'[r].pc = "handler" =>
          \A c \in session.cap \cup cap[n] : now <= c + Ahead(n)]_vars

\* No session is taken early: what load_session tears down has outlived a cap
\* by the clocks involved, up to the second its timestamps were cut by, or
\* comes from a clock further ahead than MAX_CLOCK_SKEW
\* (session_teardown_reason; a node that lags must not destroy sessions).
LifetimeIsGranted ==
    [][\A r \in Request, n \in Node :
          Load(r, n) /\ stage = "alive" /\ stage' = "ended" =>
             \/ \E c \in session.cap \cup cap[n] : now > c + Ahead(n) - Second
             \/ Ahead(n) > now + MaxClockSkew]_vars

\* The browser never drops a cookie while the session it is for is still good
\* to the node that wrote it, unless its configured Max-Age is over: whole
\* seconds are rounded up, and 0, which would delete it on arrival, is never
\* sent (cookie_max_age_seconds, cookie_attrs_with_max_age).
CookiesLastLongEnough ==
    [][\A r \in Request : Deliver(r) /\ req[r].maxAge # {} =>
          \/ now >= req[r].end
          \/ \E c \in jar' : c.until >= req[r].end]_vars
=============================================================================
