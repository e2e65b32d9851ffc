--------------------------- MODULE LifetimeProofs ---------------------------
(***************************************************************************)
(* What Lifetime promises for every number of nodes and requests, every    *)
(* reading of their clocks, every cap they are deployed with and every     *)
(* length of a second: a session is served within every cap that applies,  *)
(* has the whole of its lifetime, and keeps its cookie that long.          *)
(***************************************************************************)
EXTENDS Lifetime, TLAPS

Stage == {"none", "login", "alive", "ended"}

---------------------------------------------------------------------------
(* Whole seconds *)

\* A stored timestamp loses less than a second.
LEMMA UnixSecsLoses ==
    ASSUME NEW t \in Nat
    PROVE  /\ UnixSecs(t) \in Nat
           /\ UnixSecs(t) <= t
           /\ UnixSecs(t) > t - Second
<1>1. Second \in Nat /\ Second > 0  BY ClockAssumption
<1>2. t % Second \in 0..(Second - 1)  BY <1>1
<1>3. t % Second <= t
  <2>1. CASE t >= Second  BY <2>1, <1>1, <1>2
  <2>2. CASE t < Second  BY <2>2, <1>1
  <2>3. QED  BY <2>1, <2>2, <1>1
<1>4. QED  BY <1>1, <1>2, <1>3 DEF UnixSecs

\* A Max-Age is never shorter than what is left, and never negative.
LEMMA RoundedUp ==
    ASSUME NEW d \in Int, d > 0
    PROVE  /\ CookieMaxAgeSeconds(d) \in Nat
           /\ CookieMaxAgeSeconds(d) >= d
<1>1. Second \in Nat /\ Second > 0  BY ClockAssumption
<1>2. d % Second \in 0..(Second - 1)  BY <1>1
<1>3. QED  BY <1>1, <1>2 DEF CookieMaxAgeSeconds

---------------------------------------------------------------------------
(* The earliest of a few instants *)

AtMostOne(S) == \A a, b \in S : a = b

\* The minimum of a number and of two options is one of them.
LEMMA MinOfOptions ==
    ASSUME NEW x \in Int, NEW A \in SUBSET Int, NEW B \in SUBSET Int,
           AtMostOne(A), AtMostOne(B)
    PROVE  /\ Min({x} \cup (A \cup B)) \in {x} \cup (A \cup B)
           /\ \A y \in {x} \cup (A \cup B) : Min({x} \cup (A \cup B)) <= y
<1> DEFINE S == {x} \cup (A \cup B)
<1>1. S \subseteq Int  OBVIOUS
<1>2. \E m \in S : \A y \in S : m <= y
  <2>1. PICK a \in {x} \cup A : \A y \in {x} \cup A : a <= y
    BY DEF AtMostOne
  <2>2. PICK b \in {x} \cup B : \A y \in {x} \cup B : b <= y
    BY DEF AtMostOne
  <2>3. CASE a <= b  BY <2>1, <2>2, <2>3
  <2>4. CASE b <= a  BY <2>1, <2>2, <2>4
  <2>5. a \in Int /\ b \in Int  OBVIOUS
  <2>6. QED  BY <2>3, <2>4, <2>5
<1>3. QED  BY <1>2 DEF Min

\* The deadlines of a session under a cap are two options.
LEMMA DeadlinesAreOptions ==
    ASSUME NEW s \in SessionState, NEW bound \in Caps, AtMostOne(s.expireAt)
    PROVE  /\ s.expireAt \subseteq Nat
           /\ {s.createdAt + c : c \in bound} \subseteq Nat
           /\ AtMostOne({s.createdAt + c : c \in bound})
           /\ SessionDeadline(s, bound)
                 = s.expireAt \cup {s.createdAt + c : c \in bound}
<1>1. s.createdAt \in Nat /\ s.expireAt \subseteq Nat  BY DEF SessionState, Instant
<1>2. bound \subseteq Nat /\ AtMostOne(bound)  BY CapsAssumption DEF AtMostOne
<1>3. AtMostOne({s.createdAt + c : c \in bound})  BY <1>1, <1>2 DEF AtMostOne
<1>4. QED  BY <1>1, <1>2, <1>3 DEF SessionDeadline

---------------------------------------------------------------------------
(* The inductive invariant *)

Birth == Offset[session.node]

Busy(r) == req[r].pc \in {"enriching", "inserting"}

\* Where the times of the session come from.
Dated ==
    /\ stage = "login" =>
          /\ session.createdAt = Birth
          /\ session.expireAt = {Birth + c : c \in session.cap}
    /\ stage = "alive" =>
          /\ session.createdAt = UnixSecs(Birth)
          /\ session.expireAt = {UnixSecs(Birth + c) : c \in session.cap}

\* Time starts with the login, and there is one.
OneLogin ==
    /\ stage = "none" => now = 0
    /\ \A r \in Request : Busy(r) => stage = "login"
    /\ \A r, s \in Request : Busy(r) /\ Busy(s) => r = s
    /\ \A r \in Request : req[r].pc \in {"handler", "answered"} =>
          stage \in {"alive", "ended"}
    /\ jar # {} => stage \in {"alive", "ended"}

\* The Max-Age of a response that is under way still reaches its end.
Lasting ==
    \A r \in Request : req[r].pc \in {"inserting", "answered"} =>
        \A a \in req[r].maxAge : a > 0 /\ req[r].end <= now + a

IInv == TypeOK /\ AtMostOne(session.expireAt) /\ Dated /\ OneLogin /\ Lasting

LEMMA ClocksAreNat ==
    ASSUME NEW n \in Node, now \in Nat
    PROVE  Offset[n] \in Nat /\ Clock(n) \in Nat /\ Clock(n) = now + Offset[n]
BY ClockAssumption DEF Clock

\* What a node writes lasts as long as End says, and no less than a unit.
LEMMA WrittenLasts ==
    ASSUME now \in Nat, NEW n \in Node, cap[n] \in Caps, session \in SessionState,
           AtMostOne(session.expireAt)
    PROVE  /\ End(n) \in Int
           /\ WriteMaxAge(session, cap[n], Clock(n)) \in SUBSET Nat
           /\ \A a \in WriteMaxAge(session, cap[n], Clock(n)) :
                 a > 0 /\ End(n) <= now + a
<1> DEFINE k == Clock(n)
           A == session.expireAt
           B == {session.createdAt + c : c \in cap[n]}
<1>1. A \subseteq Nat /\ B \subseteq Nat /\ AtMostOne(B)
      /\ SessionDeadline(session, cap[n]) = A \cup B
  BY DeadlinesAreOptions
<1>2. Offset[n] \in Nat /\ k \in Nat /\ k = now + Offset[n]  BY ClocksAreNat
<1>3. MaxAge \in Nat /\ MaxAge > 0  BY MaxAgeAssumption
<1> HIDE DEF k, A, B
<1> DEFINE AK == {d - k : d \in A}
           BK == {d - k : d \in B}
           AO == {d - Offset[n] : d \in A}
           BO == {d - Offset[n] : d \in B}
<1>4. AK \subseteq Int /\ BK \subseteq Int /\ AO \subseteq Int /\ BO \subseteq Int
  BY <1>1, <1>2
<1>5. AtMostOne(A)  BY DEF A
<1>6. AtMostOne(AK) /\ AtMostOne(BK) /\ AtMostOne(AO) /\ AtMostOne(BO)
  BY <1>1, <1>5 DEF AtMostOne
<1>7. {d - k : d \in A \cup B} = AK \cup BK
      /\ {d - Offset[n] : d \in A \cup B} = AO \cup BO
  OBVIOUS
<1> DEFINE left == Min({MaxAge} \cup (AK \cup BK))
           end == Min({now + MaxAge} \cup (AO \cup BO))
<1>71. \A u \in AK \cup BK : \E d \in A \cup B : u = d - k  OBVIOUS
<1>72. \A d \in A \cup B : d - Offset[n] \in AO \cup BO  OBVIOUS
<1> HIDE DEF AK, BK, AO, BO
<1>8. left \in {MaxAge} \cup (AK \cup BK)
  <2>1. MaxAge \in Int /\ AK \in SUBSET Int /\ BK \in SUBSET Int  BY <1>3, <1>4
  <2>2. QED  BY ONLY <2>1, <1>6, MinOfOptions
<1>9. end \in {now + MaxAge} \cup (AO \cup BO)
      /\ \A y \in {now + MaxAge} \cup (AO \cup BO) : end <= y
  <2>1. now + MaxAge \in Int /\ AO \in SUBSET Int /\ BO \in SUBSET Int  BY <1>3, <1>4
  <2>2. QED  BY ONLY <2>1, <1>6, MinOfOptions
<1>10. End(n) = end  BY <1>1, <1>7 DEF End
<1>12. WriteMaxAge(session, cap[n], k)
         = IF \E d \in A \cup B : d <= k THEN {} ELSE {CookieMaxAgeSeconds(left)}
  BY <1>1, <1>7 DEF WriteMaxAge
<1> HIDE DEF left, end
<1>11. end \in Int
  <2>1. now + MaxAge \in Int  BY <1>3
  <2>2. QED  BY <2>1, <1>4, <1>9
<1>13. ASSUME ~ \E d \in A \cup B : d <= k
       PROVE  left \in Int /\ left > 0 /\ end <= now + left
  <2>1. CASE left = MaxAge  BY <2>1, <1>3, <1>9
  <2>2. CASE left \in AK \cup BK
    <3>1. PICK d \in A \cup B : left = d - k  BY <2>2, <1>71
    <3>2. d \in Nat /\ d > k
      <4>1. d \in Nat  BY <1>1
      <4>2. ~ (d <= k)  BY <1>13
      <4>3. QED  BY <4>1, <4>2, <1>2
    <3>3. end <= d - Offset[n]  BY <1>9, <1>72
    <3>4. d - Offset[n] = now + left  BY <3>1, <3>2, <1>2
    <3>5. QED  BY <3>1, <3>2, <3>3, <3>4, <1>2
  <2>3. QED  BY <2>1, <2>2, <1>8
<1>14. CASE \E d \in A \cup B : d <= k  BY <1>14, <1>10, <1>11, <1>12 DEF k
<1>15. CASE ~ \E d \in A \cup B : d <= k
  <2>1. left \in Int /\ left > 0 /\ end <= now + left  BY <1>13, <1>15
  <2>2. CookieMaxAgeSeconds(left) \in Nat /\ CookieMaxAgeSeconds(left) >= left
    BY <2>1, RoundedUp
  <2>3. CookieMaxAgeSeconds(left) > 0 /\ end <= now + CookieMaxAgeSeconds(left)
    BY <2>1, <2>2, <1>11
  <2>4. WriteMaxAge(session, cap[n], k) = {CookieMaxAgeSeconds(left)}  BY <1>12, <1>15
  <2>5. QED  BY <2>2, <2>3, <2>4, <1>10, <1>11 DEF k
<1>16. QED  BY <1>14, <1>15

---------------------------------------------------------------------------
(* The initial states and the steps *)

\* A delegated login has no deadline, another one only one.
LEMMA StampedTimes ==
    ASSUME NEW t \in Nat, NEW c \in Caps
    PROVE  /\ {t + x : x \in c} \in SUBSET Nat /\ AtMostOne({t + x : x \in c})
           /\ {UnixSecs(t + x) : x \in c} \in SUBSET Nat
           /\ AtMostOne({UnixSecs(t + x) : x \in c})
<1>1. c \subseteq Nat /\ AtMostOne(c)  BY CapsAssumption DEF AtMostOne
<1>2. \A x \in c : t + x \in Nat /\ UnixSecs(t + x) \in Nat  BY <1>1, UnixSecsLoses
<1>3. QED  BY <1>1, <1>2 DEF AtMostOne

LEMMA IdleIsARequest ==
    ASSUME NEW n \in Node
    PROVE  Idle(n) \in RequestState /\ Idle(n).pc = "idle" /\ Idle(n).maxAge = {}
BY DEF Idle, RequestState

LEMMA InitIInv == Init => IInv
<1> SUFFICES ASSUME Init PROVE IInv  OBVIOUS
<1>1. now = 0 /\ cap \in [Node -> Caps] /\ stage = "none" /\ jar = {}  BY DEF Init
<1>2. PICK n \in Node :
         /\ session = [createdAt |-> 0, expireAt |-> {}, node |-> n, cap |-> cap[n]]
         /\ req = [r \in Request |-> Idle(n)]
  BY DEF Init
<1>3. session \in SessionState  BY <1>1, <1>2 DEF SessionState, Instant
<1>4. req \in [Request -> RequestState] /\ \A r \in Request : req[r].pc = "idle"
  BY <1>2, IdleIsARequest
<1>5. now \in 0..MaxTime  BY <1>1, ClockAssumption
<1>6. TypeOK  BY <1>1, <1>3, <1>4, <1>5 DEF TypeOK
<1>7. QED  BY <1>1, <1>2, <1>4, <1>6 DEF IInv, AtMostOne, Dated, OneLogin, Lasting, Busy

\* A step of one request: what it becomes.
LEMMA Becomes ==
    ASSUME NEW r \in Request, NEW q \in RequestState, req \in [Request -> RequestState],
           Become(r, q)
    PROVE  /\ req' \in [Request -> RequestState]
           /\ req'[r] = q
           /\ \A s \in Request \ {r} : req'[s] = req[s]
BY DEF Become

LEMMA LoginStep ==
    ASSUME IInv, NEW r \in Request, Login(r)
    PROVE  IInv'
<1>1. /\ now \in 0..MaxTime /\ cap \in [Node -> Caps] /\ jar \in SUBSET Cookie
      /\ req \in [Request -> RequestState] /\ OneLogin
  BY DEF IInv, TypeOK
<1>2. /\ req[r].pc = "idle" /\ stage = "none" /\ stage' = "login"
      /\ now' = now /\ cap' = cap /\ jar' = jar
  BY DEF Login
<1>3. PICK n \in Node :
         /\ session' = [createdAt |-> Clock(n), expireAt |-> {Clock(n) + c : c \in cap[n]},
                        node |-> n, cap |-> cap[n]]
         /\ Become(r, [Idle(n) EXCEPT !.pc = "enriching"])
  BY DEF Login
<1>4. now = 0 /\ now' \in 0..MaxTime  BY <1>1, <1>2 DEF OneLogin
<1>5. Clock(n) \in Nat /\ Clock(n) = Offset[n]  BY <1>4, ClocksAreNat
<1>6. {Clock(n) + c : c \in cap[n]} \in SUBSET Nat
      /\ AtMostOne({Clock(n) + c : c \in cap[n]})
  BY <1>1, <1>5, StampedTimes
<1>7. session' \in SessionState /\ AtMostOne(session.expireAt)'
  BY <1>1, <1>3, <1>5, <1>6 DEF SessionState, Instant
<1>8. Dated'  BY <1>2, <1>3, <1>5 DEF Dated, Birth
<1>9. [Idle(n) EXCEPT !.pc = "enriching"] \in RequestState
      /\ [Idle(n) EXCEPT !.pc = "enriching"].pc = "enriching"
  BY DEF Idle, RequestState
<1>10. /\ req' \in [Request -> RequestState] /\ req'[r].pc = "enriching"
       /\ \A s \in Request \ {r} : req'[s] = req[s]
  BY <1>1, <1>3, <1>9, Becomes
<1>11. \A s \in Request : req[s].pc = "idle"
  BY <1>1, <1>2 DEF OneLogin, Busy, RequestState
<1>12. TypeOK'  BY <1>1, <1>2, <1>4, <1>7, <1>10 DEF TypeOK
<1>13. OneLogin'  BY <1>1, <1>2, <1>10, <1>11 DEF OneLogin, Busy
<1>14. Lasting'  BY <1>10, <1>11 DEF Lasting
<1>15. QED  BY <1>7, <1>8, <1>12, <1>13, <1>14 DEF IInv

LEMMA PrepareStep ==
    ASSUME IInv, NEW r \in Request, Prepare(r)
    PROVE  IInv'
<1> DEFINE q == req[r]
           maxAge == WriteMaxAge(session, cap[q.node], Clock(q.node))
<1>1. /\ now \in 0..MaxTime /\ now \in Nat /\ cap \in [Node -> Caps]
      /\ jar \in SUBSET Cookie /\ req \in [Request -> RequestState]
      /\ session \in SessionState /\ AtMostOne(session.expireAt)
      /\ OneLogin /\ Lasting /\ Dated
  BY ClockAssumption DEF IInv, TypeOK
<1>2. /\ q.pc = "enriching" /\ now' = now /\ cap' = cap /\ session' = session
      /\ jar' = jar
  BY DEF Prepare
<1>3. /\ stage = "login" /\ jar = {}
      /\ \A s \in Request \ {r} : ~ Busy(s) /\ req[s].pc \notin {"handler", "answered"}
  BY <1>1, <1>2 DEF OneLogin, Busy
<1>4. q \in RequestState /\ q.node \in Node  BY <1>1 DEF RequestState
<1>5. /\ End(q.node) \in Int /\ maxAge \in SUBSET Nat
      /\ \A a \in maxAge : a > 0 /\ End(q.node) <= now + a
  BY <1>1, <1>4, WrittenLasts
<1>6. CASE maxAge = {}
  <2>1. stage' = "ended" /\ Become(r, Idle(q.node))  BY <1>6 DEF Prepare
  <2>2. Idle(q.node) \in RequestState /\ Idle(q.node).pc = "idle"
    BY <1>4, IdleIsARequest
  <2>3. /\ req' \in [Request -> RequestState] /\ req'[r].pc = "idle"
        /\ \A s \in Request \ {r} : req'[s] = req[s]
    BY <1>1, <2>1, <2>2, Becomes
  <2>4. TypeOK'  BY <1>1, <1>2, <2>1, <2>3 DEF TypeOK
  <2>5. Dated'  BY <2>1 DEF Dated
  <2>6. OneLogin'  BY <1>2, <1>3, <2>1, <2>3 DEF OneLogin, Busy
  <2>7. Lasting'  BY <1>3, <2>3 DEF Lasting, Busy
  <2>8. QED  BY <1>1, <1>2, <2>4, <2>5, <2>6, <2>7 DEF IInv
<1>7. CASE maxAge # {}
  <2> DEFINE p == [q EXCEPT !.pc = "inserting", !.maxAge = maxAge, !.end = End(q.node)]
  <2>1. stage' = stage /\ Become(r, p)  BY <1>7 DEF Prepare
  <2>2. /\ p \in RequestState /\ p.pc = "inserting" /\ p.maxAge = maxAge
        /\ p.end = End(q.node)
    BY <1>4, <1>5 DEF RequestState
  <2> HIDE DEF p
  <2>3. /\ req' \in [Request -> RequestState] /\ req'[r] = p
        /\ \A s \in Request \ {r} : req'[s] = req[s]
    BY <1>1, <2>1, <2>2, Becomes
  <2>4. TypeOK'  BY <1>1, <1>2, <1>3, <2>1, <2>3 DEF TypeOK
  <2>5. Dated'  BY <1>1, <1>2, <2>1 DEF Dated, Birth
  <2>6. OneLogin'  BY <1>2, <1>3, <2>1, <2>2, <2>3 DEF OneLogin, Busy
  <2>7. Lasting'
    <3>1. \A a \in p.maxAge : a > 0 /\ p.end <= now' + a  BY <1>2, <1>5, <2>2
    <3>2. QED  BY <1>3, <2>3, <3>1 DEF Lasting, Busy
  <2>8. QED  BY <1>1, <1>2, <2>4, <2>5, <2>6, <2>7 DEF IInv
<1>8. QED  BY <1>6, <1>7

LEMMA InsertStep ==
    ASSUME IInv, NEW r \in Request, Insert(r)
    PROVE  IInv'
<1> DEFINE q == req[r]
           over == \E d \in SessionDeadline(session, cap[q.node]) : d <= Clock(q.node)
<1>1. /\ now \in 0..MaxTime /\ now \in Nat /\ cap \in [Node -> Caps]
      /\ jar \in SUBSET Cookie /\ req \in [Request -> RequestState]
      /\ session \in SessionState /\ AtMostOne(session.expireAt)
      /\ OneLogin /\ Lasting /\ Dated
  BY ClockAssumption DEF IInv, TypeOK
<1>2. q.pc = "inserting" /\ now' = now /\ cap' = cap /\ jar' = jar  BY DEF Insert
<1>3. /\ stage = "login" /\ jar = {}
      /\ \A s \in Request \ {r} : ~ Busy(s) /\ req[s].pc \notin {"handler", "answered"}
  BY <1>1, <1>2 DEF OneLogin, Busy
<1>4. q \in RequestState /\ q.node \in Node  BY <1>1 DEF RequestState
<1>5. CASE over
  <2>1. stage' = "ended" /\ Become(r, Idle(q.node)) /\ session' = session
    BY <1>5 DEF Insert
  <2>2. Idle(q.node) \in RequestState /\ Idle(q.node).pc = "idle"
    BY <1>4, IdleIsARequest
  <2>3. /\ req' \in [Request -> RequestState] /\ req'[r].pc = "idle"
        /\ \A s \in Request \ {r} : req'[s] = req[s]
    BY <1>1, <2>1, <2>2, Becomes
  <2>4. TypeOK'  BY <1>1, <1>2, <2>1, <2>3 DEF TypeOK
  <2>5. Dated'  BY <2>1 DEF Dated
  <2>6. OneLogin'  BY <1>2, <1>3, <2>1, <2>3 DEF OneLogin, Busy
  <2>7. Lasting'  BY <1>3, <2>3 DEF Lasting, Busy
  <2>8. QED  BY <1>1, <2>1, <2>4, <2>5, <2>6, <2>7 DEF IInv
<1>6. CASE ~ over
  <2> DEFINE p == [q EXCEPT !.pc = "answered"]
  <2>1. stage' = "alive" /\ session' = Stored(session) /\ Become(r, p)
    BY <1>6 DEF Insert
  <2>2. /\ p \in RequestState /\ p.pc = "answered" /\ p.maxAge = q.maxAge
        /\ p.end = q.end
    BY <1>4 DEF RequestState
  <2> HIDE DEF p
  <2>3. /\ req' \in [Request -> RequestState] /\ req'[r] = p
        /\ \A s \in Request \ {r} : req'[s] = req[s]
    BY <1>1, <2>1, <2>2, Becomes
  <2>4. session' = [createdAt |-> UnixSecs(session.createdAt),
                    expireAt |-> {UnixSecs(t) : t \in session.expireAt},
                    node |-> session.node, cap |-> session.cap]
    BY <1>1, <2>1 DEF Stored, SessionState
  <2>5. /\ Birth \in Nat /\ session.createdAt = Birth
        /\ session.expireAt = {Birth + c : c \in session.cap}
    BY <1>1, <1>3, ClocksAreNat DEF Dated, Birth, SessionState
  <2>6. {UnixSecs(t) : t \in session.expireAt} = {UnixSecs(Birth + c) : c \in session.cap}
    BY <2>5
  <2>7. /\ {UnixSecs(Birth + c) : c \in session.cap} \in SUBSET Nat
        /\ AtMostOne({UnixSecs(Birth + c) : c \in session.cap})
    BY <1>1, <2>5, StampedTimes DEF SessionState
  <2>8. UnixSecs(Birth) \in Nat  BY <2>5, UnixSecsLoses
  <2>9. session' \in SessionState /\ AtMostOne(session.expireAt)'
    BY <1>1, <2>4, <2>5, <2>6, <2>7, <2>8 DEF SessionState, Instant
  <2>10. TypeOK'  BY <1>1, <1>2, <2>1, <2>3, <2>9 DEF TypeOK
  <2>11. Dated'  BY <2>1, <2>4, <2>5, <2>6 DEF Dated, Birth
  <2>12. OneLogin'  BY <1>2, <1>3, <2>1, <2>2, <2>3 DEF OneLogin, Busy
  <2>13. Lasting'
    <3>1. \A a \in p.maxAge : a > 0 /\ p.end <= now' + a
      BY <1>1, <1>2, <2>2 DEF Lasting
    <3>2. QED  BY <1>3, <2>3, <3>1 DEF Lasting, Busy
  <2>14. QED  BY <2>9, <2>10, <2>11, <2>12, <2>13 DEF IInv
<1>7. QED  BY <1>5, <1>6

\* Once the login is over, a step of a request touches the session's stage
\* only to end it: the request idles, is served, or answers.
LEMMA LaterStep ==
    ASSUME IInv, NEW r \in Request, NEW p \in RequestState,
           stage \in {"alive", "ended"}, stage' \in {stage, "ended"},
           p.pc \in {"idle", "handler", "answered"},
           p.pc = "answered" => \A a \in p.maxAge : a > 0 /\ p.end <= now + a,
           Become(r, p), jar' \in SUBSET Cookie,
           UNCHANGED <<now, cap, session>>
    PROVE  IInv'
<1>1. /\ now \in 0..MaxTime /\ cap \in [Node -> Caps]
      /\ req \in [Request -> RequestState]
      /\ session \in SessionState /\ AtMostOne(session.expireAt)
      /\ OneLogin /\ Lasting /\ Dated
  BY DEF IInv, TypeOK
<1>2. \A s \in Request : ~ Busy(s)  BY <1>1 DEF OneLogin
<1>3. /\ req' \in [Request -> RequestState] /\ req'[r] = p
      /\ \A s \in Request \ {r} : req'[s] = req[s]
  BY <1>1, Becomes
<1>4. TypeOK'  BY <1>1, <1>3 DEF TypeOK
<1>5. Dated'  BY <1>1 DEF Dated, Birth
<1>6. OneLogin'  BY <1>1, <1>2, <1>3 DEF OneLogin, Busy
<1>7. Lasting'  BY <1>1, <1>3 DEF Lasting
<1>8. QED  BY <1>1, <1>4, <1>5, <1>6, <1>7 DEF IInv

LEMMA LoadStep ==
    ASSUME IInv, NEW r \in Request, NEW n \in Node, Load(r, n)
    PROVE  IInv'
<1>1. /\ stage \in {"alive", "ended"} /\ jar \in SUBSET Cookie
  BY DEF IInv, TypeOK, OneLogin, Load
<1>2. jar' = jar /\ UNCHANGED <<now, cap, session>>  BY DEF Load
<1>3. PICK p \in {[Idle(n) EXCEPT !.pc = "answered"], [Idle(n) EXCEPT !.pc = "handler"]} :
         Become(r, p) /\ stage' \in {stage, "ended"}
  BY DEF Load
<1>4. p \in RequestState /\ p.pc \in {"handler", "answered"} /\ p.maxAge = {}
  BY <1>3 DEF Idle, RequestState
<1>5. QED  BY <1>1, <1>2, <1>3, <1>4, LaterStep

LEMMA FinishStep ==
    ASSUME IInv, NEW r \in Request, Finish(r)
    PROVE  IInv'
<1>1. stage \in {"alive", "ended"} /\ jar \in SUBSET Cookie /\ req[r].node \in Node
  BY DEF IInv, TypeOK, OneLogin, Finish, RequestState
<1>2. Idle(req[r].node) \in RequestState /\ Idle(req[r].node).pc = "idle"
  BY <1>1, IdleIsARequest
<1>3. /\ Become(r, Idle(req[r].node)) /\ stage' = stage /\ jar' = jar
      /\ UNCHANGED <<now, cap, session>>
  BY DEF Finish
<1>4. QED  BY <1>1, <1>2, <1>3, LaterStep

LEMMA SaveStep ==
    ASSUME IInv, NEW r \in Request, Save(r)
    PROVE  IInv'
<1> DEFINE q == req[r]
           maxAge == WriteMaxAge(session, cap[q.node], Clock(q.node))
<1>1. /\ stage = "alive" /\ jar \in SUBSET Cookie /\ q \in RequestState /\ q.node \in Node
      /\ now \in Nat /\ cap \in [Node -> Caps] /\ session \in SessionState
      /\ AtMostOne(session.expireAt)
  BY ClockAssumption DEF IInv, TypeOK, Save, RequestState
<1>2. stage' = stage /\ jar' = jar /\ UNCHANGED <<now, cap, session>>  BY DEF Save
<1>3. /\ End(q.node) \in Int /\ maxAge \in SUBSET Nat
      /\ \A a \in maxAge : a > 0 /\ End(q.node) <= now + a
  BY <1>1, WrittenLasts
<1>4. CASE maxAge = {}
  <2>1. Become(r, Idle(q.node))  BY <1>4 DEF Save
  <2>2. Idle(q.node) \in RequestState /\ Idle(q.node).pc = "idle"
    BY <1>1, IdleIsARequest
  <2>3. QED  BY <1>1, <1>2, <2>1, <2>2, LaterStep
<1>5. CASE maxAge # {}
  <2> DEFINE p == [q EXCEPT !.pc = "answered", !.maxAge = maxAge, !.end = End(q.node)]
  <2>1. Become(r, p)  BY <1>5 DEF Save
  <2>2. /\ p \in RequestState /\ p.pc = "answered" /\ p.maxAge = maxAge
        /\ p.end = End(q.node)
    BY <1>1, <1>3 DEF RequestState
  <2> HIDE DEF p
  <2>3. \A a \in p.maxAge : a > 0 /\ p.end <= now + a  BY <1>3, <2>2
  <2>4. QED  BY <1>1, <1>2, <2>1, <2>2, <2>3, LaterStep
<1>6. QED  BY <1>4, <1>5

\* What the browser holds after a response.
LEMMA Stores ==
    ASSUME IInv, NEW r \in Request, Deliver(r)
    PROVE  /\ now \in Nat /\ req[r].maxAge \in SUBSET Nat /\ req[r].end \in Int
           /\ \A a \in req[r].maxAge : a > 0 /\ req[r].end <= now + a
           /\ jar' = {[until |-> now + a] : a \in req[r].maxAge}
           /\ jar' \in SUBSET Cookie
<1>1. /\ now \in Nat /\ req[r].maxAge \in SUBSET Nat /\ req[r].end \in Int
      /\ \A a \in req[r].maxAge : a > 0 /\ req[r].end <= now + a
  BY ClockAssumption DEF IInv, TypeOK, RequestState, Lasting, Deliver
<1>2. req[r].maxAge \ {0} = req[r].maxAge  BY <1>1
<1>3. jar' = {[until |-> now + a] : a \in req[r].maxAge}  BY <1>2 DEF Deliver
<1>4. \A a \in req[r].maxAge : [until |-> now + a] \in Cookie  BY <1>1 DEF Cookie
<1>5. QED  BY <1>1, <1>3, <1>4

LEMMA DeliverStep ==
    ASSUME IInv, NEW r \in Request, Deliver(r)
    PROVE  IInv'
<1>1. stage \in {"alive", "ended"} /\ req[r].node \in Node
  BY DEF IInv, TypeOK, OneLogin, Deliver, RequestState
<1>2. Idle(req[r].node) \in RequestState /\ Idle(req[r].node).pc = "idle"
  BY <1>1, IdleIsARequest
<1>3. Become(r, Idle(req[r].node)) /\ stage' = stage /\ UNCHANGED <<now, cap, session>>
  BY DEF Deliver
<1>4. jar' \in SUBSET Cookie  BY Stores
<1>5. QED  BY <1>1, <1>2, <1>3, <1>4, LaterStep

LEMMA DeployStep ==
    ASSUME IInv, NEW n \in Node, Deploy(n)
    PROVE  IInv'
<1>1. /\ now \in 0..MaxTime /\ cap \in [Node -> Caps]
      /\ stage \in {"none", "login", "alive", "ended"} /\ jar \in SUBSET Cookie
      /\ req \in [Request -> RequestState]
      /\ session \in SessionState /\ AtMostOne(session.expireAt)
      /\ OneLogin /\ Lasting /\ Dated
  BY DEF IInv, TypeOK
<1>2. now' = now /\ session' = session /\ jar' = jar /\ cap' \in [Node -> Caps]
  BY <1>1 DEF Deploy
<1>3. req' = [r \in Request |->
                 IF req[r].node = n /\ req[r].pc # "answered" THEN Idle(n) ELSE req[r]]
  BY DEF Deploy
<1>4. Idle(n) \in RequestState /\ Idle(n).pc = "idle"  BY IdleIsARequest
<1>5. /\ req' \in [Request -> RequestState]
      /\ \A r \in Request : req'[r] = req[r] \/ req'[r].pc = "idle"
      /\ \A r \in Request : Busy(r) /\ req[r].node = n => req'[r].pc = "idle"
  BY <1>1, <1>3, <1>4 DEF Busy
<1>6. /\ \/ stage' = stage
         \/ (stage = "login" /\ stage' = "ended")
      /\ stage' # stage => \E r \in Request : req[r].node = n /\ Busy(r)
  <2> DEFINE lost == stage = "login" /\ \E r \in Request : req[r].node = n
                        /\ req[r].pc \in {"enriching", "inserting"}
  <2>1. stage' = IF lost THEN "ended" ELSE stage  BY DEF Deploy
  <2>2. lost => \E r \in Request : req[r].node = n /\ Busy(r)  BY DEF Busy
  <2>3. QED  BY <2>1, <2>2
<1>7. TypeOK'  BY <1>1, <1>2, <1>5, <1>6 DEF TypeOK
<1>8. Dated'  BY <1>1, <1>2, <1>6 DEF Dated, Birth
<1>9. OneLogin'
  <2>1. \A r \in Request : Busy(r)' => Busy(r) /\ req'[r] = req[r]
    BY <1>5 DEF Busy
  <2>2. \A r \in Request : Busy(r)' => stage' = "login"
    <3>1. SUFFICES ASSUME NEW r \in Request, Busy(r)', stage' # "login" PROVE FALSE
      OBVIOUS
    <3>2. Busy(r) /\ stage = "login"  BY <1>1, <2>1, <3>1 DEF OneLogin
    <3>3. PICK s \in Request : req[s].node = n /\ Busy(s)  BY <1>6, <3>1, <3>2
    <3>4. s = r  BY <1>1, <3>2, <3>3 DEF OneLogin
    <3>5. req'[r].pc = "idle"  BY <1>5, <3>3, <3>4
    <3>6. QED  BY <3>1, <3>5 DEF Busy
  <2>3. \A r, s \in Request : Busy(r)' /\ Busy(s)' => r = s
    BY <1>1, <2>1 DEF OneLogin
  <2>4. stage' = "none" => now' = 0  BY <1>1, <1>2, <1>6 DEF OneLogin
  <2>5. \A r \in Request : req'[r].pc \in {"handler", "answered"} =>
           stage' \in {"alive", "ended"}
    BY <1>1, <1>5, <1>6 DEF OneLogin
  <2>6. jar' # {} => stage' \in {"alive", "ended"}  BY <1>1, <1>2, <1>6 DEF OneLogin
  <2>7. QED  BY <2>2, <2>3, <2>4, <2>5, <2>6 DEF OneLogin
<1>10. Lasting'  BY <1>1, <1>2, <1>5 DEF Lasting
<1>11. QED  BY <1>1, <1>2, <1>7, <1>8, <1>9, <1>10 DEF IInv

LEMMA TickStep ==
    ASSUME IInv, Tick
    PROVE  IInv'
<1>1. /\ now \in Nat /\ MaxTime \in Nat /\ now < MaxTime /\ now' = now + 1
      /\ stage # "none" /\ jar' \subseteq jar
      /\ UNCHANGED <<cap, stage, session, req>>
  BY ClockAssumption DEF IInv, TypeOK, Tick
<1>2. TypeOK'  BY <1>1 DEF IInv, TypeOK
<1>3. Dated'  BY <1>1 DEF IInv, Dated, Birth
<1>4. OneLogin'  BY <1>1 DEF IInv, OneLogin, Busy
<1>5. Lasting'
  <2>1. SUFFICES ASSUME NEW r \in Request, req[r].pc \in {"inserting", "answered"},
                        NEW a \in req[r].maxAge
                 PROVE  a > 0 /\ req[r].end <= now' + a
    BY <1>1 DEF Lasting
  <2>2. a \in Nat /\ req[r].end \in Int  BY DEF IInv, TypeOK, RequestState
  <2>3. a > 0 /\ req[r].end <= now + a  BY <2>1 DEF IInv, Lasting
  <2>4. QED  BY <1>1, <2>2, <2>3
<1>6. QED  BY <1>1, <1>2, <1>3, <1>4, <1>5 DEF IInv

LEMMA NextIInv == IInv /\ [Next]_vars => IInv'
<1> SUFFICES ASSUME IInv, [Next]_vars PROVE IInv'  OBVIOUS
<1>1. CASE UNCHANGED vars
  BY <1>1 DEF vars, IInv, TypeOK, Dated, Birth, OneLogin, Busy, Lasting, AtMostOne
<1>2. CASE \E r \in Request : \/ Login(r) \/ Prepare(r) \/ Insert(r) \/ Finish(r)
                              \/ Save(r) \/ Deliver(r)
                              \/ \E n \in Node : Load(r, n)
  BY <1>2, LoginStep, PrepareStep, InsertStep, FinishStep, SaveStep, DeliverStep, LoadStep
<1>3. CASE \E n \in Node : Deploy(n)  BY <1>3, DeployStep
<1>4. CASE Tick  BY <1>4, TickStep
<1>5. QED  BY <1>1, <1>2, <1>3, <1>4 DEF Next

---------------------------------------------------------------------------
(* The theorems *)

\* The invariant above holds of every reachable state.
THEOREM Invariance == Spec => []IInv
<1>1. Init => IInv  BY InitIInv
<1>2. IInv /\ [Next]_vars => IInv'  BY NextIInv
<1>3. QED  BY <1>1, <1>2, PTL DEF Spec

\* Every variable keeps its type: in particular what is written as a Max-Age is
\* never negative, and no timestamp is before the epoch.
THEOREM TypeCorrect == Spec => []TypeOK
<1>1. IInv => TypeOK  BY DEF IInv
<1>2. QED  BY <1>1, Invariance, PTL

\* The times of a session that can be loaded, up to the second they lose.
LEMMA StoredTimes ==
    ASSUME IInv, stage = "alive", NEW n \in Node
    PROVE  /\ now \in Nat /\ Birth \in Nat /\ Offset[n] \in Nat
           /\ Ahead(n) = Birth - Offset[n] /\ Clock(n) = now + Offset[n]
           /\ session.createdAt \in Nat
           /\ session.createdAt <= Birth /\ session.createdAt > Birth - Second
           /\ session.cap \subseteq Nat /\ cap[n] \subseteq Nat
           /\ session.expireAt = {UnixSecs(Birth + c) : c \in session.cap}
<1>1. /\ now \in Nat /\ session \in SessionState /\ cap[n] \in Caps
      /\ session.createdAt = UnixSecs(Birth)
      /\ session.expireAt = {UnixSecs(Birth + c) : c \in session.cap}
  BY ClockAssumption DEF IInv, TypeOK, Dated
<1>2. session.node \in Node /\ session.cap \in Caps  BY <1>1 DEF SessionState
<1>3. Birth \in Nat /\ Offset[n] \in Nat /\ Clock(n) = now + Offset[n]
  BY <1>1, <1>2, ClocksAreNat DEF Birth
<1>4. Ahead(n) = Birth - Offset[n]  BY DEF Ahead, Birth
<1>5. session.cap \subseteq Nat /\ cap[n] \subseteq Nat  BY <1>1, <1>2, CapsAssumption
<1>6. QED  BY <1>1, <1>3, <1>4, <1>5, UnixSecsLoses

\* A session is served within the cap of its login and the cap of its node.
THEOREM WithinEveryCap == Spec => ServedWithinEveryCap
<1>1. ASSUME IInv, NEW r \in Request, NEW n \in Node, Load(r, n),
             req'[r].pc = "handler", NEW c \in session.cap \cup cap[n]
      PROVE  now <= c + Ahead(n)
  <2>1. req \in [Request -> RequestState]  BY <1>1 DEF IInv, TypeOK
  <2>2. ~ (stage # "alive" \/ Teardown(session, cap[n], Clock(n)))
    <3>1. SUFFICES ASSUME stage # "alive" \/ Teardown(session, cap[n], Clock(n))
                   PROVE  req'[r].pc = "answered"
      BY <1>1
    <3>2. Become(r, [Idle(n) EXCEPT !.pc = "answered"])  BY <1>1, <3>1 DEF Load
    <3>3. QED  BY <2>1, <3>2 DEF Become, Idle
  <2>3. /\ now \in Nat /\ Birth \in Nat /\ Offset[n] \in Nat
        /\ Ahead(n) = Birth - Offset[n] /\ Clock(n) = now + Offset[n]
        /\ session.createdAt \in Nat /\ session.createdAt <= Birth
        /\ session.cap \subseteq Nat /\ cap[n] \subseteq Nat
        /\ session.expireAt = {UnixSecs(Birth + d) : d \in session.cap}
    BY <1>1, <2>2, StoredTimes
  <2>4. \A d \in SessionDeadline(session, cap[n]) : ~ (Clock(n) > d)
    BY <2>2 DEF Teardown
  <2>5. CASE c \in session.cap
    <3>1. c \in Nat /\ UnixSecs(Birth + c) \in Nat /\ UnixSecs(Birth + c) <= Birth + c
      <4>1. c \in Nat /\ Birth + c \in Nat  BY <2>3, <2>5
      <4>2. QED  BY <4>1, UnixSecsLoses
    <3>2. ~ (Clock(n) > UnixSecs(Birth + c))  BY <2>3, <2>4, <2>5 DEF SessionDeadline
    <3>3. QED  BY <2>3, <3>1, <3>2
  <2>6. CASE c \in cap[n]
    <3>1. ~ (Clock(n) > session.createdAt + c)  BY <2>4, <2>6 DEF SessionDeadline
    <3>2. c \in Nat  BY <2>3, <2>6
    <3>3. QED  BY <2>3, <3>1, <3>2
  <2>7. QED  BY <1>1, <2>5, <2>6
<1>2. IInv => [\A r \in Request, n \in Node : Load(r, n) /\ req'[r].pc = "handler" =>
                  \A c \in session.cap \cup cap[n] : now <= c + Ahead(n)]_vars
  BY <1>1
<1>3. QED  BY <1>2, Invariance, PTL DEF ServedWithinEveryCap

\* No session is torn down before a cap that applies has run out.
THEOREM WholeLifetime == Spec => LifetimeIsGranted
<1>1. ASSUME IInv, NEW r \in Request, NEW n \in Node, Load(r, n),
             stage = "alive", stage' = "ended"
      PROVE  \/ \E c \in session.cap \cup cap[n] : now > c + Ahead(n) - Second
             \/ Ahead(n) > now + MaxClockSkew
  <2>1. Teardown(session, cap[n], Clock(n))  BY <1>1 DEF Load
  <2>2. Second \in Nat /\ MaxClockSkew \in Nat  BY ClockAssumption
  <2>3. /\ now \in Nat /\ Birth \in Nat /\ Offset[n] \in Nat
        /\ Ahead(n) = Birth - Offset[n] /\ Clock(n) = now + Offset[n]
        /\ session.createdAt \in Nat
        /\ session.createdAt <= Birth /\ session.createdAt > Birth - Second
        /\ session.cap \subseteq Nat /\ cap[n] \subseteq Nat
        /\ session.expireAt = {UnixSecs(Birth + d) : d \in session.cap}
    BY <1>1, StoredTimes
  <2>4. CASE IsTooFarFuture(session.createdAt, Clock(n))
    BY <2>2, <2>3, <2>4 DEF IsTooFarFuture
  <2>5. CASE \E d \in session.expireAt : Clock(n) > d
    <3>1. PICK c \in session.cap : Clock(n) > UnixSecs(Birth + c)  BY <2>3, <2>5
    <3>2. c \in Nat /\ UnixSecs(Birth + c) \in Nat
          /\ UnixSecs(Birth + c) > (Birth + c) - Second
      <4>1. c \in Nat /\ Birth + c \in Nat  BY <2>3, <3>1
      <4>2. UnixSecs(Birth + c) \in Nat
            /\ UnixSecs(Birth + c) > (Birth + c) - Second
        BY <4>1, UnixSecsLoses
      <4>3. QED  BY <4>1, <4>2
    <3>3. now > c + Ahead(n) - Second  BY <2>2, <2>3, <3>1, <3>2
    <3>4. QED  BY <3>3
  <2>6. CASE \E c \in cap[n] : Clock(n) > session.createdAt + c
    <3>1. PICK c \in cap[n] : Clock(n) > session.createdAt + c  BY <2>6
    <3>2. c \in Nat  BY <2>3
    <3>3. now > c + Ahead(n) - Second  BY <2>2, <2>3, <3>1, <3>2
    <3>4. QED  BY <3>3
  <2>7. QED  BY <2>1, <2>4, <2>5, <2>6 DEF Teardown, SessionDeadline
<1>2. IInv => [\A r \in Request, n \in Node :
                  Load(r, n) /\ stage = "alive" /\ stage' = "ended" =>
                     \/ \E c \in session.cap \cup cap[n] : now > c + Ahead(n) - Second
                     \/ Ahead(n) > now + MaxClockSkew]_vars
  BY <1>1
<1>3. QED  BY <1>2, Invariance, PTL DEF LifetimeIsGranted

\* The browser keeps a cookie as long as the session it is for.
THEOREM CookiesOutlastTheirSession == Spec => CookiesLastLongEnough
<1>1. ASSUME IInv, NEW r \in Request, Deliver(r), req[r].maxAge # {}
      PROVE  \E c \in jar' : c.until >= req[r].end
  <2>1. PICK a \in req[r].maxAge : TRUE  BY <1>1
  <2>2. /\ now \in Nat /\ a \in Nat /\ req[r].end \in Int /\ req[r].end <= now + a
        /\ [until |-> now + a] \in jar'
    BY <1>1, <2>1, Stores
  <2>3. now + a >= req[r].end  BY <2>2
  <2>4. QED  BY <2>2, <2>3
<1>2. IInv => [\A r \in Request : Deliver(r) /\ req[r].maxAge # {} =>
                  \/ now >= req[r].end
                  \/ \E c \in jar' : c.until >= req[r].end]_vars
  BY <1>1
<1>3. QED  BY <1>2, Invariance, PTL DEF CookiesLastLongEnough

=============================================================================
