------------------------- MODULE RefreshTimingProofs -------------------------
(***************************************************************************)
(* Theorems about RefreshTiming, for any margins, lifetimes, delays and    *)
(* budgets that DurationsAssumption allows.  That a power of two is not    *)
(* negative needs induction, so the inductive invariant takes delays for   *)
(* integers, and no theorem below depends on their sign.                   *)
(***************************************************************************)
EXTENDS RefreshTiming, TLAPS

Typed ==
    /\ clock \in Nat
    /\ margin \in Nat /\ lifetime \in Nat
    /\ credentials \in Credentials
    /\ refresh \in [Request ->
          [pc: {"idle", "refreshing", "sleeping", "active", "cleared", "unavailable"},
           expiry: Nat, attempt: Nat, wake: Int, held: Int, earliest: Int]]

\* A token of the default lifetime expires when that is over.
DefaultLifetime == \A t \in credentials.granted : credentials.expiry = t + lifetime

\* Each attempt but the first slept for at most MaxDelay.
Budget(r) ==
    /\ refresh[r].attempt <= MaxAttempts - 1
    /\ refresh[r].held <= refresh[r].attempt * MaxDelay

\* What the server asked for is over before the request is due again.
Obeys(r) ==
    /\ refresh[r].pc = "refreshing" => clock >= refresh[r].earliest
    /\ refresh[r].pc = "sleeping" =>
          refresh[r].wake >= refresh[r].earliest \/ clock >= refresh[r].earliest

IInv ==
    /\ Typed
    /\ DurationsAccepted(margin, lifetime)
    /\ DefaultLifetime
    /\ \A r \in Request : Budget(r) /\ Obeys(r)

-----------------------------------------------------------------------------
(* Arithmetic *)

AnyRequest ==
    [pc: {"idle", "refreshing", "sleeping", "active", "cleared", "unavailable"},
     expiry: Nat, attempt: Nat, wake: Int, held: Int, earliest: Int]

LEMMA OneMoreDelay ==
    ASSUME NEW a \in Nat, NEW h \in Int, h <= a * MaxDelay, NEW d \in Int, d <= MaxDelay
    PROVE  h + d <= (a + 1) * MaxDelay
<1>1. (a + 1) * MaxDelay = a * MaxDelay + MaxDelay
  BY DurationsAssumption
<1>2. a * MaxDelay \in Int
  BY DurationsAssumption
<1> DEFINE p == a * MaxDelay
<1>3. p \in Int /\ h <= p
  BY <1>2
<1> HIDE DEF p
<1>4. h + d <= p + MaxDelay
  BY <1>3, DurationsAssumption
<1> QED
  BY <1>1, <1>4 DEF p

LEMMA WithinBudget ==
    ASSUME NEW a \in Nat, a <= MaxAttempts - 1
    PROVE  a * MaxDelay <= (MaxAttempts - 1) * MaxDelay
BY DurationsAssumption

\* The delays of a server are none or one.
LEMMA OneAfter ==
    ASSUME NEW after \in RetryAfter
    PROVE  after = {} \/ \E a \in Nat : after = {a}
BY RetryAfterAssumption

LEMMA MaxOfOne == ASSUME NEW a \in Int PROVE Max({a}) = a
BY DEF Max

LEMMA MaxOfTwo ==
    ASSUME NEW a \in Int, NEW b \in Int
    PROVE  /\ Max({a} \cup {b}) \in Int
           /\ Max({a} \cup {b}) >= a /\ Max({a} \cup {b}) >= b
           /\ Max({a} \cup {b}) = a \/ Max({a} \cup {b}) = b
BY DEF Max

\* What is waited for, and what was asked for.
LEMMA Delays ==
    ASSUME NEW attempt \in Nat, NEW after \in RetryAfter,
           NEW delay \in RetryDelays(attempt + 1, after)
    PROVE  /\ delay \in Int
           /\ Max({0} \cup after) \in Nat
           /\ Max({0} \cup after) = 0 \/ delay >= Max({0} \cup after)
<1>1. PICK jitter \in 0..(JitterMax - 1) :
        delay = Max({BaseDelay * 2^attempt + jitter} \cup after)
  <2>1. attempt + 1 - 1 = attempt
    OBVIOUS
  <2> QED
    BY <2>1 DEF RetryDelays
<1> DEFINE b == BaseDelay * 2^attempt + jitter
<1>2. b \in Int
  <2>1. 2^attempt \in Int
    OBVIOUS
  <2> DEFINE p == 2^attempt
  <2> HIDE DEF p
  <2>2. p \in Int => BaseDelay * p + jitter \in Int
    BY DurationsAssumption
  <2> QED
    BY <2>1, <2>2 DEF p
<1>3. delay = Max({b} \cup after)
  BY <1>1
<1> HIDE DEF b
<1>4. CASE after = {}
  <2>1. {b} \cup after = {b} /\ {0} \cup after = {0}
    BY <1>4
  <2> QED
    BY <1>2, <1>3, <2>1, MaxOfOne
<1>5. ASSUME NEW a \in Nat, after = {a}
      PROVE  /\ delay \in Int /\ Max({0} \cup after) \in Nat
             /\ delay >= Max({0} \cup after)
  <2>1. Max({0} \cup {a}) = a
    BY DEF Max
  <2>2. Max({b} \cup {a}) \in Int /\ Max({b} \cup {a}) >= a
    BY <1>2 DEF Max
  <2> QED
    BY <1>3, <1>5, <2>1, <2>2
<1> QED
  BY <1>4, <1>5, OneAfter

\* When a token that is not due is served, it is still valid.
LEMMA NotDueIsValid ==
    ASSUME NEW remaining \in Int, NEW m \in Nat, FALSE \in RefreshDue(remaining, m)
    PROVE  remaining > 0
<1>1. remaining >= 0 /\ \E share \in 0..(m \div 4) : ~(remaining <= m - share)
  <2>1. ~(remaining < 0) /\ \E share \in 0..(m \div 4) : ~(remaining <= m - share)
    BY Zenon DEF RefreshDue
  <2> QED
    BY <2>1
<1>2. (m \div 4) * 4 + (m % 4) = m /\ m \div 4 \in Int /\ m % 4 \in 0..3
  OBVIOUS
<1> DEFINE k == m \div 4
           l == m % 4
<1>3. k * 4 + l = m /\ k \in Int /\ l \in 0..3 /\ \E share \in 0..k : ~(remaining <= m - share)
  BY <1>1, <1>2
<1> HIDE DEF k, l
<1> QED
  BY <1>1, <1>3

\* The window in which a refresh is due.
LEMMA Window ==
    ASSUME NEW remaining \in Int, NEW m \in Nat, NEW due \in RefreshDue(remaining, m)
    PROVE  /\ due => remaining <= m
           /\ ~due => remaining > m - m \div 4
<1>1. m \div 4 \in Int
  OBVIOUS
<1>2. CASE remaining < 0
  <2>1. due = TRUE
    BY <1>2, Zenon DEF RefreshDue
  <2>2. remaining <= m
    BY <1>2
  <2> QED
    BY <2>1, <2>2
<1>3. CASE ~(remaining < 0)
  <2>1. PICK share \in 0..(m \div 4) : due = (remaining <= m - share)
    BY <1>3, Zenon DEF RefreshDue
  <2>2. /\ remaining <= m - share => remaining <= m
        /\ ~(remaining <= m - share) => remaining > m - m \div 4
    <3> DEFINE k == m \div 4
    <3>1. k \in Int /\ share \in 0..k
      BY <1>1
    <3> HIDE DEF k
    <3>2. /\ remaining <= m - share => remaining <= m
          /\ ~(remaining <= m - share) => remaining > m - k
      BY <3>1
    <3> QED
      BY <3>2 DEF k
  <2> QED
    BY <2>1, <2>2, Zenon
<1> QED
  BY <1>2, <1>3

-----------------------------------------------------------------------------
(* Steps of a request *)

Pcs == {"idle", "refreshing", "sleeping", "active", "cleared", "unavailable"}

LEMMA Become1 ==
    ASSUME Typed, NEW r \in Request, NEW q \in AnyRequest, Continue(r, q)
    PROVE  /\ refresh'[r] = q /\ refresh' \in [Request -> AnyRequest]
           /\ \A x \in Request \ {r} : refresh'[x] = refresh[x]
BY DEF Typed, AnyRequest, Continue

\* A step of request r to q, while time stands still.
LEMMA RequestStep ==
    ASSUME IInv, NEW r \in Request, NEW q \in AnyRequest, Continue(r, q),
           UNCHANGED <<clock, margin, lifetime>>, credentials' \in Credentials, DefaultLifetime',
           q.attempt <= MaxAttempts - 1, q.held <= q.attempt * MaxDelay,
           q.pc = "refreshing" => clock >= q.earliest,
           q.pc = "sleeping" => q.wake >= q.earliest \/ clock >= q.earliest
    PROVE  IInv'
<1>1. /\ refresh'[r] = q /\ refresh' \in [Request -> AnyRequest]
      /\ \A x \in Request \ {r} : refresh'[x] = refresh[x]
  BY Become1 DEF IInv
<1>2. Typed' /\ DurationsAccepted(margin, lifetime)'
  BY <1>1 DEF IInv, Typed, AnyRequest, DurationsAccepted
<1>3. \A x \in Request : Budget(x)' /\ Obeys(x)'
  BY <1>1 DEF IInv, Budget, Obeys
<1> QED
  BY <1>2, <1>3 DEF IInv

LEMMA IdleFields ==
    /\ NotBegun \in AnyRequest /\ NotBegun.pc = "idle" /\ NotBegun.attempt = 0 /\ NotBegun.held = 0
    /\ NotBegun.earliest = 0
BY DEF NotBegun, AnyRequest

\* A request that is answered, or free again.
LEMMA AnsweredStep ==
    ASSUME IInv, NEW r \in Request, NEW pc \in Pcs \ {"refreshing", "sleeping"}, NEW e \in Nat,
           Continue(r, [refresh[r] EXCEPT !.pc = pc, !.expiry = e]),
           UNCHANGED <<clock, margin, lifetime>>, credentials' \in Credentials, DefaultLifetime'
    PROVE  IInv' /\ refresh'[r].pc = pc /\ refresh'[r].expiry = e
<1> DEFINE q == [refresh[r] EXCEPT !.pc = pc, !.expiry = e]
<1>1. refresh[r] \in AnyRequest
  BY DEF IInv, Typed, AnyRequest
<1>2. /\ q \in AnyRequest /\ q.pc = pc /\ q.expiry = e
      /\ q.attempt = refresh[r].attempt /\ q.held = refresh[r].held
  BY <1>1 DEF AnyRequest, Pcs
<1>3. Continue(r, q)
  OBVIOUS
<1> HIDE DEF q
<1>4. q.attempt <= MaxAttempts - 1 /\ q.held <= q.attempt * MaxDelay
  BY <1>2 DEF IInv, Budget
<1> QED
  BY <1>2, <1>3, <1>4, RequestStep, Become1 DEF IInv

LEMMA SessionStays ==
    ASSUME IInv, UNCHANGED <<credentials, lifetime>>
    PROVE  credentials' \in Credentials /\ DefaultLifetime'
BY DEF IInv, Typed, DefaultLifetime

\* The request as it is loaded.
LEMMA LoadedFields ==
    ASSUME NEW e \in Nat, NEW pc \in Pcs
    PROVE  LET q == [[NotBegun EXCEPT !.expiry = e] EXCEPT !.pc = pc]
           IN  /\ q \in AnyRequest /\ q.pc = pc /\ q.expiry = e
               /\ q.attempt = 0 /\ q.held = 0 /\ q.earliest = 0
<1> DEFINE p == [NotBegun EXCEPT !.expiry = e]
<1>1. /\ p \in AnyRequest /\ p.expiry = e /\ p.attempt = 0 /\ p.held = 0 /\ p.earliest = 0
  BY DEF NotBegun, AnyRequest
<1> HIDE DEF p
<1>2. LET q == [p EXCEPT !.pc = pc]
      IN  /\ q \in AnyRequest /\ q.pc = pc /\ q.expiry = e
          /\ q.attempt = 0 /\ q.held = 0 /\ q.earliest = 0
  BY <1>1 DEF AnyRequest, Pcs
<1> QED
  BY <1>2 DEF p

\* What a load decides.
LoadedPc(due) ==
    IF due /\ credentials.refreshable THEN "refreshing"
    ELSE IF ~due \/ clock < credentials.expiry THEN "active" ELSE "cleared"

LEMMA LoadStep ==
    ASSUME IInv, NEW r \in Request, LoadCredentials(r)
    PROVE  /\ IInv'
           /\ \E due \in RefreshDue(credentials.expiry - clock, margin) :
                 refresh'[r].pc = LoadedPc(due) /\ refresh'[r].expiry = credentials.expiry
           /\ UNCHANGED <<clock, margin, lifetime, credentials>>
<1>1. PICK due \in RefreshDue(credentials.expiry - clock, margin) :
        Continue(r, [[NotBegun EXCEPT !.expiry = credentials.expiry] EXCEPT !.pc = LoadedPc(due)])
  BY DEF LoadCredentials, LoadedPc
<1> DEFINE q == [[NotBegun EXCEPT !.expiry = credentials.expiry] EXCEPT !.pc = LoadedPc(due)]
<1>2. credentials.expiry \in Nat /\ LoadedPc(due) \in Pcs
  BY DEF IInv, Typed, Credentials, LoadedPc, Pcs
<1>3. /\ q \in AnyRequest /\ q.pc = LoadedPc(due) /\ q.expiry = credentials.expiry
      /\ q.attempt = 0 /\ q.held = 0 /\ q.earliest = 0
  BY <1>2, LoadedFields
<1>4. UNCHANGED <<clock, margin, lifetime, credentials>>
  BY DEF LoadCredentials
<1>5. Continue(r, q)
  BY <1>1
<1> HIDE DEF q
<1>6. q.attempt <= MaxAttempts - 1 /\ q.held <= q.attempt * MaxDelay
  BY <1>3, DurationsAssumption
<1>7. clock >= q.earliest
  BY <1>3 DEF IInv, Typed
<1>8. refresh'[r] = q
  BY <1>3, <1>5, Become1 DEF IInv
<1>9. IInv'
  BY <1>3, <1>4, <1>5, <1>6, <1>7, SessionStays, RequestStep
<1> QED
  BY <1>3, <1>4, <1>8, <1>9

\* What every step but a load leaves true of a request that begins to be served.
Live(r) == refresh[r].pc # "active" /\ refresh'[r].pc = "active" => clock < refresh'[r].expiry

LEMMA ExchangeSucceedsStep ==
    ASSUME IInv, NEW r \in Request, ExchangeSucceeds(r)
    PROVE  IInv' /\ Live(r) /\ clock' = clock
<1>1. PICK expiresIn \in {{}} \cup {{g} : g \in Granted} :
        LET e == clock + (IF expiresIn = {} THEN lifetime ELSE Max(expiresIn)) IN
        /\ credentials' = [credentials EXCEPT !.expiry = e,
                                      !.granted = IF expiresIn = {} THEN {clock} ELSE {}]
        /\ Continue(r, [refresh[r] EXCEPT !.pc = "active", !.expiry = e])
  BY DEF ExchangeSucceeds
<1> DEFINE life == IF expiresIn = {} THEN lifetime ELSE Max(expiresIn)
           given == IF expiresIn = {} THEN {clock} ELSE {}
<1>2. UNCHANGED <<clock, margin, lifetime>> /\ clock \in Nat /\ credentials \in Credentials
  BY DEF ExchangeSucceeds, IInv, Typed
<1>3. life \in Nat \ {0}
  <2>1. CASE expiresIn = {}
    BY <2>1 DEF IInv, Typed, DurationsAccepted
  <2>2. ASSUME NEW g \in Granted, expiresIn = {g} PROVE life \in Nat \ {0}
    <3>1. g \in Nat \ {0}
      BY DurationsAssumption
    <3>2. Max({g}) = g
      BY <3>1, MaxOfOne
    <3> QED
      BY <2>2, <3>1, <3>2
  <2> QED
    BY <2>1, <2>2
<1>4. given \in SUBSET Nat /\ \A t \in given : t = clock /\ life = lifetime
  BY <1>2
<1>5. /\ credentials' = [credentials EXCEPT !.expiry = clock + life, !.granted = given]
      /\ Continue(r, [refresh[r] EXCEPT !.pc = "active", !.expiry = clock + life])
  BY <1>1
<1> HIDE DEF life, given
<1>6. clock + life \in Nat /\ clock < clock + life
  BY <1>2, <1>3
<1>7. credentials' \in Credentials /\ credentials'.expiry = clock + life /\ credentials'.granted = given
  BY <1>2, <1>4, <1>5, <1>6 DEF Credentials
<1>8. DefaultLifetime'
  BY <1>2, <1>4, <1>7 DEF DefaultLifetime
<1>9. IInv' /\ refresh'[r].expiry = clock + life
  BY <1>2, <1>5, <1>6, <1>7, <1>8, AnsweredStep DEF Pcs
<1> QED
  BY <1>2, <1>6, <1>9 DEF Live

\* An answer while the session stays as it is.
LEMMA LocalAnswer ==
    ASSUME IInv, NEW r \in Request, NEW pc \in Pcs \ {"refreshing", "sleeping"}, NEW e \in Nat,
           Continue(r, [refresh[r] EXCEPT !.pc = pc, !.expiry = e]),
           UNCHANGED <<clock, margin, lifetime, credentials>>,
           pc = "active" => clock < e
    PROVE  IInv' /\ Live(r)
BY AnsweredStep, SessionStays DEF Live

LEMMA PcOnly ==
    ASSUME Typed, NEW r \in Request, NEW pc \in Pcs
    PROVE  /\ refresh[r].expiry \in Nat
           /\ [refresh[r] EXCEPT !.pc = pc] = [refresh[r] EXCEPT !.pc = pc, !.expiry = refresh[r].expiry]
BY DEF Typed, Pcs

LEMMA GiveUpStep ==
    ASSUME IInv, NEW r \in Request, GiveUp(r), UNCHANGED <<clock, margin, lifetime, credentials>>
    PROVE  IInv' /\ Live(r)
<1> DEFINE pc == IF clock < refresh[r].expiry THEN "active" ELSE "unavailable"
<1>1. pc \in Pcs \ {"refreshing", "sleeping"} /\ (pc = "active" => clock < refresh[r].expiry)
  BY DEF Pcs
<1>2. Continue(r, [refresh[r] EXCEPT !.pc = pc])
  BY DEF GiveUp
<1> HIDE DEF pc
<1>3. refresh[r].expiry \in Nat /\ Continue(r, [refresh[r] EXCEPT !.pc = pc, !.expiry = refresh[r].expiry])
  BY <1>1, <1>2, PcOnly DEF IInv
<1> QED
  BY <1>1, <1>3, LocalAnswer

\* The request is not served.
LEMMA DeniedStep ==
    ASSUME IInv, NEW r \in Request, NEW pc \in {"cleared", "unavailable"},
           Continue(r, [refresh[r] EXCEPT !.pc = pc]), UNCHANGED <<clock, margin, lifetime, credentials>>
    PROVE  IInv' /\ Live(r)
<1>1. pc \in Pcs \ {"refreshing", "sleeping"} /\ pc # "active"
  BY DEF Pcs
<1>2. /\ refresh[r].expiry \in Nat
      /\ Continue(r, [refresh[r] EXCEPT !.pc = pc, !.expiry = refresh[r].expiry])
  BY <1>1, PcOnly DEF IInv
<1> QED
  BY <1>1, <1>2, LocalAnswer

LEMMA RecordGoneStep ==
    ASSUME IInv, NEW r \in Request, RecordGone(r)
    PROVE  IInv' /\ Live(r) /\ clock' = clock
BY DeniedStep DEF RecordGone

\* The one way to be served without a look at the clock.
LEMMA ExchangeOvertakenStep ==
    ASSUME IInv, NEW r \in Request, ExchangeOvertaken(r)
    PROVE  IInv'
<1>1. credentials.expiry \in Nat /\ "active" \in Pcs \ {"refreshing", "sleeping"}
  BY DEF IInv, Typed, Credentials, Pcs
<1> QED
  BY <1>1, AnsweredStep, SessionStays DEF ExchangeOvertaken

LEMMA ExchangeRejectedStep ==
    ASSUME IInv, NEW r \in Request, ExchangeRejected(r)
    PROVE  IInv' /\ Live(r) /\ clock' = clock
<1>1. UNCHANGED <<clock, margin, lifetime, credentials>>
  BY DEF ExchangeRejected
<1>2. ASSUME NEW pc \in {"cleared", "unavailable"}, Continue(r, [refresh[r] EXCEPT !.pc = pc])
      PROVE  IInv' /\ Live(r)
  BY <1>1, <1>2, DeniedStep
<1>3. CASE Continue(r, [refresh[r] EXCEPT !.expiry = credentials.expiry, !.pc =
                        IF clock < credentials.expiry THEN "active" ELSE "unavailable"])
  <2> DEFINE pc == IF clock < credentials.expiry THEN "active" ELSE "unavailable"
  <2>1. /\ pc \in Pcs \ {"refreshing", "sleeping"} /\ (pc = "active" => clock < credentials.expiry)
        /\ credentials.expiry \in Nat
    BY DEF Pcs, IInv, Typed, Credentials
  <2>2. Continue(r, [refresh[r] EXCEPT !.expiry = credentials.expiry, !.pc = pc])
    BY <1>3
  <2> HIDE DEF pc
  <2>3. [refresh[r] EXCEPT !.expiry = credentials.expiry, !.pc = pc]
           = [refresh[r] EXCEPT !.pc = pc, !.expiry = credentials.expiry]
    BY <2>1 DEF IInv, Typed, Pcs
  <2> QED
    BY <1>1, <2>1, <2>2, <2>3, LocalAnswer
<1> QED
  <2>1. \/ \E pc \in {"cleared", "unavailable"} : Continue(r, [refresh[r] EXCEPT !.pc = pc])
        \/ Continue(r, [refresh[r] EXCEPT !.expiry = credentials.expiry, !.pc =
                        IF clock < credentials.expiry THEN "active" ELSE "unavailable"])
    BY DEF ExchangeRejected
  <2> QED
    BY <1>1, <1>2, <1>3, <2>1

LEMMA ExchangeTransientStep ==
    ASSUME IInv, NEW r \in Request, ExchangeTransient(r)
    PROVE  IInv' /\ Live(r) /\ clock' = clock
<1>1. PICK after \in RetryAfter : \E delay \in RetryDelays(refresh[r].attempt + 1, after) :
        SleepOrGiveUp(r, delay, after)
  BY DEF ExchangeTransient
<1>2. PICK delay \in RetryDelays(refresh[r].attempt + 1, after) : SleepOrGiveUp(r, delay, after)
  BY <1>1
<1>3. UNCHANGED <<clock, margin, lifetime, credentials>>
  BY DEF ExchangeTransient
<1>4. CASE GiveUp(r)
  BY <1>3, <1>4, GiveUpStep
<1>5. CASE Sleep(r, delay, after) /\ refresh[r].attempt + 1 < MaxAttempts /\ ~(delay > MaxDelay)
  <2> DEFINE asked == Max({0} \cup after)
             a == refresh[r].attempt + 1
             s == [refresh[r] EXCEPT !.pc = "sleeping", !.attempt = refresh[r].attempt + 1,
                                 !.wake = clock + delay, !.held = refresh[r].held + delay,
                                 !.earliest = clock + asked]
  <2>1. /\ refresh[r] \in AnyRequest /\ refresh[r].attempt \in Nat /\ refresh[r].held \in Int
        /\ clock \in Nat
    BY DEF IInv, Typed, AnyRequest
  <2>2. delay \in Int /\ asked \in Nat /\ (asked = 0 \/ delay >= asked)
    BY <2>1, Delays
  <2>3. Continue(r, s)
    BY <1>5 DEF Sleep
  <2> HIDE DEF asked
  <2>4. /\ s \in AnyRequest /\ s.pc = "sleeping" /\ s.attempt = refresh[r].attempt + 1
        /\ s.wake = clock + delay /\ s.held = refresh[r].held + delay /\ s.earliest = clock + asked
    <3>1. /\ clock + delay \in Int /\ refresh[r].held + delay \in Int /\ clock + asked \in Int
          /\ refresh[r].attempt + 1 \in Nat
      BY <2>1, <2>2
    <3> DEFINE w == clock + delay
               h == refresh[r].held + delay
               e == clock + asked
               b == refresh[r].attempt + 1
    <3>2. s = [refresh[r] EXCEPT !.pc = "sleeping", !.attempt = b, !.wake = w,
                             !.held = h, !.earliest = e]
      OBVIOUS
    <3>3. w \in Int /\ h \in Int /\ e \in Int /\ b \in Nat
      BY <3>1
    <3> HIDE DEF s, w, h, e, b
    <3>4. /\ s \in AnyRequest /\ s.pc = "sleeping" /\ s.attempt = b /\ s.wake = w
          /\ s.held = h /\ s.earliest = e
      BY <2>1, <3>2, <3>3 DEF AnyRequest
    <3> QED
      BY <3>4 DEF w, h, e, b
  <2> HIDE DEF s
  <2>5. s.attempt <= MaxAttempts - 1
    BY <1>5, <2>1, <2>4, DurationsAssumption
  <2>6. s.held <= s.attempt * MaxDelay
    <3>1. refresh[r].held <= refresh[r].attempt * MaxDelay /\ delay <= MaxDelay
      BY <1>5, <2>2, DurationsAssumption DEF IInv, Budget
    <3> QED
      BY <2>1, <2>2, <2>4, <3>1, OneMoreDelay
  <2>7. s.wake >= s.earliest \/ clock >= s.earliest
    BY <2>1, <2>2, <2>4
  <2>8. IInv'
    BY <1>3, <2>3, <2>4, <2>5, <2>6, <2>7, RequestStep, SessionStays
  <2>9. refresh'[r] = s
    BY <2>3, <2>4, Become1 DEF IInv
  <2> QED
    BY <1>3, <2>4, <2>8, <2>9 DEF Live
<1>6. refresh[r].attempt \in Nat
  BY DEF IInv, Typed
<1>7. delay \in Int
  BY <1>6, Delays
<1> QED
  BY <1>2, <1>3, <1>4, <1>5, <1>6, <1>7, DurationsAssumption DEF SleepOrGiveUp

LEMMA WakeStep ==
    ASSUME IInv, NEW r \in Request, Wake(r)
    PROVE  IInv' /\ Live(r)
<1> DEFINE q == [refresh[r] EXCEPT !.pc = "refreshing"]
<1>1. /\ refresh[r] \in AnyRequest /\ refresh[r].pc = "sleeping" /\ clock >= refresh[r].wake
      /\ Continue(r, q) /\ UNCHANGED <<clock, margin, lifetime, credentials>> /\ clock \in Nat
  BY DEF Wake, IInv, Typed, AnyRequest
<1>2. /\ q \in AnyRequest /\ q.pc = "refreshing" /\ q.attempt = refresh[r].attempt
      /\ q.held = refresh[r].held /\ q.earliest = refresh[r].earliest
  BY <1>1 DEF AnyRequest
<1> HIDE DEF q
<1>3. refresh[r].wake \in Int /\ refresh[r].earliest \in Int
  BY <1>1 DEF AnyRequest
<1>4. clock >= q.earliest
  BY <1>1, <1>2, <1>3 DEF IInv, Obeys
<1>5. q.attempt <= MaxAttempts - 1 /\ q.held <= q.attempt * MaxDelay
  BY <1>2 DEF IInv, Budget
<1>6. IInv'
  BY <1>1, <1>2, <1>4, <1>5, RequestStep, SessionStays
<1>7. refresh'[r] = q
  BY <1>1, <1>2, Become1 DEF IInv
<1> QED
  BY <1>2, <1>6, <1>7 DEF Live

LEMMA FinishStep ==
    ASSUME IInv, NEW r \in Request, FinishRefresh(r)
    PROVE  IInv' /\ Live(r)
<1>1. Continue(r, NotBegun) /\ UNCHANGED <<clock, margin, lifetime, credentials>>
  BY DEF FinishRefresh
<1>2. NotBegun.attempt <= MaxAttempts - 1 /\ NotBegun.held <= NotBegun.attempt * MaxDelay
  BY IdleFields, DurationsAssumption
<1>3. IInv' /\ refresh'[r] = NotBegun
  BY <1>1, <1>2, IdleFields, RequestStep, SessionStays, Become1 DEF IInv
<1> QED
  BY <1>3, IdleFields DEF Live

LEMMA TickStep ==
    ASSUME IInv, ClockTicks PROVE IInv'
<1>1. clock' = clock + 1 /\ clock \in Nat /\ UNCHANGED <<margin, lifetime, credentials, refresh>>
  BY DEF ClockTicks, IInv, Typed
<1>2. Typed' /\ DurationsAccepted(margin, lifetime)' /\ DefaultLifetime'
  BY <1>1 DEF IInv, Typed, DurationsAccepted, DefaultLifetime
<1>3. ASSUME NEW r \in Request PROVE Budget(r)' /\ Obeys(r)'
  <2>1. refresh[r].earliest \in Int /\ refresh[r].wake \in Int
    BY DEF IInv, Typed
  <2> QED
    BY <1>1, <2>1 DEF IInv, Budget, Obeys
<1> QED
  BY <1>2, <1>3 DEF IInv

-----------------------------------------------------------------------------

LEMMA Start == RefreshInit => IInv
<1> SUFFICES ASSUME RefreshInit PROVE IInv
  OBVIOUS
<1>1. /\ clock = 0 /\ margin \in Nat /\ lifetime \in Nat /\ DurationsAccepted(margin, lifetime)
      /\ credentials \in [expiry: {lifetime} \cup Granted, refreshable: BOOLEAN, granted: {{}}]
      /\ refresh = [r \in Request |-> NotBegun]
  BY DurationsAssumption DEF RefreshInit
<1>2. credentials \in Credentials /\ credentials.granted = {}
  BY <1>1, DurationsAssumption DEF Credentials
<1>3. Typed
  BY <1>1, <1>2, IdleFields DEF Typed, AnyRequest
<1>4. DefaultLifetime
  BY <1>2 DEF DefaultLifetime
<1>5. ASSUME NEW r \in Request PROVE Budget(r) /\ Obeys(r)
  <2>1. /\ refresh[r].pc = "idle" /\ refresh[r].attempt = 0 /\ refresh[r].held = 0
    BY <1>1, IdleFields
  <2>2. 0 <= MaxAttempts - 1 /\ 0 <= 0 * MaxDelay
    BY DurationsAssumption
  <2>3. Budget(r)
    BY <2>1, <2>2 DEF Budget
  <2>4. Obeys(r)
    BY <2>1 DEF Obeys
  <2> QED
    BY <2>3, <2>4
<1> QED
  BY <1>1, <1>3, <1>4, <1>5 DEF IInv

LEMMA Step == IInv /\ [RefreshNext]_refreshVars => IInv'
<1> SUFFICES ASSUME IInv, [RefreshNext]_refreshVars PROVE IInv'
  OBVIOUS
<1>1. CASE UNCHANGED refreshVars
  BY <1>1 DEF refreshVars, IInv, Typed, DurationsAccepted, DefaultLifetime, Budget, Obeys
<1>2. ASSUME NEW r \in Request, ExchangeFails(r) PROVE IInv'
  BY <1>2, GiveUpStep DEF ExchangeFails
<1> QED
  BY <1>1, <1>2, LoadStep, ExchangeSucceedsStep, ExchangeOvertakenStep, RecordGoneStep,
     ExchangeRejectedStep, ExchangeTransientStep, WakeStep, FinishStep, TickStep
     DEF RefreshNext, Exchange

\* IInv holds in every state of every behaviour of RefreshTiming.
THEOREM Invariance == RefreshSpec => []IInv
BY Start, Step, PTL DEF RefreshSpec

\* What IInv leaves out of the types: values that never change, and overtaken.
Fixed ==
    /\ clock <= MaxClock
    /\ margin \in Margins /\ lifetime \in Lifetimes
    /\ overtaken \subseteq InFlight

\* A step of request r leaves the others where they are, and r overtaken only
\* while its exchange goes on.
LEMMA OvertakenStep ==
    ASSUME IInv, NEW r \in Request, overtaken \subseteq InFlight,
           \A x \in Request \ {r} : refresh'[x] = refresh[x],
           overtaken' \subseteq InFlight,
           r \in overtaken' => refresh'[r].pc \in {"refreshing", "sleeping"}
    PROVE  (overtaken \subseteq InFlight)'
BY DEF InFlight

LEMMA FixedStays == IInv /\ Fixed /\ [RefreshNext]_refreshVars => Fixed'
<1> SUFFICES ASSUME IInv, Fixed, [RefreshNext]_refreshVars PROVE Fixed'
  OBVIOUS
<1>1. CASE UNCHANGED refreshVars
  BY <1>1 DEF refreshVars, Fixed, InFlight
<1>2. CASE ClockTicks
  <2>1. clock \in Nat /\ MaxClock \in Nat
    BY DurationsAssumption DEF IInv, Typed
  <2>2. clock' <= MaxClock
    BY <1>2, <2>1 DEF ClockTicks
  <2> QED
    BY <1>2, <2>2 DEF ClockTicks, Fixed, InFlight
<1>3. ASSUME NEW r \in Request, LoadCredentials(r) \/ Exchange(r) \/ Wake(r) \/ FinishRefresh(r)
      PROVE  Fixed'
  <2>1. UNCHANGED <<clock, margin, lifetime>>
    BY <1>3 DEF LoadCredentials, Exchange, ExchangeSucceeds, ExchangeOvertaken, RecordGone,
       ExchangeRejected, ExchangeFails, ExchangeTransient, Wake, FinishRefresh
  <2>2. \A x \in Request \ {r} : refresh'[x] = refresh[x]
    BY <1>3 DEF IInv, Typed, LoadCredentials, Exchange, ExchangeSucceeds, ExchangeOvertaken,
       RecordGone, ExchangeRejected, ExchangeFails, ExchangeTransient, Wake, FinishRefresh,
       SleepOrGiveUp, Sleep, GiveUp, Continue
  <2>3. overtaken' \subseteq InFlight
    BY <1>3 DEF Fixed, LoadCredentials, Exchange, ExchangeSucceeds, ExchangeOvertaken,
       RecordGone, ExchangeRejected, ExchangeFails, ExchangeTransient, Wake, FinishRefresh
  <2>4. r \in overtaken' => refresh'[r].pc \in {"refreshing", "sleeping"}
    <3>1. CASE LoadCredentials(r)
      BY <3>1 DEF LoadCredentials, Fixed, InFlight
    <3>2. CASE Wake(r)
      BY <3>2 DEF Wake, Continue, IInv, Typed
    <3>3. CASE ExchangeTransient(r)
      BY <3>3 DEF ExchangeTransient
    <3> QED
      BY <1>3, <3>1, <3>2, <3>3 DEF Exchange, ExchangeSucceeds, ExchangeOvertaken, RecordGone,
         ExchangeRejected, ExchangeFails, FinishRefresh
  <2>5. (overtaken \subseteq InFlight)'
    BY <2>2, <2>3, <2>4, OvertakenStep DEF Fixed
  <2> QED
    BY <2>1, <2>5 DEF Fixed
<1> QED
  BY <1>1, <1>2, <1>3 DEF RefreshNext

\* Every variable keeps its type; the attempts stay within their budget.
THEOREM TypeCorrect == RefreshSpec => []RefreshTypeOK
<1>1. RefreshInit => Fixed
  BY DurationsAssumption DEF RefreshInit, Fixed
<1>2. RefreshSpec => []Fixed
  BY <1>1, Invariance, FixedStays, PTL DEF RefreshSpec
<1>3. IInv /\ Fixed => RefreshTypeOK
  <2> SUFFICES ASSUME IInv, Fixed PROVE RefreshTypeOK
    OBVIOUS
  <2>1. clock \in 0..MaxClock
    BY DurationsAssumption DEF IInv, Typed, Fixed
  <2>2. ASSUME NEW r \in Request PROVE refresh[r].attempt \in 0..(MaxAttempts - 1)
    <3>1. refresh[r].attempt \in Nat
      BY DEF IInv, Typed
    <3>2. refresh[r].attempt <= MaxAttempts - 1
      BY DEF IInv, Budget
    <3> QED
      BY <3>1, <3>2, DurationsAssumption
  <2>3. refresh \in [Request -> RefreshState]
    BY <2>2 DEF IInv, Typed, RefreshState
  <2> QED
    BY <2>1, <2>3 DEF IInv, Typed, Fixed, RefreshTypeOK, InFlight
<1> QED
  BY <1>2, <1>3, Invariance, PTL

\* No request sleeps longer than its attempts and the longest delay allow
\* (refresh_with_retry).
THEOREM HeldWithinBudget == RefreshSpec => []RequestsAreNotHeld
<1>1. ASSUME IInv, NEW r \in Request
      PROVE  refresh[r].held <= (MaxAttempts - 1) * MaxDelay
  <2>1. refresh[r].attempt \in Nat /\ refresh[r].held \in Int
    BY <1>1 DEF IInv, Typed
  <2> DEFINE p == refresh[r].attempt * MaxDelay
             b == (MaxAttempts - 1) * MaxDelay
  <2>2. p \in Int /\ b \in Int
    BY <2>1, DurationsAssumption
  <2>3. refresh[r].held <= p /\ p <= b
    BY <1>1, <2>1, WithinBudget DEF IInv, Budget
  <2> HIDE DEF p, b
  <2>4. refresh[r].held <= b
    BY <2>1, <2>2, <2>3
  <2> QED
    BY <2>4 DEF b
<1>2. IInv => RequestsAreNotHeld
  BY <1>1 DEF RequestsAreNotHeld
<1> QED
  BY <1>2, Invariance, PTL

\* No exchange is repeated before the server's Retry-After is over
\* (refresh_with_retry, retry_advice).
THEOREM ServersAreObeyed == RefreshSpec => RetryAfterIsHonoured
<1>1. ASSUME IInv, NEW r \in Request, Exchange(r) PROVE clock >= refresh[r].earliest
  <2>1. refresh[r].pc = "refreshing"
    BY <1>1 DEF Exchange, ExchangeSucceeds, ExchangeOvertaken, RecordGone, ExchangeRejected,
       ExchangeFails, ExchangeTransient
  <2> QED
    BY <1>1, <2>1 DEF IInv, Obeys
<1>2. IInv /\ [RefreshNext]_refreshVars => [\A r \in Request : Exchange(r) => clock >= refresh[r].earliest]_refreshVars
  BY <1>1
<1> QED
  BY <1>2, Invariance, PTL DEF RefreshSpec, RetryAfterIsHonoured

\* A request that is loaded as authenticated shows a token that is valid.
LEMMA LoadedIsLive ==
    ASSUME IInv, NEW r \in Request, LoadCredentials(r), refresh'[r].pc = "active"
    PROVE  clock < refresh'[r].expiry
<1>1. PICK due \in RefreshDue(credentials.expiry - clock, margin) :
        refresh'[r].pc = LoadedPc(due) /\ refresh'[r].expiry = credentials.expiry
  BY LoadStep
<1>2. clock \in Nat /\ credentials.expiry \in Nat /\ margin \in Nat
  BY DEF IInv, Typed, Credentials
<1>3. due \in BOOLEAN
  <2> DEFINE remaining == credentials.expiry - clock
  <2>1. CASE remaining < 0
    BY <2>1, Zenon DEF RefreshDue
  <2>2. CASE ~(remaining < 0)
    <3>1. PICK share \in 0..(margin \div 4) : due = (remaining <= margin - share)
      BY <2>2, Zenon DEF RefreshDue
    <3>2. (remaining <= margin - share) \in BOOLEAN
      BY <1>2, SMT
    <3> QED
      BY <3>1, <3>2, Zenon
  <2> QED
    BY <2>1, <2>2
<1>4. ~due \/ clock < credentials.expiry
  BY <1>1, Zenon DEF LoadedPc
<1>5. CASE ~due
  <2>1. due = FALSE
    BY <1>3, <1>5, Zenon
  <2>2. FALSE \in RefreshDue(credentials.expiry - clock, margin)
    BY <2>1, Zenon
  <2>3. credentials.expiry - clock > 0
    <3>1. credentials.expiry - clock \in Int
      BY <1>2
    <3> QED
      BY <1>2, <2>2, <3>1, NotDueIsValid
  <2> QED
    BY <1>1, <1>2, <2>3
<1>6. CASE clock < credentials.expiry
  BY <1>1, <1>6
<1> QED
  BY <1>4, <1>5, <1>6

\* Whatever became of its refresh, a request is served as authenticated only
\* with a token that is valid then, or one that another request's refresh
\* brought (refresh_or_clear).
THEOREM OnlyLiveTokensAreServed == RefreshSpec => ServedTokensAreLive
<1>1. ASSUME IInv, RefreshNext, NEW r \in Request, ~ExchangeOvertaken(r) PROVE Live(r)
  <2>1. ASSUME NEW x \in Request, LoadCredentials(x) PROVE Live(r)
    <3>1. CASE x = r
      BY <1>1, <2>1, <3>1, LoadedIsLive DEF Live
    <3>2. CASE x # r
      BY <1>1, <2>1, <3>2 DEF LoadCredentials, Continue, IInv, Typed, Live
    <3> QED
      BY <3>1, <3>2
  <2>2. ASSUME NEW x \in Request, Exchange(x) \/ Wake(x) \/ FinishRefresh(x) PROVE Live(r)
    <3>1. CASE x = r
      BY <1>1, <2>2, <3>1, ExchangeSucceedsStep, RecordGoneStep, ExchangeRejectedStep,
         ExchangeTransientStep, GiveUpStep, WakeStep, FinishStep DEF Exchange, ExchangeFails
    <3>2. CASE x # r
      <4>1. \E q : Continue(x, q)
        BY <2>2 DEF Exchange, ExchangeSucceeds, ExchangeOvertaken, RecordGone,
           ExchangeRejected, ExchangeFails, ExchangeTransient, SleepOrGiveUp, Sleep, GiveUp, Wake, FinishRefresh
      <4>2. refresh'[r] = refresh[r]
        BY <1>1, <3>2, <4>1 DEF Continue, IInv, Typed
      <4> QED
        BY <4>2 DEF Live
    <3> QED
      BY <3>1, <3>2
  <2>3. CASE ClockTicks
    BY <2>3 DEF ClockTicks, Live
  <2> QED
    BY <1>1, <2>1, <2>2, <2>3 DEF RefreshNext
<1>2. IInv /\ [RefreshNext]_refreshVars =>
         [\A r \in Request :
             refresh[r].pc # "active" /\ refresh'[r].pc = "active" =>
                clock < refresh'[r].expiry \/ ExchangeOvertaken(r)]_refreshVars
  BY <1>1 DEF Live
<1> QED
  BY <1>2, Invariance, PTL DEF RefreshSpec, ServedTokensAreLive

\* The token of a fresh default grant is not due, whatever the random share
\* (validate_durations).
LEMMA FreshTokensAreNotDue ==
    ASSUME IInv, NEW r \in Request, LoadCredentials(r), credentials.granted = {clock}
    PROVE  refresh'[r].pc = "active"
<1>1. PICK due \in RefreshDue(credentials.expiry - clock, margin) : refresh'[r].pc = LoadedPc(due)
  BY LoadStep
<1>2. credentials.expiry = clock + lifetime /\ clock \in Nat /\ lifetime \in Nat /\ margin \in Nat
      /\ margin < lifetime
  BY DEF IInv, DefaultLifetime, Typed, DurationsAccepted
<1>3. credentials.expiry - clock = lifetime /\ lifetime \in Int
  BY <1>2
<1>4. due => lifetime <= margin
  BY <1>1, <1>2, <1>3, Window
<1>5. ~(lifetime <= margin)
  BY <1>2
<1>6. ~due
  BY <1>4, <1>5, Zenon
<1> QED
  BY <1>1, <1>6, Zenon DEF LoadedPc

\* Refreshes happen within the margin, and within three quarters of it always
\* (refresh_due), and never of a fresh default grant (validate_durations).
THEOREM RefreshesAreTimely == RefreshSpec => RefreshesInTheWindow
<1>1. ASSUME IInv, NEW r \in Request, LoadCredentials(r), credentials.refreshable
      PROVE  IF refresh'[r].pc = "refreshing"
             THEN credentials.expiry - clock <= margin /\ credentials.granted # {clock}
             ELSE credentials.expiry - clock > margin - margin \div 4
  <2>1. PICK due \in RefreshDue(credentials.expiry - clock, margin) : refresh'[r].pc = LoadedPc(due)
    BY <1>1, LoadStep
  <2>2. credentials.expiry - clock \in Int /\ margin \in Nat
    BY <1>1 DEF IInv, Typed, Credentials
  <2>3. /\ due => credentials.expiry - clock <= margin
        /\ ~due => credentials.expiry - clock > margin - margin \div 4
    BY <2>1, <2>2, Window
  <2>4. /\ due => refresh'[r].pc = "refreshing"
        /\ ~due => refresh'[r].pc # "refreshing"
    <3>1. /\ due => refresh'[r].pc = "refreshing"
          /\ ~due => refresh'[r].pc = "active"
      <4>1. CASE due
        BY <1>1, <2>1, <4>1, Zenon DEF LoadedPc
      <4>2. CASE ~due
        BY <1>1, <2>1, <4>2, Zenon DEF LoadedPc
      <4> QED
        BY <4>1, <4>2
    <3>2. "active" # "refreshing"
      OBVIOUS
    <3> QED
      BY <3>1, <3>2, Zenon
  <2>5. refresh'[r].pc = "refreshing" => credentials.granted # {clock}
    <3>1. credentials.granted = {clock} => refresh'[r].pc = "active"
      BY <1>1, FreshTokensAreNotDue
    <3> QED
      BY <3>1
  <2> QED
    BY <2>3, <2>4, <2>5, Zenon
<1>2. IInv /\ [RefreshNext]_refreshVars =>
         [\A r \in Request : LoadCredentials(r) /\ credentials.refreshable =>
             LET remaining == credentials.expiry - clock IN
             IF refresh'[r].pc = "refreshing"
             THEN remaining <= margin /\ credentials.granted # {clock}
             ELSE remaining > margin - margin \div 4]_refreshVars
  BY <1>1
<1> QED
  BY <1>2, Invariance, PTL DEF RefreshSpec, RefreshesInTheWindow
=============================================================================
