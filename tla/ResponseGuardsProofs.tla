------------------------- MODULE ResponseGuardsProofs -------------------------
(***************************************************************************)
(* Theorems about ResponseGuards, for any number of requests and of        *)
(* rotations.  Every step takes what one request holds and moves it, as a  *)
(* whole, to that request's next place or to one of the three ends; Moved  *)
(* says that no rotation is lost or doubled by such a step.                *)
(***************************************************************************)
EXTENDS ResponseGuards, TLAPS

HeldBy(q) == q.pending \cup q.commit \cup q.cookies \cup q.answer

\* A save that is owed and a cookie that is ready exclude each other.
OneGuard(r) ==
    /\ guarded[r].pc = "committing" => guarded[r].pending # {}
    /\ guarded[r].pc # "serving" \/ guarded[r].pending # {} => guarded[r].cookies = {}

\* What is known of at all was issued.
Issued(set) == set \ {Clear} \subseteq 1..token

AllIssued ==
    /\ Issued(delivered) /\ Issued(counted) /\ Issued(explained)
    /\ \A r \in Request : Issued(Held(r))

IInv ==
    /\ GuardsTypeOK
    /\ \A r \in Request : OneGuard(r)
    /\ AllIssued
    /\ EveryRotationHasOneFate

-----------------------------------------------------------------------------

LEMMA Become1 ==
    ASSUME GuardsTypeOK, NEW r \in Request, NEW q, Hold(r, q)
    PROVE  /\ guarded'[r] = q
           /\ \A x \in Request \ {r} : guarded'[x] = guarded[x]
           /\ q \in GuardState => guarded' \in [Request -> GuardState]
BY DEF GuardsTypeOK, Hold

\* The types of a request's parts.
LEMMA Fields ==
    ASSUME NEW q \in GuardState
    PROVE  /\ q.pc \in {"idle", "sent", "serving", "committing", "polled", "answered"}
           /\ q.shown \in SUBSET Rotation /\ q.pending \in SUBSET Rotation
           /\ q.commit \in SUBSET Rotation
           /\ q.cookies \in SUBSET (Rotation \cup {Clear})
           /\ q.answer \in SUBSET (Rotation \cup {Clear})
BY DEF GuardState

LEMMA Numbers == Clear \notin Rotation /\ Rotation \subseteq Nat
BY RotationAssumption DEF Clear, Rotation

\* The guards of a request on its own.
Sound(q) ==
    /\ q.pending # {} => q.pc \in {"serving", "committing"}
    /\ q.commit # {} <=> q.pc = "polled"
    /\ q.answer # {} => q.pc = "answered"
    /\ q.pc = "committing" => q.pending # {}
    /\ q.pc # "serving" \/ q.pending # {} => q.cookies = {}

LEMMA SoundNow == ASSUME IInv, NEW r \in Request PROVE Sound(guarded[r]) /\ guarded[r] \in GuardState
BY DEF IInv, GuardsTypeOK, OneGuard, Sound

\* What was held goes on to be held, or to the browser (d), to the count (c) or
\* to somebody else (e): to one of them.
Moves(before, after, d, c, e) ==
    /\ d \subseteq Rotation /\ c \subseteq Rotation \cup {Clear} /\ e \subseteq Rotation \cup {Clear}
    /\ delivered' = delivered \cup d /\ counted' = counted \cup c
    /\ explained' = explained \cup e
    /\ \A a \in Rotation :
        /\ a \in before <=> a \in after \cup d \cup c \cup e
        /\ a \in after => a \notin d \cup c \cup e
        /\ a \in d => a \notin c \cup e
        /\ a \in c => a \notin e

\* A step of one request that issues nothing.
LEMMA Moved ==
    ASSUME IInv, NEW r \in Request, NEW q \in GuardState, Hold(r, q), Sound(q),
           token' = token, browser' \in SUBSET Rotation,
           NEW d, NEW c, NEW e, Moves(Held(r), HeldBy(q), d, c, e)
    PROVE  IInv'
<1>1. /\ guarded'[r] = q /\ guarded' \in [Request -> GuardState]
      /\ \A x \in Request \ {r} : guarded'[x] = guarded[x]
  BY Become1 DEF IInv
<1>2. GuardsTypeOK' /\ \A x \in Request : OneGuard(x)'
  BY <1>1 DEF Moves, IInv, GuardsTypeOK, OneGuard, Sound
<1>3. /\ Held(r)' = HeldBy(q)
      /\ \A x \in Request \ {r} : Held(x)' = Held(x)
  BY <1>1 DEF Held, HeldBy
<1>4. 1..token \subseteq Rotation /\ Clear \notin 1..token /\ Clear \notin Rotation
  BY RotationAssumption DEF IInv, GuardsTypeOK, Rotation, Clear
<1>5. HeldBy(q) \subseteq Rotation \cup {Clear}
  BY Fields DEF HeldBy
<1>6. AllIssued'
  <2>1. \A a \in d \cup c \cup e \cup HeldBy(q) : a = Clear \/ a \in 1..token
    BY <1>4, <1>5 DEF Moves, IInv, AllIssued, Issued
  <2> QED
    BY <1>3, <2>1 DEF Moves, IInv, AllIssued, Issued
<1>7. EveryRotationHasOneFate'
  <2> SUFFICES ASSUME NEW a \in 1..token
               PROVE  /\ \/ a \in delivered' \cup counted' \cup explained'
                         \/ \E x \in Request : a \in Held(x)'
                      /\ a \in delivered' => a \notin counted' \cup explained'
                      /\ a \in counted' => a \notin explained'
                      /\ \A x \in Request : a \in Held(x)' =>
                            /\ a \notin delivered' \cup counted' \cup explained'
                            /\ \A y \in Request \ {x} : a \notin Held(y)'
    BY DEF EveryRotationHasOneFate
  <2>1. /\ a \in delivered \cup counted \cup explained \/ \E x \in Request : a \in Held(x)
        /\ a \in delivered => a \notin counted \cup explained
        /\ a \in counted => a \notin explained
        /\ \A x \in Request : a \in Held(x) =>
              /\ a \notin delivered \cup counted \cup explained
              /\ \A y \in Request \ {x} : a \notin Held(y)
    BY DEF IInv, EveryRotationHasOneFate
  <2>2. /\ a \in Held(r) <=> a \in HeldBy(q) \cup d \cup c \cup e
        /\ a \in HeldBy(q) => a \notin d \cup c \cup e
        /\ a \in d => a \notin c \cup e
        /\ a \in c => a \notin e
    BY <1>4 DEF Moves
  <2>3. CASE a \in Held(r)
    BY <1>3, <2>1, <2>2, <2>3 DEF Moves
  <2>4. CASE a \notin Held(r)
    BY <1>3, <2>1, <2>2, <2>4 DEF Moves
  <2> QED
    BY <2>3, <2>4
<1> QED
  BY <1>2, <1>6, <1>7 DEF IInv

\* The refresh of request r issues the next rotation, and r holds it.
LEMMA Refreshed ==
    ASSUME IInv, NEW r \in Request, NEW q \in GuardState, Hold(r, q), Sound(q),
           Held(r) = {}, token < MaxRotation, token' = token + 1,
           HeldBy(q) = {token + 1},
           UNCHANGED <<browser, counted, delivered, explained>>
    PROVE  IInv'
<1>1. /\ guarded'[r] = q /\ guarded' \in [Request -> GuardState]
      /\ \A x \in Request \ {r} : guarded'[x] = guarded[x]
  BY Become1 DEF IInv
<1>2. token \in Rotation /\ token' \in Rotation /\ token \in Nat /\ MaxRotation \in Nat
  BY RotationAssumption DEF IInv, GuardsTypeOK, Rotation
<1>3. GuardsTypeOK' /\ \A x \in Request : OneGuard(x)'
  BY <1>1, <1>2 DEF IInv, GuardsTypeOK, OneGuard, Sound
<1>4. /\ Held(r)' = {token + 1}
      /\ \A x \in Request \ {r} : Held(x)' = Held(x)
  BY <1>1 DEF Held, HeldBy
<1>5. /\ 1..token' = 1..token \cup {token + 1} /\ token + 1 \notin 1..token
      /\ token + 1 # Clear
  BY <1>2 DEF Clear
<1>6. AllIssued'
  BY <1>4, <1>5 DEF IInv, AllIssued, Issued
<1>7. EveryRotationHasOneFate'
  <2> SUFFICES ASSUME NEW a \in 1..token'
               PROVE  /\ \/ a \in delivered' \cup counted' \cup explained'
                         \/ \E x \in Request : a \in Held(x)'
                      /\ a \in delivered' => a \notin counted' \cup explained'
                      /\ a \in counted' => a \notin explained'
                      /\ \A x \in Request : a \in Held(x)' =>
                            /\ a \notin delivered' \cup counted' \cup explained'
                            /\ \A y \in Request \ {x} : a \notin Held(y)'
    BY DEF EveryRotationHasOneFate
  <2>1. CASE a = token + 1
    <3>1. /\ a \notin delivered \cup counted \cup explained
          /\ \A x \in Request : a \notin Held(x)
      BY <1>5, <2>1 DEF IInv, AllIssued, Issued
    <3> QED
      BY <1>4, <2>1, <3>1
  <2>2. CASE a \in 1..token /\ a # token + 1
    BY <1>4, <2>2 DEF IInv, EveryRotationHasOneFate
  <2> QED
    BY <1>5, <2>1, <2>2
<1> QED
  BY <1>3, <1>6, <1>7 DEF IInv

\* A step that keeps what request r holds.
LEMMA Kept ==
    ASSUME IInv, NEW r \in Request, NEW q \in GuardState, Hold(r, q), Sound(q),
           UNCHANGED <<token, browser, counted, delivered, explained>>,
           \A a \in Rotation : a \in Held(r) <=> a \in HeldBy(q)
    PROVE  IInv'
<1>1. Moves(Held(r), HeldBy(q), {}, {}, {})
  BY DEF Moves
<1>2. browser' \in SUBSET Rotation
  BY DEF IInv, GuardsTypeOK
<1> QED
  BY <1>1, <1>2, Moved

-----------------------------------------------------------------------------
(* One lemma for each action *)

LEMMA SendStep ==
    ASSUME IInv, NEW r \in Request, Send(r) PROVE IInv'
<1> DEFINE q == [Unguarded EXCEPT !.pc = "sent", !.shown = browser]
<1>1. /\ q \in GuardState /\ q.pc = "sent" /\ q.pending = {} /\ q.commit = {}
      /\ q.cookies = {} /\ q.answer = {}
  BY DEF IInv, GuardsTypeOK, Unguarded, GuardState
<1>2. /\ guarded[r].pc = "idle" /\ Hold(r, q)
      /\ UNCHANGED <<token, browser, counted, delivered, explained>>
  BY DEF Send
<1> HIDE DEF q
<1>3. Sound(q) /\ HeldBy(q) = {} /\ Held(r) = {}
  BY <1>1, <1>2, SoundNow DEF Sound, HeldBy, Held
<1> QED
  BY <1>1, <1>2, <1>3, Kept

\* The parts of a request that begins to be served.
LEMMA Serving ==
    ASSUME IInv, NEW r \in Request, guarded[r].pc = "sent",
           NEW p \in SUBSET Rotation, NEW c \in SUBSET (Rotation \cup {Clear}),
           p = {} \/ c = {}
    PROVE  LET q == [guarded[r] EXCEPT !.pc = "serving", !.pending = p, !.cookies = c]
           IN  q \in GuardState /\ Sound(q) /\ HeldBy(q) = p \cup c /\ Held(r) = {}
<1> DEFINE q == [guarded[r] EXCEPT !.pc = "serving", !.pending = p, !.cookies = c]
<1>1. Sound(guarded[r]) /\ guarded[r] \in GuardState
  BY SoundNow
<1>2. /\ q \in GuardState /\ q.pc = "serving" /\ q.pending = p /\ q.cookies = c
      /\ q.commit = guarded[r].commit /\ q.answer = guarded[r].answer
  BY <1>1 DEF GuardState
<1>3. Held(r) = {} /\ guarded[r].commit = {} /\ guarded[r].answer = {}
  BY <1>1 DEF Sound, Held
<1> HIDE DEF q
<1>4. Sound(q) /\ HeldBy(q) = p \cup c
  BY <1>2, <1>3 DEF Sound, HeldBy
<1> QED
  BY <1>2, <1>3, <1>4 DEF q

LEMMA LoadActiveStep ==
    ASSUME IInv, NEW r \in Request, LoadActive(r) PROVE IInv'
<1> DEFINE q == [guarded[r] EXCEPT !.pc = "serving", !.pending = {}, !.cookies = {}]
<1>1. /\ Hold(r, q) /\ guarded[r].pc = "sent"
      /\ UNCHANGED <<token, browser, counted, delivered, explained>>
  BY DEF LoadActive, Serve
<1>2. /\ q \in GuardState /\ Sound(q) /\ HeldBy(q) = {} /\ Held(r) = {}
  <2>1. {} \in SUBSET Rotation /\ {} \in SUBSET (Rotation \cup {Clear}) /\ {} \cup {} = {}
    OBVIOUS
  <2> HIDE DEF q
  <2>2. q \in GuardState /\ Sound(q) /\ HeldBy(q) = {} \cup {} /\ Held(r) = {}
    BY <1>1, <2>1, Serving DEF q
  <2> QED
    BY <2>1, <2>2
<1> HIDE DEF q
<1> QED
  BY <1>1, <1>2, Kept

LEMMA LoadClearedStep ==
    ASSUME IInv, NEW r \in Request, LoadCleared(r) PROVE IInv'
<1> DEFINE q == [guarded[r] EXCEPT !.pc = "serving", !.pending = {}, !.cookies = {Clear}]
<1>1. /\ Hold(r, q) /\ guarded[r].pc = "sent"
      /\ UNCHANGED <<token, browser, counted, delivered, explained>>
  BY DEF LoadCleared, Serve
<1>2. /\ q \in GuardState /\ Sound(q) /\ HeldBy(q) = {} \cup {Clear} /\ Held(r) = {}
  BY <1>1, Serving
<1> HIDE DEF q
<1> QED
  BY <1>1, <1>2, Kept, Numbers

LEMMA LoadRefreshedStep ==
    ASSUME IInv, NEW r \in Request, LoadRefreshed(r) PROVE IInv'
<1>1. /\ guarded[r].pc = "sent" /\ token < MaxRotation /\ token' = token + 1
      /\ UNCHANGED <<browser, counted, delivered, explained>>
  BY DEF LoadRefreshed
<1>2. {token + 1} \in SUBSET Rotation
  BY <1>1, RotationAssumption DEF IInv, GuardsTypeOK, Rotation
<1>3. CASE Serve(r, {}, {token + 1})
  <2> DEFINE q == [guarded[r] EXCEPT !.pc = "serving", !.pending = {}, !.cookies = {token + 1}]
  <2>1. Hold(r, q)
    BY <1>3 DEF Serve
  <2>2. /\ {} \in SUBSET Rotation /\ {token + 1} \in SUBSET (Rotation \cup {Clear})
    BY <1>2
  <2>3. /\ q \in GuardState /\ Sound(q) /\ HeldBy(q) = {} \cup {token + 1} /\ Held(r) = {}
    BY <1>1, <2>2, Serving
  <2> HIDE DEF q
  <2> QED
    BY <1>1, <2>1, <2>3, Refreshed
<1>4. CASE Serve(r, {token + 1}, {})
  <2> DEFINE q == [guarded[r] EXCEPT !.pc = "serving", !.pending = {token + 1}, !.cookies = {}]
  <2>1. Hold(r, q)
    BY <1>4 DEF Serve
  <2>2. {} \in SUBSET (Rotation \cup {Clear})
    OBVIOUS
  <2>3. /\ q \in GuardState /\ Sound(q) /\ HeldBy(q) = {token + 1} \cup {} /\ Held(r) = {}
    BY <1>1, <1>2, <2>2, Serving
  <2> HIDE DEF q
  <2> QED
    BY <1>1, <2>1, <2>3, Refreshed
<1> QED
  BY <1>3, <1>4 DEF LoadRefreshed

LEMMA StartCommitStep ==
    ASSUME IInv, NEW r \in Request, StartCommit(r) PROVE IInv'
<1> DEFINE q == [guarded[r] EXCEPT !.pc = "committing"]
<1>1. Sound(guarded[r]) /\ guarded[r] \in GuardState
  BY SoundNow
<1>2. /\ Hold(r, q) /\ guarded[r].pc = "serving" /\ guarded[r].pending # {}
      /\ UNCHANGED <<token, browser, counted, delivered, explained>>
  BY DEF StartCommit, Commit
<1>3. /\ q \in GuardState /\ q.pc = "committing" /\ q.pending = guarded[r].pending
      /\ q.cookies = guarded[r].cookies /\ q.commit = guarded[r].commit /\ q.answer = guarded[r].answer
  BY <1>1 DEF GuardState
<1> HIDE DEF q
<1>4. Sound(q) /\ HeldBy(q) = Held(r)
  BY <1>1, <1>2, <1>3 DEF Sound, HeldBy, Held
<1> QED
  BY <1>2, <1>3, <1>4, Kept

LEMMA PollStep ==
    ASSUME IInv, NEW r \in Request, Poll(r) PROVE IInv'
<1> DEFINE q == [guarded[r] EXCEPT !.pc = "polled", !.pending = {},
                               !.commit = guarded[r].commit \cup guarded[r].pending]
<1>1. Sound(guarded[r]) /\ guarded[r] \in GuardState
  BY SoundNow
<1>2. /\ Hold(r, q) /\ guarded[r].pc = "committing"
      /\ UNCHANGED <<token, browser, counted, delivered, explained>>
  BY DEF Poll
<1>3. /\ q \in GuardState /\ q.pc = "polled" /\ q.pending = {}
      /\ q.cookies = guarded[r].cookies /\ q.commit = guarded[r].commit \cup guarded[r].pending
      /\ q.answer = guarded[r].answer
  BY <1>1 DEF GuardState
<1> HIDE DEF q
<1>4. Sound(q) /\ HeldBy(q) = Held(r)
  BY <1>1, <1>2, <1>3 DEF Sound, HeldBy, Held
<1> QED
  BY <1>2, <1>3, <1>4, Kept

LEMMA CommitSucceedsStep ==
    ASSUME IInv, NEW r \in Request, CommitSucceeds(r) PROVE IInv'
<1> DEFINE q == [guarded[r] EXCEPT !.pc = "serving", !.commit = {}, !.cookies = guarded[r].commit]
<1>1. Sound(guarded[r]) /\ guarded[r] \in GuardState
  BY SoundNow
<1>2. /\ Hold(r, q) /\ guarded[r].pc = "polled"
      /\ UNCHANGED <<token, browser, counted, delivered, explained>>
  BY DEF CommitSucceeds
<1>3. /\ q \in GuardState /\ q.pc = "serving" /\ q.pending = guarded[r].pending
      /\ q.cookies = guarded[r].commit /\ q.commit = {} /\ q.answer = guarded[r].answer
  BY <1>1 DEF GuardState
<1> HIDE DEF q
<1>4. Sound(q) /\ HeldBy(q) = Held(r)
  BY <1>1, <1>2, <1>3 DEF Sound, HeldBy, Held
<1> QED
  BY <1>2, <1>3, <1>4, Kept

LEMMA IdleParts == Unguarded \in GuardState /\ Sound(Unguarded) /\ HeldBy(Unguarded) = {}
BY DEF Unguarded, GuardState, Sound, HeldBy

\* A request ends, and what it held goes elsewhere.
LEMMA Ended ==
    ASSUME IInv, NEW r \in Request, Hold(r, Unguarded), token' = token, browser' \in SUBSET Rotation,
           NEW d, NEW c, NEW e, Moves(Held(r), {}, d, c, e)
    PROVE  IInv'
BY IdleParts, Moved

LEMMA CommitFailsStep ==
    ASSUME IInv, NEW r \in Request, CommitFails(r) PROVE IInv'
<1>1. Sound(guarded[r]) /\ guarded[r] \in GuardState /\ guarded[r].commit \in SUBSET Rotation
  BY SoundNow, Fields
<1>2. /\ Hold(r, Unguarded) /\ guarded[r].pc = "polled" /\ token' = token /\ browser' \in SUBSET Rotation
      /\ delivered' = delivered \cup {} /\ counted' = counted \cup {}
      /\ explained' = explained \cup guarded[r].commit
  BY DEF CommitFails, IInv, GuardsTypeOK
<1>3. Held(r) = {} \cup {} \cup guarded[r].commit
  BY <1>1, <1>2 DEF Sound, Held
<1>6. Moves(Held(r), {}, {}, {}, guarded[r].commit)
  BY <1>1, <1>2, <1>3, Numbers DEF Moves
<1> QED
  BY <1>2, <1>6, Ended

LEMMA TerminateStep ==
    ASSUME IInv, NEW r \in Request, Terminate(r) PROVE IInv'
<1> DEFINE q == [guarded[r] EXCEPT !.pending = {}, !.cookies = {Clear}]
<1>1. Sound(guarded[r]) /\ guarded[r] \in GuardState /\ guarded[r].pending \in SUBSET Rotation
  BY SoundNow, Fields
<1>2. /\ Hold(r, q) /\ guarded[r].pc = "serving" /\ guarded[r].cookies = {}
      /\ token' = token /\ browser' \in SUBSET Rotation
      /\ delivered' = delivered \cup {} /\ counted' = counted \cup {}
      /\ explained' = explained \cup guarded[r].pending
  BY DEF Terminate, IInv, GuardsTypeOK
<1>3. /\ q \in GuardState /\ q.pc = "serving" /\ q.pending = {} /\ q.cookies = {Clear}
      /\ q.commit = guarded[r].commit /\ q.answer = guarded[r].answer
  BY <1>1, <1>2 DEF GuardState
<1> HIDE DEF q
<1>4. Sound(q) /\ HeldBy(q) = {Clear} /\ Held(r) = guarded[r].pending
  BY <1>1, <1>2, <1>3 DEF Sound, HeldBy, Held
<1>5. Moves(Held(r), HeldBy(q), {}, {}, guarded[r].pending)
  BY <1>1, <1>2, <1>4, Numbers DEF Moves
<1> QED
  BY <1>2, <1>3, <1>4, <1>5, Moved

LEMMA AppendStep ==
    ASSUME IInv, NEW r \in Request, Append(r) PROVE IInv'
<1> DEFINE q == [Unguarded EXCEPT !.pc = "answered", !.answer = guarded[r].cookies]
<1>1. /\ Sound(guarded[r]) /\ guarded[r] \in GuardState
      /\ guarded[r].cookies \in SUBSET (Rotation \cup {Clear})
  BY SoundNow, Fields
<1>2. /\ Hold(r, q) /\ guarded[r].pc = "serving" /\ guarded[r].pending = {}
      /\ UNCHANGED <<token, browser, counted, delivered, explained>>
  BY DEF Append, IntoHeaders, DropCounts
<1>3. /\ q \in GuardState /\ q.pc = "answered" /\ q.pending = {} /\ q.cookies = {}
      /\ q.commit = {} /\ q.answer = guarded[r].cookies
  BY <1>1 DEF Unguarded, GuardState
<1> HIDE DEF q
<1>4. Sound(q) /\ HeldBy(q) = Held(r)
  BY <1>1, <1>2, <1>3 DEF Sound, HeldBy, Held
<1> QED
  BY <1>2, <1>3, <1>4, Kept

LEMMA DiscardStep ==
    ASSUME IInv, NEW r \in Request, Discard(r) PROVE IInv'
<1>1. /\ Sound(guarded[r]) /\ guarded[r] \in GuardState
      /\ guarded[r].cookies \in SUBSET (Rotation \cup {Clear})
  BY SoundNow, Fields
<1>2. /\ Hold(r, Unguarded) /\ guarded[r].pc = "serving" /\ guarded[r].pending = {}
      /\ token' = token /\ browser' \in SUBSET Rotation
      /\ delivered' = delivered \cup {} /\ counted' = counted \cup {}
      /\ explained' = explained \cup guarded[r].cookies
  BY DEF Discard, IInv, GuardsTypeOK
<1>3. Held(r) = {} \cup {} \cup guarded[r].cookies
  BY <1>1, <1>2 DEF Sound, Held
<1>6. Moves(Held(r), {}, {}, {}, guarded[r].cookies)
  BY <1>1, <1>2, <1>3, Numbers DEF Moves
<1> QED
  BY <1>2, <1>6, Ended

LEMMA DropStep ==
    ASSUME IInv, NEW r \in Request, Drop(r) PROVE IInv'
<1> DEFINE q == guarded[r]
           c == q.pending \cup q.cookies
<1>1. /\ Sound(q) /\ q.pending \in SUBSET Rotation /\ q.commit \in SUBSET Rotation
      /\ q.cookies \in SUBSET (Rotation \cup {Clear})
  BY SoundNow, Fields
<1>2. /\ Hold(r, Unguarded) /\ q.pc \in {"serving", "committing", "polled"}
      /\ token' = token /\ browser' \in SUBSET Rotation
      /\ delivered' = delivered \cup {} /\ counted' = counted \cup c
      /\ explained' = explained \cup (IF q.pc = "polled" THEN q.commit ELSE {})
  BY DEF Drop, DropCounts, IInv, GuardsTypeOK
<1>3. /\ Held(r) = {} \cup c \cup q.commit /\ explained' = explained \cup q.commit
      /\ c = {} \/ q.commit = {}
  BY <1>1, <1>2 DEF Sound, Held
<1>4. c \subseteq Rotation \cup {Clear} /\ q.commit \subseteq Rotation \cup {Clear}
  BY <1>1
<1> HIDE DEF c
<1>6. Moves(Held(r), {}, {}, c, q.commit)
  BY <1>2, <1>3, <1>4, Numbers DEF Moves
<1> QED
  BY <1>2, <1>6, Ended

LEMMA PanicStep ==
    ASSUME IInv, NEW r \in Request, Panic(r) PROVE IInv'
<1> DEFINE q == guarded[r]
           e == q.pending \cup q.cookies \cup q.commit
<1>1. /\ Sound(q) /\ q.pending \in SUBSET Rotation /\ q.commit \in SUBSET Rotation
      /\ q.cookies \in SUBSET (Rotation \cup {Clear})
  BY SoundNow, Fields
<1>2. /\ Hold(r, Unguarded) /\ q.pc \in {"serving", "committing", "polled"}
      /\ token' = token /\ browser' \in SUBSET Rotation
      /\ delivered' = delivered \cup {} /\ counted' = counted \cup {}
      /\ explained' = explained \cup e
  BY DEF Panic, DropCounts, IInv, GuardsTypeOK
<1>3. Held(r) = {} \cup {} \cup e
  BY <1>1, <1>2 DEF Sound, Held
<1>4. e \subseteq Rotation \cup {Clear}
  BY <1>1
<1> HIDE DEF e
<1>6. Moves(Held(r), {}, {}, {}, e)
  BY <1>2, <1>3, <1>4, Numbers DEF Moves
<1> QED
  BY <1>2, <1>6, Ended

LEMMA DeliverStep ==
    ASSUME IInv, NEW r \in Request, DeliverAnswer(r) PROVE IInv'
<1> DEFINE d == guarded[r].answer \ {Clear}
<1>1. Sound(guarded[r]) /\ guarded[r].answer \in SUBSET (Rotation \cup {Clear})
  BY SoundNow, Fields
<1>2. /\ Hold(r, Unguarded) /\ guarded[r].pc = "answered" /\ token' = token
      /\ browser' \in SUBSET Rotation
      /\ delivered' = delivered \cup d /\ counted' = counted \cup {}
      /\ explained' = explained \cup {}
  BY <1>1 DEF DeliverAnswer, IInv, GuardsTypeOK
<1>3. Held(r) = guarded[r].answer
  BY <1>1, <1>2 DEF Sound, Held
<1>4. d \subseteq Rotation /\ \A a \in Rotation : a \in Held(r) <=> a \in d \cup {} \cup {}
  BY <1>1, <1>3, Numbers
<1> HIDE DEF d
<1>6. Moves(Held(r), {}, d, {}, {})
  BY <1>2, <1>4, Numbers DEF Moves
<1> QED
  BY <1>2, <1>6, Ended

LEMMA LoseStep ==
    ASSUME IInv, NEW r \in Request, Lose(r) PROVE IInv'
<1>1. Sound(guarded[r]) /\ guarded[r].answer \in SUBSET (Rotation \cup {Clear})
  BY SoundNow, Fields
<1>2. /\ Hold(r, Unguarded) /\ guarded[r].pc \in {"sent", "answered"} /\ token' = token
      /\ browser' \in SUBSET Rotation
      /\ delivered' = delivered \cup {} /\ counted' = counted \cup {}
      /\ explained' = explained \cup guarded[r].answer
  BY <1>1 DEF Lose, IInv, GuardsTypeOK
<1>3. Held(r) = {} \cup {} \cup guarded[r].answer
  BY <1>1, <1>2 DEF Sound, Held
<1>6. Moves(Held(r), {}, {}, {}, guarded[r].answer)
  BY <1>1, <1>2, <1>3, Numbers DEF Moves
<1> QED
  BY <1>2, <1>6, Ended

-----------------------------------------------------------------------------

LEMMA Start == GuardsInit => IInv
<1> SUFFICES ASSUME GuardsInit PROVE IInv
  OBVIOUS
<1>1. /\ token = 1 /\ browser = {1} /\ delivered = {1} /\ counted = {} /\ explained = {}
      /\ guarded = [r \in Request |-> Unguarded]
  BY DEF GuardsInit
<1>2. 1 \in Rotation /\ 1 # Clear /\ 1..token = {1}
  BY <1>1, RotationAssumption DEF Rotation, Clear
<1>3. GuardsTypeOK /\ \A r \in Request : OneGuard(r) /\ Held(r) = {}
  BY <1>1, <1>2, IdleParts DEF GuardsTypeOK, OneGuard, Sound, Held, HeldBy
<1>4. AllIssued /\ EveryRotationHasOneFate
  BY <1>1, <1>2, <1>3 DEF AllIssued, Issued, EveryRotationHasOneFate
<1> QED
  BY <1>3, <1>4 DEF IInv

LEMMA Step == IInv /\ [GuardsNext]_guardVars => IInv'
<1> SUFFICES ASSUME IInv, [GuardsNext]_guardVars PROVE IInv'
  OBVIOUS
<1>1. CASE UNCHANGED guardVars
  BY <1>1 DEF guardVars, IInv, GuardsTypeOK, OneGuard, AllIssued, Issued, Held, EveryRotationHasOneFate
<1>2. CASE GuardsNext
  BY <1>2, SendStep, LoadActiveStep, LoadRefreshedStep, LoadClearedStep, StartCommitStep,
     PollStep, CommitSucceedsStep, CommitFailsStep, TerminateStep, AppendStep, DiscardStep,
     DropStep, PanicStep, DeliverStep, LoseStep DEF GuardsNext
<1> QED
  BY <1>1, <1>2

\* IInv holds in every state of every behaviour of ResponseGuards.
THEOREM Invariance == GuardsSpec => []IInv
BY Start, Step, PTL DEF GuardsSpec

\* The guards of a request are armed only where the code holds them.
THEOREM TypeCorrect == GuardsSpec => []GuardsTypeOK
<1>1. IInv => GuardsTypeOK
  BY DEF IInv
<1> QED
  BY <1>1, Invariance, PTL

\* A rotation is on its way in one request, or has reached the browser, or its
\* loss is counted, or it is known elsewhere: never none of these and never two
\* (Drop for SetCookies and PendingPersist).
THEOREM OneFate == GuardsSpec => []EveryRotationHasOneFate
<1>1. IInv => EveryRotationHasOneFate
  BY DEF IInv
<1> QED
  BY <1>1, Invariance, PTL
=============================================================================
