--------------------------- MODULE LoginFlowProofs ---------------------------
(***************************************************************************)
(* Theorems about LoginFlow, for any number of tabs, requests, records and *)
(* nodes.  They rest on one inductive invariant, IInv.  Its core is that a *)
(* record whose pointer is still on its way is known to nobody else        *)
(* (Undelivered, Apart): no request shows it, so no request can remove it. *)
(***************************************************************************)
EXTENDS LoginFlow, TLAPS

\* Where the authorization server has answered a flow.
Back == {"granted", "redeemed", "denied"}

Used(s) == s \in Session => record[s] # "unused"

\* Nothing is on the response before there is one.
Quiet(r) ==
    /\ req[r].pc = "idle" => req[r] = Idle
    /\ req[r].pc # "answered" =>
        req[r].pointer = Keep /\ req[r].add = {} /\ req[r].clear = {}

\* Which requests are where, and which of them have inserted a record.
OnItsWay(r) ==
    /\ req[r].pc \in {"exchange", "insert", "touch"} => req[r].route = "callback"
    /\ req[r].pc \in {"load_old", "delete_old", "clear_old"} => req[r].route # "page"
    /\ req[r].route # "callback" => req[r].session = NoSession
    /\ req[r].pc \in {"idle", "arrived", "exchange", "insert"} =>
        req[r].session = NoSession
    /\ req[r].pc \in {"touch", "load_old", "delete_old", "clear_old"}
            /\ req[r].route = "callback"
        => req[r].session \in Session

OfItsFlow(r) ==
    /\ req[r].route = "callback" =>
        req[r].flow \in Flow /\ flow[req[r].flow].stage \in Back
    /\ \A f \in req[r].add : flow[f].stage = "started"

\* What a response clears, and which pointer it sets.
Answers(r) == req[r].pc = "answered" =>
    /\ req[r].pointer \in Session => req[r].pointer = req[r].session
    /\ req[r].session \in Session => req[r].pointer = req[r].session
    /\ req[r].add # {} => req[r].route = "page"
    /\ req[r].route = "callback" /\ req[r].flow \in req[r].shown.login
            /\ flow[req[r].flow].stage # "denied"
        => req[r].flow \in req[r].clear
    /\ \/ req[r].clear \subseteq {req[r].flow}
       \/ req[r].session # NoSession
       \/ req[r].shown.pointer # NoSession
    /\ req[r].pointer # Keep /\ req[r].shown.pointer \in Session =>
        \/ record[req[r].shown.pointer] = "gone"
        \/ req[r].shown.pointer \in excused

\* The record that a callback or a logout removes.
OldRecord(r) ==
    /\ Used(req[r].shown.pointer)
    /\ req[r].pc \in {"delete_old", "clear_old"} => req[r].shown.pointer \in Session
    /\ req[r].pc = "clear_old" => record[req[r].shown.pointer] = "gone"

\* A record that was inserted is live until its pointer is delivered or lost.
Undelivered(r) == req[r].session \in Session =>
    record[req[r].session] = "live" /\ jar.pointer # req[r].session

RequestOK(r) ==
    /\ Quiet(r)
    /\ OnItsWay(r)
    /\ OfItsFlow(r)
    /\ Answers(r)
    /\ OldRecord(r)
    /\ Undelivered(r)

\* Requests insert different records, start different flows, and show no
\* record whose pointer is on its way.
Apart(r, x) ==
    /\ req[r].session \in Session => req[x].shown.pointer # req[r].session
    /\ req[r].session \in Session /\ r # x => req[x].session # req[r].session
    /\ r # x => req[r].add \cap req[x].add = {}

AnsweredAreBack == \A f \in answered : flow[f].stage \in Back

IInv ==
    /\ TypeOK
    /\ \A r \in Request : RequestOK(r)
    /\ \A r, x \in Request : Apart(r, x)
    /\ Used(jar.pointer)
    /\ AnsweredAreBack
    /\ FlowsDoNotReplay
    /\ OrphansAreExplained

-----------------------------------------------------------------------------
(* Values *)

LEMMA IdleType == Idle \in RequestState
BY DEF Idle, RequestState, Pointer, Jar, Pc

LEMMA AnswerType ==
    ASSUME NEW q \in RequestState, NEW p \in Pointer \cup {Keep},
           NEW a \in SUBSET Flow, NEW c \in SUBSET Flow
    PROVE  /\ Answer(q, p, a, c) \in RequestState
           /\ Answer(q, p, a, c).pc = "answered"
           /\ Answer(q, p, a, c).route = q.route
           /\ Answer(q, p, a, c).shown = q.shown
           /\ Answer(q, p, a, c).flow = q.flow
           /\ Answer(q, p, a, c).session = q.session
           /\ Answer(q, p, a, c).pointer = p
           /\ Answer(q, p, a, c).add = a
           /\ Answer(q, p, a, c).clear = c
BY DEF RequestState, Answer, Pc

\* A response without login-state cookies.
LEMMA PlainAnswer ==
    ASSUME NEW q \in RequestState, NEW p \in Pointer \cup {Keep}
    PROVE  /\ Answer(q, p, {}, {}) \in RequestState
           /\ Answer(q, p, {}, {}).pc = "answered"
           /\ Answer(q, p, {}, {}).route = q.route
           /\ Answer(q, p, {}, {}).shown = q.shown
           /\ Answer(q, p, {}, {}).flow = q.flow
           /\ Answer(q, p, {}, {}).session = q.session
           /\ Answer(q, p, {}, {}).pointer = p
           /\ Answer(q, p, {}, {}).add = {}
           /\ Answer(q, p, {}, {}).clear = {}
BY DEF RequestState, Answer, Pc

LEMMA AtType ==
    ASSUME NEW q \in RequestState, NEW pc \in Pc
    PROVE  /\ [q EXCEPT !.pc = pc] \in RequestState
           /\ [q EXCEPT !.pc = pc].pc = pc
           /\ [q EXCEPT !.pc = pc].route = q.route
           /\ [q EXCEPT !.pc = pc].shown = q.shown
           /\ [q EXCEPT !.pc = pc].flow = q.flow
           /\ [q EXCEPT !.pc = pc].session = q.session
           /\ [q EXCEPT !.pc = pc].pointer = q.pointer
           /\ [q EXCEPT !.pc = pc].add = q.add
           /\ [q EXCEPT !.pc = pc].clear = q.clear
BY DEF RequestState

LEMMA RequestFields ==
    ASSUME NEW q \in RequestState
    PROVE  /\ q.pc \in Pc
           /\ q.route \in {"page", "callback", "logout"}
           /\ q.shown.pointer \in Pointer /\ q.shown.login \in SUBSET Flow
           /\ q.flow \in Flow \cup {NoFlow}
           /\ q.session \in Pointer
           /\ q.pointer \in Pointer \cup {Keep}
           /\ q.add \in SUBSET Flow /\ q.clear \in SUBSET Flow
BY DEF RequestState, Jar

-----------------------------------------------------------------------------
(* What a step of one request leaves true of the others *)

\* Records end once, started flows come back once, and what is excused stays so.
Onward ==
    /\ \A s \in Session : record[s] # "unused" => record'[s] # "unused"
    /\ \A s \in Session : record[s] = "gone" => record'[s] = "gone"
    /\ excused \subseteq excused'
    /\ \A f \in Flow : flow[f].stage \in Back =>
        /\ flow'[f].stage \in Back
        /\ flow'[f].stage = "denied" <=> flow[f].stage = "denied"

\* What request x has under way is not touched.
Spares(x) ==
    /\ req[x].session \in Session =>
        record'[req[x].session] = "live" /\ jar'.pointer # req[x].session
    /\ \A f \in req[x].add : flow'[f].stage = "started"

LEMMA Others ==
    ASSUME TypeOK, NEW x \in Request, RequestOK(x), req'[x] = req[x],
           Onward, Spares(x)
    PROVE  RequestOK(x)'
<1> DEFINE q == req[x]
<1>1. q \in RequestState
  BY DEF TypeOK
<1>2. Quiet(x)' /\ OnItsWay(x)'
  BY DEF RequestOK, Quiet, OnItsWay, Idle
<1>3. OfItsFlow(x)'
  BY <1>1, RequestFields DEF RequestOK, OfItsFlow, Onward, Spares
<1>4. Answers(x)'
  <2>1. q.route = "callback" => q.flow \in Flow /\ flow[q.flow].stage \in Back
    BY DEF RequestOK, OfItsFlow
  <2>2. q.route = "callback" /\ flow'[q.flow].stage # "denied" => flow[q.flow].stage # "denied"
    BY <2>1 DEF Onward
  <2>3. q.shown.pointer \in Session =>
           /\ record[q.shown.pointer] = "gone" => record'[q.shown.pointer] = "gone"
           /\ q.shown.pointer \in excused => q.shown.pointer \in excused'
    BY DEF Onward
  <2> QED
    BY <2>1, <2>2, <2>3 DEF RequestOK, Answers
<1>5. OldRecord(x)'
  BY <1>1, RequestFields DEF RequestOK, OldRecord, Used, Onward
<1>6. Undelivered(x)'
  BY DEF RequestOK, Undelivered, Spares
<1> QED
  BY <1>2, <1>3, <1>4, <1>5, <1>6 DEF RequestOK

LEMMA Become1 ==
    ASSUME TypeOK, NEW r \in Request, NEW q, Become(r, q)
    PROVE  /\ req'[r] = q
           /\ \A x \in Request \ {r} : req'[x] = req[x]
           /\ q \in RequestState => req' \in [Request -> RequestState]
BY DEF TypeOK, Become

\* A request that keeps what it showed, and inserted or started nothing.
LEMMA StaysApart ==
    ASSUME TypeOK, \A y, x \in Request : Apart(y, x), NEW r \in Request, NEW q, Become(r, q),
           q.session = req[r].session \/ q.session \notin Session,
           \/ q.shown.pointer = req[r].shown.pointer
           \/ \A x \in Request : req[x].session \in Session => q.shown.pointer # req[x].session,
           q.add \subseteq req[r].add
    PROVE  \A y, x \in Request : Apart(y, x)'
<1> SUFFICES ASSUME NEW y \in Request, NEW x \in Request PROVE Apart(y, x)'
  OBVIOUS
<1>0. Apart(y, x) /\ Apart(r, r)
  OBVIOUS
<1>1. req'[r] = q /\ \A z \in Request \ {r} : req'[z] = req[z]
  BY Become1
<1>2. CASE y # r /\ x # r
  BY <1>0, <1>1, <1>2 DEF Apart
<1>3. CASE y = r /\ x # r
  BY <1>0, <1>1, <1>3 DEF Apart
<1>4. CASE y # r /\ x = r
  BY <1>0, <1>1, <1>4 DEF Apart
<1>5. CASE y = r /\ x = r
  BY <1>0, <1>1, <1>5 DEF Apart
<1> QED
  BY <1>2, <1>3, <1>4, <1>5

-----------------------------------------------------------------------------
(* Steps of a node *)

LEMMA NodeStep ==
    ASSUME IInv, TypeOK', NEW r \in Request, NEW q \in RequestState, Become(r, q),
           jar' = jar, answered' = answered,
           Onward, \A x \in Request \ {r} : Spares(x),
           RequestOK(r)', \A y, x \in Request : Apart(y, x)',
           q.pc # "idle", q.session = req[r].session \/ req[r].session \notin Session,
           \A s \in Session : record'[s] = "live" =>
               record[s] = "live" \/ s = q.session \/ s \in excused'
    PROVE  IInv'
<1>1. req'[r] = q /\ \A x \in Request \ {r} : req'[x] = req[x]
  BY Become1 DEF IInv
<1>2. \A x \in Request : RequestOK(x)'
  <2> SUFFICES ASSUME NEW x \in Request, x # r PROVE RequestOK(x)'
    OBVIOUS
  <2> QED
    BY <1>1, Others DEF IInv
<1>3. Used(jar.pointer)'
  BY DEF IInv, Used, Onward
<1>4. AnsweredAreBack' /\ FlowsDoNotReplay'
  BY DEF IInv, AnsweredAreBack, FlowsDoNotReplay, Onward, TypeOK
<1>5. OrphansAreExplained'
  <2> SUFFICES ASSUME NEW s \in Session, record'[s] = "live"
               PROVE  \/ s = jar'.pointer
                      \/ \E x \in Request : req'[x].pc # "idle" /\ req'[x].session = s
                      \/ s \in excused'
    BY DEF OrphansAreExplained
  <2>1. CASE record[s] = "live"
    <3>1. CASE s = jar.pointer \/ s \in excused
      BY <3>1 DEF Onward
    <3>2. ASSUME NEW x \in Request, req[x].pc # "idle", req[x].session = s
          PROVE  \E y \in Request : req'[y].pc # "idle" /\ req'[y].session = s
      BY <1>1, <3>2
    <3> QED
      BY <2>1, <3>1, <3>2 DEF IInv, OrphansAreExplained
  <2>2. CASE s = q.session
    BY <1>1, <2>2
  <2>3. CASE s \in excused'
    BY <2>3
  <2> QED
    BY <2>1, <2>2, <2>3
<1> QED
  BY <1>2, <1>3, <1>4, <1>5 DEF IInv

\* The error response of a callback that has inserted nothing.
LEMMA ErrorAnswer ==
    ASSUME IInv, NEW r \in Request, req[r].route = "callback",
           req[r].pc \in {"arrived", "exchange", "insert"}, jar' = jar, Onward,
           Become(r, CallbackError(req[r]))
    PROVE  /\ CallbackError(req[r]) \in RequestState
           /\ CallbackError(req[r]).pc # "idle"
           /\ CallbackError(req[r]).session = req[r].session
           /\ RequestOK(r)' /\ \A y, x \in Request : Apart(y, x)'
<1> DEFINE q == CallbackError(req[r])
<1>1. req[r] \in RequestState /\ req[r].flow \in Flow /\ flow[req[r].flow].stage \in Back
  BY DEF IInv, TypeOK, RequestOK, OfItsFlow
<1>2. /\ q \in RequestState /\ q.pc = "answered" /\ q.route = "callback"
      /\ q.shown = req[r].shown /\ q.flow = req[r].flow /\ q.session = req[r].session
      /\ q.pointer = Keep /\ q.add = {} /\ q.clear = {req[r].flow}
  BY <1>1, AnswerType DEF CallbackError
<1>3. req'[r] = q
  BY Become1 DEF IInv
<1>4. q.session = NoSession /\ Used(req[r].shown.pointer) /\ req[r].shown.pointer \in Pointer
  BY <1>1, <1>2, RequestFields DEF IInv, RequestOK, OnItsWay, OldRecord
<1> HIDE DEF q
<1>5. RequestOK(r)'
  BY <1>1, <1>2, <1>3, <1>4, ValuesAssumption
     DEF RequestOK, Quiet, OnItsWay, OfItsFlow, Answers, OldRecord, Undelivered, Onward, Used, Pointer
<1>6. \A y, x \in Request : Apart(y, x)'
  BY <1>2, <1>3, StaysApart DEF IInv, q
<1> QED
  BY <1>2, <1>5, <1>6 DEF q

LEMMA StoreStays ==
    ASSUME IInv, UNCHANGED <<jar, record, flow>>, excused \subseteq excused'
    PROVE  Onward /\ \A x \in Request : Spares(x)
BY DEF IInv, RequestOK, OfItsFlow, Undelivered, Onward, Spares

\* Steps that only change the request, and maybe the liveness entries.
LEMMA LocalStep ==
    ASSUME IInv, NEW r \in Request, NEW q \in RequestState, Become(r, q),
           UNCHANGED <<now, jar, flow, record, answered>>,
           entries' \in SUBSET Session, excused \subseteq excused', excused' \in SUBSET Session,
           RequestOK(r)', q.pc # "idle", q.session = req[r].session,
           q.shown = req[r].shown, q.add = {}
    PROVE  IInv'
<1>1. TypeOK'
  BY Become1 DEF IInv, TypeOK
<1>2. \A y, x \in Request : Apart(y, x)'
  BY StaysApart DEF IInv
<1> QED
  BY <1>1, <1>2, NodeStep, StoreStays DEF IInv

\* The error response of a callback, when nothing else changes.
LEMMA ErrorStep ==
    ASSUME IInv, NEW r \in Request, req[r].route = "callback",
           req[r].pc \in {"arrived", "exchange", "insert"},
           UNCHANGED <<now, jar, flow, record, entries, answered>>,
           excused \subseteq excused', excused' \in SUBSET Session,
           Become(r, CallbackError(req[r]))
    PROVE  IInv'
<1>1. Onward
  BY StoreStays
<1>2. /\ CallbackError(req[r]).shown = req[r].shown
      /\ CallbackError(req[r]).add = {}
  <2>1. req[r] \in RequestState /\ req[r].flow \in Flow
    BY DEF IInv, TypeOK, RequestOK, OfItsFlow
  <2> QED
    BY <2>1, AnswerType DEF CallbackError
<1>3. entries' \in SUBSET Session
  BY DEF IInv, TypeOK
<1> QED
  BY <1>1, <1>2, <1>3, ErrorAnswer, LocalStep

LEMMA HandleAsErrorStep ==
    ASSUME IInv, NEW r \in Request, HandleAsError(r) PROVE IInv'
<1>1. PICK echoed \in {{req[r].flow}, {}} :
        Become(r, Answer(req[r], Keep, {}, echoed \cap req[r].shown.login))
  BY DEF HandleAsError
<1> DEFINE q == Answer(req[r], Keep, {}, echoed \cap req[r].shown.login)
<1>2. /\ req[r] \in RequestState /\ req[r].flow \in Flow /\ req[r].route = "callback"
      /\ req[r].pc = "arrived" /\ flow[req[r].flow].stage = "denied"
      /\ req[r].session = NoSession
      /\ UNCHANGED <<now, jar, flow, record, entries, excused, answered>>
  BY DEF HandleAsError, IInv, TypeOK, RequestOK, OfItsFlow, OnItsWay
<1>3. /\ q \in RequestState /\ q.pc = "answered" /\ q.route = "callback"
      /\ q.shown = req[r].shown /\ q.flow = req[r].flow /\ q.session = req[r].session
      /\ q.pointer = Keep /\ q.add = {} /\ q.clear \subseteq {req[r].flow}
  <2>1. echoed \cap req[r].shown.login \in SUBSET Flow
    BY <1>2, RequestFields
  <2> QED
    BY <1>2, <2>1, AnswerType
<1>4. req'[r] = q
  BY <1>1, Become1 DEF IInv
<1>5. Become(r, q)
  BY <1>1
<1> HIDE DEF q
<1>6. RequestOK(r)'
  BY <1>2, <1>3, <1>4, ValuesAssumption
     DEF RequestOK, Quiet, OnItsWay, OfItsFlow, Answers, OldRecord, Undelivered, Used, IInv, Back
<1> QED
  BY <1>2, <1>3, <1>5, <1>6, LocalStep DEF IInv, TypeOK

LEMMA NoLoginStateStep ==
    ASSUME IInv, NEW r \in Request, NoLoginState(r) PROVE IInv'
<1>1. PICK clear \in SUBSET Flow :
        /\ Become(r, Answer(req[r], Keep, {}, clear))
        /\ clear = {} \/ req[r].shown.pointer # NoSession
  <2>1. req[r].shown.login \in SUBSET Flow
    BY RequestFields DEF IInv, TypeOK
  <2> QED
    BY <2>1, ValuesAssumption DEF NoLoginState, LoginStateSweep, IsLive
<1> DEFINE q == Answer(req[r], Keep, {}, clear)
<1>2. /\ req[r] \in RequestState /\ req[r].flow \in Flow /\ req[r].route = "callback"
      /\ req[r].pc = "arrived" /\ req[r].flow \notin req[r].shown.login
      /\ req[r].session = NoSession
      /\ UNCHANGED <<now, jar, flow, record, entries, excused, answered>>
  BY DEF NoLoginState, IInv, TypeOK, RequestOK, OfItsFlow, OnItsWay
<1>3. /\ q \in RequestState /\ q.pc = "answered" /\ q.route = "callback"
      /\ q.shown = req[r].shown /\ q.flow = req[r].flow /\ q.session = req[r].session
      /\ q.pointer = Keep /\ q.add = {} /\ q.clear = clear
  <2>1. req[r] \in RequestState /\ clear \in SUBSET Flow
    BY <1>1, <1>2
  <2> QED
    BY <1>2, <2>1, AnswerType
<1>4. req'[r] = q /\ Become(r, q)
  BY <1>1, Become1 DEF IInv
<1> HIDE DEF q
<1>5. RequestOK(r)'
  BY <1>1, <1>2, <1>3, <1>4, ValuesAssumption
     DEF RequestOK, Quiet, OnItsWay, OfItsFlow, Answers, OldRecord, Undelivered, Used, IInv
<1> QED
  BY <1>2, <1>3, <1>4, <1>5, LocalStep DEF IInv, TypeOK

\* A request that goes on and is not answered yet.
LEMMA Moved ==
    ASSUME IInv, NEW r \in Request, NEW pc \in Pc \ {"idle", "answered"},
           Become(r, [req[r] EXCEPT !.pc = pc]), req[r].pc \notin {"idle", "answered"},
           jar' = jar, Onward, Spares(r), OnItsWay(r)',
           pc \in {"delete_old", "clear_old"} => req[r].shown.pointer \in Session,
           pc = "clear_old" => record'[req[r].shown.pointer] = "gone"
    PROVE  /\ [req[r] EXCEPT !.pc = pc] \in RequestState
           /\ [req[r] EXCEPT !.pc = pc].session = req[r].session
           /\ [req[r] EXCEPT !.pc = pc].pc # "idle"
           /\ RequestOK(r)' /\ \A y, x \in Request : Apart(y, x)'
<1> DEFINE q == [req[r] EXCEPT !.pc = pc]
<1>1. req[r] \in RequestState
  BY DEF IInv, TypeOK
<1>2. /\ q \in RequestState /\ q.pc = pc /\ q.route = req[r].route
      /\ q.shown = req[r].shown /\ q.flow = req[r].flow /\ q.session = req[r].session
      /\ q.pointer = Keep /\ q.add = {} /\ q.clear = {}
  BY <1>1, AtType DEF IInv, RequestOK, Quiet
<1>3. req'[r] = q
  BY Become1 DEF IInv
<1>4. req[r].shown.pointer \in Pointer
  BY <1>1, RequestFields
<1> HIDE DEF q
<1>5. RequestOK(r)'
  <2>1. Quiet(r)' /\ Answers(r)'
    BY <1>2, <1>3 DEF Quiet, Answers
  <2>2. OfItsFlow(r)'
    BY <1>2, <1>3 DEF OfItsFlow, IInv, RequestOK, Onward
  <2>3. OldRecord(r)' /\ Undelivered(r)'
    BY <1>2, <1>3, <1>4 DEF OldRecord, Undelivered, Spares, Used, IInv, RequestOK, Onward
  <2> QED
    BY <2>1, <2>2, <2>3 DEF RequestOK
<1>6. \A y, x \in Request : Apart(y, x)'
  BY <1>2, <1>3, StaysApart DEF IInv, q
<1> QED
  BY <1>2, <1>5, <1>6 DEF q

\* The answer to a callback that succeeded, or to a logout.
LEMMA FinishedAnswer ==
    ASSUME IInv, NEW r \in Request, req[r].pc \in {"load_old", "delete_old", "clear_old"},
           Become(r, Finished(req[r])), jar' = jar, Onward, Spares(r),
           req[r].shown.pointer \in Session =>
               \/ record'[req[r].shown.pointer] = "gone"
               \/ req[r].shown.pointer \in excused'
    PROVE  /\ Finished(req[r]) \in RequestState
           /\ Finished(req[r]).session = req[r].session
           /\ Finished(req[r]).shown = req[r].shown
           /\ Finished(req[r]).add = {}
           /\ Finished(req[r]).pc # "idle"
           /\ RequestOK(r)' /\ \A y, x \in Request : Apart(y, x)'
<1> DEFINE q == Finished(req[r])
<1>1. /\ req[r] \in RequestState
      /\ req[r].route \in {"callback", "logout"}
      /\ req[r].route = "callback" => req[r].session \in Session
      /\ req[r].route = "logout" => req[r].session = NoSession
  BY RequestFields DEF IInv, TypeOK, RequestOK, OnItsWay
<1>2. /\ req[r].shown.login \in SUBSET Flow /\ req[r].shown.pointer \in Pointer
      /\ req[r].session \in Pointer
  BY <1>1, RequestFields
<1>3. CASE req[r].route = "callback"
  <2>1. q = Answer(req[r], req[r].session, {}, req[r].shown.login)
    BY <1>3 DEF Finished, LoginStateSweep
  <2>2. /\ q \in RequestState /\ q.pc = "answered" /\ q.route = "callback"
        /\ q.shown = req[r].shown /\ q.flow = req[r].flow /\ q.session = req[r].session
        /\ q.pointer = req[r].session /\ q.add = {} /\ q.clear = req[r].shown.login
    <3>1. /\ req[r] \in RequestState /\ req[r].session \in Pointer \cup {Keep}
          /\ {} \in SUBSET Flow /\ req[r].shown.login \in SUBSET Flow
      BY <1>1, <1>2
    <3> HIDE DEF q
    <3> QED
      BY <1>3, <2>1, <3>1, AnswerType
  <2>3. req'[r] = q
    BY Become1 DEF IInv
  <2> HIDE DEF q
  <2>4. q.session \in Session /\ q.session # NoSession
    BY <1>1, <1>3, <2>2, ValuesAssumption
  <2>5. Quiet(r)' /\ OnItsWay(r)' /\ Answers(r)'
    BY <2>2, <2>3, <2>4 DEF Quiet, OnItsWay, Answers
  <2>6. OfItsFlow(r)'
    BY <1>3, <2>2, <2>3 DEF OfItsFlow, IInv, RequestOK, Onward
  <2>7. OldRecord(r)' /\ Undelivered(r)'
    BY <1>2, <2>2, <2>3 DEF OldRecord, Undelivered, Spares, Used, IInv, RequestOK, Onward
  <2>8. \A y, x \in Request : Apart(y, x)'
    BY <2>2, StaysApart DEF IInv, q
  <2> QED
    BY <2>2, <2>5, <2>6, <2>7, <2>8 DEF q, RequestOK
<1>4. CASE req[r].route = "logout"
  <2>1. q = Answer(req[r], NoSession, {}, {})
    BY <1>4 DEF Finished
  <2>2. /\ q \in RequestState /\ q.pc = "answered" /\ q.route = "logout"
        /\ q.shown = req[r].shown /\ q.flow = req[r].flow /\ q.session = NoSession
        /\ q.pointer = NoSession /\ q.add = {} /\ q.clear = {}
    <3>1. /\ req[r] \in RequestState /\ NoSession \in Pointer \cup {Keep}
          /\ {} \in SUBSET Flow /\ req[r].session = NoSession
      BY <1>1, <1>4 DEF Pointer
    <3> HIDE DEF q
    <3> QED
      BY <1>4, <2>1, <3>1, AnswerType
  <2>3. req'[r] = q
    BY Become1 DEF IInv
  <2> HIDE DEF q
  <2>4. Quiet(r)' /\ OnItsWay(r)' /\ Answers(r)' /\ OfItsFlow(r)' /\ Undelivered(r)'
    BY <2>2, <2>3, ValuesAssumption
       DEF Quiet, OnItsWay, Answers, OfItsFlow, Undelivered
  <2>5. OldRecord(r)'
    BY <1>2, <2>2, <2>3 DEF OldRecord, Used, IInv, RequestOK, Onward
  <2>6. \A y, x \in Request : Apart(y, x)'
    BY <1>1, <1>4, <2>2, StaysApart DEF IInv, q
  <2> QED
    BY <1>1, <1>4, <2>2, <2>4, <2>5, <2>6 DEF q, RequestOK
<1> QED
  BY <1>1, <1>3, <1>4

\* A request that goes on while the store stays as it is.
LEMMA MoveStep ==
    ASSUME IInv, NEW r \in Request, NEW pc \in Pc \ {"idle", "answered"},
           Become(r, [req[r] EXCEPT !.pc = pc]), req[r].pc \notin {"idle", "answered"},
           UNCHANGED <<now, jar, flow, record, excused, answered>>,
           entries' \in SUBSET Session, OnItsWay(r)',
           pc \in {"delete_old", "clear_old"} => req[r].shown.pointer \in Session,
           pc = "clear_old" => record[req[r].shown.pointer] = "gone"
    PROVE  IInv'
<1> DEFINE q == [req[r] EXCEPT !.pc = pc]
<1>1. Onward /\ Spares(r)
  BY StoreStays
<1>2. q \in RequestState /\ q.session = req[r].session /\ q.pc # "idle" /\ RequestOK(r)'
  BY <1>1, Moved
<1>3. q.shown = req[r].shown /\ q.add = {}
  BY AtType DEF IInv, TypeOK, RequestOK, Quiet
<1>4. Become(r, q) /\ excused' \in SUBSET Session
  BY DEF IInv, TypeOK
<1> HIDE DEF q
<1> QED
  BY <1>2, <1>3, <1>4, LocalStep

\* Where a request is after it has gone on.
LEMMA OnItsWayMoved ==
    ASSUME IInv, NEW r \in Request, NEW pc \in Pc, Become(r, [req[r] EXCEPT !.pc = pc])
    PROVE  /\ req'[r].pc = pc /\ req'[r].route = req[r].route
           /\ req'[r].session = req[r].session
<1>1. req[r] \in RequestState
  BY DEF IInv, TypeOK
<1>2. req'[r] = [req[r] EXCEPT !.pc = pc]
  BY Become1 DEF IInv
<1> QED
  BY <1>1, <1>2, AtType

LEMMA DecodeStep ==
    ASSUME IInv, NEW r \in Request, DecodeLoginState(r) PROVE IInv'
<1>1. PICK n \in Node : DecodedBy(r, n)
  BY DEF DecodeLoginState
<1>2. /\ req[r].pc = "arrived" /\ req[r].route = "callback" /\ req[r].session = NoSession
      /\ UNCHANGED <<now, jar, flow, record, entries, excused, answered>>
      /\ entries' \in SUBSET Session /\ excused' \in SUBSET Session
  BY DEF DecodeLoginState, ShowsLoginState, IInv, TypeOK, RequestOK, OnItsWay
<1>3. CASE Become(r, [req[r] EXCEPT !.pc = "exchange"])
  <2>1. OnItsWay(r)'
    BY <1>2, <1>3, OnItsWayMoved DEF OnItsWay, Pc
  <2> QED
    BY <1>2, <1>3, <2>1, MoveStep DEF Pc
<1>4. CASE Become(r, CallbackError(req[r]))
  BY <1>2, <1>4, ErrorStep
<1> QED
  BY <1>1, <1>3, <1>4 DEF DecodedBy

LEMMA UnreadableStep ==
    ASSUME IInv, NEW r \in Request, LoginStateUnreadable(r) PROVE IInv'
<1>1. /\ req[r].pc = "arrived" /\ req[r].route = "callback"
      /\ UNCHANGED <<now, jar, flow, record, entries, excused, answered>>
      /\ excused' \in SUBSET Session
      /\ Become(r, CallbackError(req[r]))
  BY DEF LoginStateUnreadable, ShowsLoginState, IInv, TypeOK
<1> QED
  BY <1>1, ErrorStep

\* Redeeming a code disturbs no other flow.
LEMMA Redeemed ==
    ASSUME IInv, NEW f \in Flow, flow[f].stage = "granted",
           flow' = [flow EXCEPT ![f].stage = "redeemed"],
           UNCHANGED <<now, jar, record, excused>>
    PROVE  Onward /\ (\A x \in Request : Spares(x)) /\ flow' \in [Flow -> FlowState]
<1>1. flow \in [Flow -> FlowState]
  BY DEF IInv, TypeOK
<1>2. flow' \in [Flow -> FlowState]
  BY <1>1 DEF FlowState, Stage
<1>3. \A g \in Flow : flow'[g].stage = IF g = f THEN "redeemed" ELSE flow[g].stage
  BY <1>1 DEF FlowState
<1>4. Onward
  BY <1>3 DEF Onward, Back
<1>5. \A x \in Request : Spares(x)
  <2> SUFFICES ASSUME NEW x \in Request PROVE Spares(x)
    OBVIOUS
  <2>1. req[x].add \in SUBSET Flow
    BY RequestFields DEF IInv, TypeOK
  <2> QED
    BY <1>3, <2>1 DEF IInv, RequestOK, OfItsFlow, Undelivered, Spares
<1> QED
  BY <1>2, <1>4, <1>5

LEMMA CompleteGrantStep ==
    ASSUME IInv, NEW r \in Request, CompleteGrant(r) PROVE IInv'
<1>1. /\ req[r].pc = "exchange" /\ req[r].route = "callback" /\ req[r].flow \in Flow
      /\ req[r].session = NoSession
      /\ UNCHANGED <<now, jar, record, entries, excused, answered>>
      /\ excused' \in SUBSET Session
  BY DEF CompleteGrant, IInv, TypeOK, RequestOK, OnItsWay, OfItsFlow
<1>2. CASE UNCHANGED flow /\ Become(r, CallbackError(req[r]))
  BY <1>1, <1>2, ErrorStep
<1>3. CASE /\ flow[req[r].flow].stage = "granted"
           /\ flow' = [flow EXCEPT ![req[r].flow].stage = "redeemed"]
           /\ \/ Become(r, [req[r] EXCEPT !.pc = "insert"])
              \/ Become(r, CallbackError(req[r]))
  <2>1. Onward /\ (\A x \in Request : Spares(x)) /\ flow' \in [Flow -> FlowState]
    BY <1>1, <1>3, Redeemed
  <2>2. PICK q \in RequestState :
          /\ Become(r, q) /\ q.pc # "idle" /\ q.session = req[r].session
          /\ RequestOK(r)' /\ \A y, x \in Request : Apart(y, x)'
    <3>1. CASE Become(r, [req[r] EXCEPT !.pc = "insert"])
      <4>1. OnItsWay(r)'
        BY <1>1, <3>1, OnItsWayMoved DEF OnItsWay, Pc
      <4> QED
        BY <1>1, <2>1, <3>1, <4>1, Moved DEF Pc
    <3>2. CASE Become(r, CallbackError(req[r]))
      BY <1>1, <2>1, <3>2, ErrorAnswer
    <3> QED
      BY <1>3, <3>1, <3>2
  <2>3. TypeOK'
    BY <1>1, <2>1, <2>2, Become1 DEF IInv, TypeOK
  <2> QED
    BY <1>1, <2>1, <2>2, <2>3, NodeStep
<1> QED
  BY <1>2, <1>3 DEF CompleteGrant

\* A record that was never used becomes live: nobody knows it.
LEMMA Inserted ==
    ASSUME IInv, NEW s \in Session, record[s] = "unused",
           record' = [record EXCEPT ![s] = "live"], UNCHANGED <<jar, flow>>,
           excused \subseteq excused'
    PROVE  /\ Onward /\ \A x \in Request : Spares(x)
           /\ record' \in [Session -> {"unused", "live", "gone"}]
           /\ \A x \in Request : req[x].shown.pointer # s /\ req[x].session # s
           /\ jar.pointer # s
           /\ \A t \in Session : record'[t] = "live" => record[t] = "live" \/ t = s
BY DEF IInv, TypeOK, RequestOK, OfItsFlow, OldRecord, Undelivered, Used, Onward, Spares

LEMMA InsertedFields ==
    ASSUME NEW q \in RequestState, NEW s \in Session
    PROVE  /\ [q EXCEPT !.pc = "touch", !.session = s] \in RequestState
           /\ [q EXCEPT !.pc = "touch", !.session = s].pc = "touch"
           /\ [q EXCEPT !.pc = "touch", !.session = s].route = q.route
           /\ [q EXCEPT !.pc = "touch", !.session = s].shown = q.shown
           /\ [q EXCEPT !.pc = "touch", !.session = s].flow = q.flow
           /\ [q EXCEPT !.pc = "touch", !.session = s].session = s
           /\ [q EXCEPT !.pc = "touch", !.session = s].pointer = q.pointer
           /\ [q EXCEPT !.pc = "touch", !.session = s].add = q.add
           /\ [q EXCEPT !.pc = "touch", !.session = s].clear = q.clear
BY DEF RequestState, Pointer, Pc

LEMMA CreateStep ==
    ASSUME IInv, NEW r \in Request, Create(r) PROVE IInv'
<1>1. /\ req[r] \in RequestState /\ req[r].pc = "insert" /\ req[r].route = "callback"
      /\ req[r].session = NoSession /\ req[r].flow \in Flow
      /\ req[r].pointer = Keep /\ req[r].add = {} /\ req[r].clear = {}
      /\ UNCHANGED <<now, jar, flow, entries, answered>>
  BY DEF Create, IInv, TypeOK, RequestOK, OnItsWay, OfItsFlow, Quiet
<1>2. CASE Become(r, CallbackError(req[r])) /\ UNCHANGED <<record, excused>>
  BY <1>1, <1>2, ErrorStep DEF IInv, TypeOK
<1>3. ASSUME NEW s \in Session, record[s] = "unused",
             record' = [record EXCEPT ![s] = "live"],
             Become(r, CallbackError(req[r])), excused' = excused \cup {s}
      PROVE  IInv'
  <2>1. /\ Onward /\ \A x \in Request : Spares(x)
        /\ record' \in [Session -> {"unused", "live", "gone"}]
        /\ \A t \in Session : record'[t] = "live" => record[t] = "live" \/ t \in excused'
    BY <1>1, <1>3, Inserted
  <2>2. /\ CallbackError(req[r]) \in RequestState /\ CallbackError(req[r]).pc # "idle"
        /\ CallbackError(req[r]).session = req[r].session
        /\ RequestOK(r)' /\ \A y, x \in Request : Apart(y, x)'
    BY <1>1, <1>3, <2>1, ErrorAnswer
  <2>3. TypeOK'
    BY <1>1, <1>3, <2>1, <2>2, Become1 DEF IInv, TypeOK
  <2> QED
    BY <1>1, <1>3, <2>1, <2>2, <2>3, NodeStep
<1>4. ASSUME NEW s \in Session, record[s] = "unused",
             record' = [record EXCEPT ![s] = "live"],
             Become(r, [req[r] EXCEPT !.pc = "touch", !.session = s]), UNCHANGED excused
      PROVE  IInv'
  <2> DEFINE q == [req[r] EXCEPT !.pc = "touch", !.session = s]
  <2>1. /\ Onward /\ \A x \in Request : Spares(x)
        /\ record' \in [Session -> {"unused", "live", "gone"}]
        /\ \A x \in Request : req[x].shown.pointer # s /\ req[x].session # s
        /\ jar.pointer # s
        /\ \A t \in Session : record'[t] = "live" => record[t] = "live" \/ t = s
    BY <1>1, <1>4, Inserted
  <2>2. /\ q \in RequestState /\ q.pc = "touch" /\ q.route = "callback"
        /\ q.shown = req[r].shown /\ q.flow = req[r].flow /\ q.session = s
        /\ q.pointer = Keep /\ q.add = {} /\ q.clear = {}
    BY <1>1, InsertedFields
  <2>3. req'[r] = q /\ Become(r, q) /\ \A x \in Request \ {r} : req'[x] = req[x]
    BY <1>4, Become1 DEF IInv
  <2> HIDE DEF q
  <2>4. record'[s] = "live" /\ Used(req[r].shown.pointer) /\ req[r].shown.pointer \in Pointer
    BY <1>1, <1>4, RequestFields DEF IInv, TypeOK, RequestOK, OldRecord
  <2>5. RequestOK(r)'
    <3>1. Quiet(r)' /\ OnItsWay(r)' /\ Answers(r)'
      BY <2>2, <2>3 DEF Quiet, OnItsWay, Answers
    <3>2. OfItsFlow(r)'
      BY <1>1, <2>2, <2>3 DEF OfItsFlow, IInv, RequestOK
    <3>3. OldRecord(r)' /\ Undelivered(r)'
      BY <1>1, <2>1, <2>2, <2>3, <2>4 DEF OldRecord, Undelivered, Used, Onward
    <3> QED
      BY <3>1, <3>2, <3>3 DEF RequestOK
  <2>6. \A y, x \in Request : Apart(y, x)'
    <3> SUFFICES ASSUME NEW y \in Request, NEW x \in Request PROVE Apart(y, x)'
      OBVIOUS
    <3>0. Apart(y, x)
      BY DEF IInv
    <3>1. CASE y = r
      BY <2>1, <2>2, <2>3, <3>1 DEF Apart
    <3>2. CASE y # r /\ x = r
      BY <2>1, <2>2, <2>3, <3>0, <3>2 DEF Apart
    <3>3. CASE y # r /\ x # r
      BY <2>3, <3>0, <3>3 DEF Apart
    <3> QED
      BY <3>1, <3>2, <3>3
  <2>7. TypeOK'
    BY <1>1, <1>4, <2>1, <2>2, <2>3, Become1 DEF IInv, TypeOK
  <2>8. q.pc # "idle" /\ req[r].session \notin Session
    BY <1>1, <2>2, ValuesAssumption
  <2>9. \A t \in Session : record'[t] = "live" =>
           record[t] = "live" \/ t = q.session \/ t \in excused'
    BY <2>1, <2>2
  <2> QED
    BY <1>1, <2>1, <2>2, <2>3, <2>5, <2>6, <2>7, <2>8, <2>9, NodeStep
<1> QED
  BY <1>2, <1>3, <1>4 DEF Create

LEMMA TouchStep ==
    ASSUME IInv, NEW r \in Request, Touch(r) PROVE IInv'
<1>1. /\ req[r].pc = "touch" /\ req[r].route = "callback" /\ req[r].session \in Session
      /\ Become(r, [req[r] EXCEPT !.pc = "load_old"])
      /\ UNCHANGED <<now, jar, flow, record, excused, answered>>
      /\ entries' \in SUBSET Session
  BY DEF Touch, IInv, TypeOK, RequestOK, OnItsWay
<1>2. OnItsWay(r)'
  BY <1>1, OnItsWayMoved DEF OnItsWay, Pc
<1> QED
  BY <1>1, <1>2, MoveStep DEF Pc

LEMMA LogoutStep ==
    ASSUME IInv, NEW r \in Request, Logout(r) PROVE IInv'
<1>1. /\ req[r].pc = "arrived" /\ req[r].route = "logout" /\ req[r].session = NoSession
      /\ Become(r, [req[r] EXCEPT !.pc = "load_old"])
      /\ UNCHANGED <<now, jar, flow, record, excused, answered>>
      /\ entries' \in SUBSET Session
  BY DEF Logout, IInv, TypeOK, RequestOK, OnItsWay
<1>2. OnItsWay(r)'
  BY <1>1, OnItsWayMoved DEF OnItsWay, Pc
<1> QED
  BY <1>1, <1>2, MoveStep DEF Pc

LEMMA RejectOriginStep ==
    ASSUME IInv, NEW r \in Request, RejectOrigin(r) PROVE IInv'
<1> DEFINE q == Answer(req[r], Keep, {}, {})
<1>1. /\ req[r] \in RequestState /\ req[r].route = "logout" /\ req[r].pc = "arrived"
      /\ req[r].session = NoSession
      /\ UNCHANGED <<now, jar, flow, record, entries, excused, answered>>
      /\ Become(r, q)
  BY DEF RejectOrigin, IInv, TypeOK, RequestOK, OnItsWay
<1>2. /\ q \in RequestState /\ q.pc = "answered" /\ q.route = "logout"
      /\ q.shown = req[r].shown /\ q.flow = req[r].flow /\ q.session = req[r].session
      /\ q.pointer = Keep /\ q.add = {} /\ q.clear = {}
  BY <1>1, PlainAnswer
<1>3. req'[r] = q /\ Become(r, q)
  BY <1>1, Become1 DEF IInv
<1> HIDE DEF q
<1>4. RequestOK(r)'
  BY <1>1, <1>2, <1>3, ValuesAssumption
     DEF RequestOK, Quiet, OnItsWay, OfItsFlow, Answers, OldRecord, Undelivered, Used, IInv
<1> QED
  BY <1>1, <1>2, <1>3, <1>4, LocalStep DEF IInv, TypeOK

\* An answer while the store stays as it is.
LEMMA FinishStep ==
    ASSUME IInv, NEW r \in Request, req[r].pc \in {"load_old", "delete_old", "clear_old"},
           Become(r, Finished(req[r])),
           UNCHANGED <<now, jar, flow, record, answered>>,
           entries' \in SUBSET Session, excused \subseteq excused', excused' \in SUBSET Session,
           req[r].shown.pointer \in Session =>
               \/ record[req[r].shown.pointer] = "gone"
               \/ req[r].shown.pointer \in excused'
    PROVE  IInv'
<1>1. Onward /\ Spares(r)
  BY StoreStays
<1>2. /\ Finished(req[r]) \in RequestState
      /\ Finished(req[r]).session = req[r].session
      /\ Finished(req[r]).shown = req[r].shown
      /\ Finished(req[r]).add = {}
      /\ Finished(req[r]).pc # "idle"
      /\ RequestOK(r)'
  BY <1>1, FinishedAnswer
<1> QED
  BY <1>2, LocalStep

LEMMA LoadOldStep ==
    ASSUME IInv, NEW r \in Request, LoadOld(r) PROVE IInv'
<1> DEFINE old == req[r].shown.pointer
<1>1. /\ req[r].pc = "load_old" /\ req[r].route \in {"callback", "logout"}
      /\ req[r].route = "callback" => req[r].session \in Session
      /\ req[r].route = "logout" => req[r].session = NoSession
      /\ old \in Pointer /\ Used(old)
      /\ UNCHANGED <<now, jar, flow, record, entries, answered>>
      /\ entries' \in SUBSET Session /\ excused \in SUBSET Session
  BY RequestFields DEF LoadOld, IInv, TypeOK, RequestOK, OnItsWay, OldRecord
<1>2. CASE old = NoSession /\ Become(r, Finished(req[r])) /\ UNCHANGED excused
  BY <1>1, <1>2, FinishStep, ValuesAssumption
<1>3. CASE IsLive(old) /\ Become(r, [req[r] EXCEPT !.pc = "delete_old"]) /\ UNCHANGED excused
  <2>1. OnItsWay(r)'
    BY <1>1, <1>3, OnItsWayMoved DEF OnItsWay, Pc
  <2> QED
    BY <1>1, <1>3, <2>1, MoveStep DEF Pc, IsLive
<1>4. CASE old # NoSession /\ ~IsLive(old) /\ UNCHANGED excused
           /\ Become(r, IF req[r].route = "callback"
                        THEN [req[r] EXCEPT !.pc = "clear_old"] ELSE Finished(req[r]))
  <2>1. old \in Session /\ record[old] = "gone"
    BY <1>1, <1>4 DEF Used, Pointer, IsLive, IInv, TypeOK
  <2>2. CASE req[r].route = "callback"
    <3>1. OnItsWay(r)'
      BY <1>1, <1>4, <2>2, OnItsWayMoved DEF OnItsWay, Pc
    <3> QED
      BY <1>1, <1>4, <2>1, <2>2, <3>1, MoveStep DEF Pc
  <2>3. CASE req[r].route # "callback"
    BY <1>1, <1>4, <2>1, <2>3, FinishStep
  <2> QED
    BY <2>2, <2>3
<1>5. CASE old # NoSession /\ Become(r, Finished(req[r])) /\ excused' = excused \cup {old}
  <2>1. excused' \in SUBSET Session
    BY <1>1, <1>5 DEF Pointer
  <2> QED
    BY <1>1, <1>5, <2>1, FinishStep
<1> QED
  BY <1>2, <1>3, <1>4, <1>5 DEF LoadOld

\* Removing the record a request was shown disturbs no other request.
LEMMA Removed ==
    ASSUME IInv, NEW r \in Request, req[r].shown.pointer \in Session,
           record' \in {record, [record EXCEPT ![req[r].shown.pointer] = "gone"]},
           UNCHANGED <<jar, flow>>, excused \subseteq excused', Used(req[r].shown.pointer)
    PROVE  /\ Onward /\ \A x \in Request : Spares(x)
           /\ record' \in [Session -> {"unused", "live", "gone"}]
           /\ \A s \in Session : record'[s] = "live" => record[s] = "live"
<1>1. record \in [Session -> {"unused", "live", "gone"}]
  BY DEF IInv, TypeOK
<1>2. \A s \in Session :
         record'[s] = record[s] \/ (s = req[r].shown.pointer /\ record'[s] = "gone")
  <2>1. CASE record' = record
    BY <2>1
  <2>2. CASE record' = [record EXCEPT ![req[r].shown.pointer] = "gone"]
    BY <1>1, <2>2
  <2> QED
    BY <2>1, <2>2
<1>3. \A x \in Request : Spares(x)
  BY <1>2 DEF IInv, RequestOK, OfItsFlow, Undelivered, Apart, Spares
<1> QED
  BY <1>1, <1>2, <1>3 DEF Onward

LEMMA DeleteOldStep ==
    ASSUME IInv, NEW r \in Request, DeleteOld(r) PROVE IInv'
<1> DEFINE old == req[r].shown.pointer
<1>1. /\ req[r].pc = "delete_old" /\ req[r].route \in {"callback", "logout"}
      /\ req[r].route = "callback" => req[r].session \in Session
      /\ req[r].route = "logout" => req[r].session = NoSession
      /\ old \in Session /\ Used(old)
      /\ UNCHANGED <<now, jar, flow, entries, answered>>
      /\ record' \in {record, [record EXCEPT ![old] = "gone"]}
      /\ excused' \in {excused, excused \cup {old}} /\ excused' \in SUBSET Session
  BY RequestFields DEF DeleteOld, IInv, TypeOK, RequestOK, OnItsWay, OldRecord
<1>2. /\ Onward /\ \A x \in Request : Spares(x)
      /\ record' \in [Session -> {"unused", "live", "gone"}]
      /\ \A s \in Session : record'[s] = "live" => record[s] = "live"
  BY <1>1, Removed
<1>3. PICK q \in RequestState :
        /\ Become(r, q) /\ q.pc # "idle" /\ q.session = req[r].session
        /\ RequestOK(r)' /\ \A y, x \in Request : Apart(y, x)'
  <2>1. CASE /\ record' = [record EXCEPT ![old] = "gone"]
             /\ Become(r, [req[r] EXCEPT !.pc = "clear_old"])
    <3>1. OnItsWay(r)'
      BY <1>1, <2>1, OnItsWayMoved DEF OnItsWay, Pc
    <3>2. record'[old] = "gone"
      BY <1>1, <2>1 DEF IInv, TypeOK
    <3>3. /\ "clear_old" \in Pc \ {"idle", "answered"} /\ req[r].pc \notin {"idle", "answered"}
          /\ jar' = jar /\ Onward /\ Spares(r) /\ OnItsWay(r)'
          /\ req[r].shown.pointer \in Session /\ record'[req[r].shown.pointer] = "gone"
      BY <1>1, <1>2, <3>1, <3>2 DEF Pc
    <3> QED
      BY <2>1, <3>3, Moved
  <2>2. CASE Become(r, Finished(req[r])) /\ excused' = excused \cup {old}
    BY <1>1, <1>2, <2>2, FinishedAnswer
  <2> QED
    BY <2>1, <2>2 DEF DeleteOld
<1>4. TypeOK'
  BY <1>1, <1>2, <1>3, Become1 DEF IInv, TypeOK
<1> QED
  BY <1>1, <1>2, <1>3, <1>4, NodeStep

LEMMA ClearOldStep ==
    ASSUME IInv, NEW r \in Request, ClearOld(r) PROVE IInv'
<1>1. /\ req[r].pc = "clear_old" /\ record[req[r].shown.pointer] = "gone"
      /\ UNCHANGED <<now, jar, flow, record, excused, answered>>
      /\ entries' \in SUBSET Session /\ excused' \in SUBSET Session
      /\ Become(r, Finished(req[r]))
  BY DEF ClearOld, IInv, TypeOK, RequestOK, OldRecord
<1> QED
  BY <1>1, FinishStep

\* The start of a flow disturbs no other flow.
LEMMA Started ==
    ASSUME IInv, NEW f \in Flow, NEW n \in Node, flow[f].stage = "unused",
           flow' = [flow EXCEPT ![f] = [stage |-> "started", at |-> now, node |-> n]],
           UNCHANGED <<now, jar, record, excused>>
    PROVE  /\ Onward /\ \A x \in Request : Spares(x)
           /\ flow' \in [Flow -> FlowState] /\ flow'[f].stage = "started"
           /\ \A x \in Request : f \notin req[x].add
<1>1. flow \in [Flow -> FlowState] /\ now \in 0..MaxTime
  BY DEF IInv, TypeOK
<1>2. flow' \in [Flow -> FlowState]
  BY <1>1 DEF FlowState, Stage
<1>3. \A g \in Flow : flow'[g].stage = IF g = f THEN "started" ELSE flow[g].stage
  BY <1>1
<1>4. Onward
  BY <1>3 DEF Onward, Back
<1>5. \A x \in Request : Spares(x) /\ f \notin req[x].add
  <2> SUFFICES ASSUME NEW x \in Request PROVE Spares(x) /\ f \notin req[x].add
    OBVIOUS
  <2>1. req[x].add \in SUBSET Flow
    BY RequestFields DEF IInv, TypeOK
  <2> QED
    BY <1>3, <2>1 DEF IInv, RequestOK, OfItsFlow, Undelivered, Spares
<1> QED
  BY <1>2, <1>3, <1>4, <1>5

\* The answer to a page's request: its pointer, and the flow it starts.
Starts(f, n) ==
    /\ flow[f].stage = "unused"
    /\ flow' = [flow EXCEPT ![f] = [stage |-> "started", at |-> now, node |-> n]]

Answered(r, p, add) ==
    /\ Become(r, Answer(req[r], p, add, {}))
    /\ p = NoSession => ~IsLive(req[r].shown.pointer)
    /\ \/ add = {} /\ UNCHANGED flow
       \/ \E f \in Flow, n \in Node : add = {f} /\ Starts(f, n)

\* What the flows of a response leave alone.
NewFlows(add) ==
    /\ Onward
    /\ \A x \in Request : Spares(x)
    /\ flow' \in [Flow -> FlowState]
    /\ \A f \in add : flow'[f].stage = "started"
    /\ \A x \in Request : add \cap req[x].add = {}

LEMMA PageStep ==
    ASSUME IInv, NEW r \in Request, Page(r) PROVE IInv'
<1>1. /\ req[r] \in RequestState /\ req[r].pc = "arrived" /\ req[r].route = "page"
      /\ req[r].session = NoSession
      /\ req[r].shown.pointer \in Pointer /\ Used(req[r].shown.pointer)
      /\ UNCHANGED <<now, jar, record, entries, excused, answered>>
  BY RequestFields DEF Page, IInv, TypeOK, RequestOK, OnItsWay, OldRecord
<1>2. PICK p \in {Keep, NoSession}, add \in SUBSET Flow : Answered(r, p, add)
  <2> DEFINE pointer == IF req[r].shown.pointer = NoSession THEN Keep ELSE NoSession
  <2>1. CASE IsLive(req[r].shown.pointer)
    BY <2>1, ValuesAssumption DEF Page, Answered
  <2>2. CASE /\ ~IsLive(req[r].shown.pointer)
             /\ Become(r, Answer(req[r], pointer, {}, {})) /\ UNCHANGED flow
    <3>1. pointer \in {Keep, NoSession}
      OBVIOUS
    <3> HIDE DEF pointer
    <3> QED
      BY <2>2, <3>1 DEF Answered
  <2>3. ASSUME NEW f \in Flow, NEW n \in Node,
               ~IsLive(req[r].shown.pointer), Starts(f, n),
               Become(r, Answer(req[r], pointer, {f}, {}))
        PROVE  \E p \in {Keep, NoSession}, add \in SUBSET Flow : Answered(r, p, add)
    <3>1. {f} \in SUBSET Flow /\ pointer \in {Keep, NoSession}
      OBVIOUS
    <3> HIDE DEF pointer
    <3> QED
      BY <2>3, <3>1 DEF Answered
  <2> QED
    BY <2>1, <2>2, <2>3 DEF Page, Starts
<1> DEFINE q == Answer(req[r], p, add, {})
<1>3. /\ q \in RequestState /\ q.pc = "answered" /\ q.route = "page"
      /\ q.shown = req[r].shown /\ q.flow = req[r].flow /\ q.session = req[r].session
      /\ q.pointer = p /\ q.add = add /\ q.clear = {}
  <2>1. /\ req[r] \in RequestState /\ p \in Pointer \cup {Keep}
        /\ add \in SUBSET Flow /\ {} \in SUBSET Flow
        /\ req[r].route = "page" /\ q = Answer(req[r], p, add, {})
    BY <1>1, <1>2 DEF Pointer
  <2> HIDE DEF q
  <2> QED
    BY <2>1, AnswerType
<1>4. NewFlows(add)
  <2>1. CASE add = {} /\ UNCHANGED flow
    BY <1>1, <2>1, StoreStays DEF IInv, TypeOK, NewFlows
  <2>2. ASSUME NEW f \in Flow, NEW n \in Node, add = {f}, Starts(f, n)
        PROVE  NewFlows(add)
    BY <1>1, <2>2, Started DEF NewFlows, Starts
  <2> QED
    BY <1>2, <2>1, <2>2 DEF Answered
<1>5. req'[r] = q /\ Become(r, q) /\ \A x \in Request \ {r} : req'[x] = req[x]
  BY <1>2, Become1 DEF IInv, Answered
<1> HIDE DEF q
<1>6. p = NoSession /\ req[r].shown.pointer \in Session => record[req[r].shown.pointer] = "gone"
  BY <1>1, <1>2 DEF Answered, IsLive, Used, IInv, TypeOK
<1>7. RequestOK(r)'
  <2>1. Quiet(r)' /\ OnItsWay(r)' /\ OfItsFlow(r)' /\ OldRecord(r)' /\ Undelivered(r)'
    BY <1>1, <1>3, <1>4, <1>5, ValuesAssumption
       DEF NewFlows, Quiet, OnItsWay, OfItsFlow, OldRecord, Undelivered, Used
  <2>2. Answers(r)'
    BY <1>1, <1>2, <1>3, <1>5, <1>6, ValuesAssumption DEF Answers
  <2> QED
    BY <2>1, <2>2 DEF RequestOK
<1>8. \A y, x \in Request : Apart(y, x)'
  <2> SUFFICES ASSUME NEW y \in Request, NEW x \in Request PROVE Apart(y, x)'
    OBVIOUS
  <2>0. Apart(y, x) /\ Apart(r, x) /\ Apart(y, r)
    BY DEF IInv
  <2>1. CASE y = r
    BY <1>1, <1>3, <1>4, <1>5, <2>0, <2>1, ValuesAssumption DEF Apart, NewFlows
  <2>2. CASE y # r /\ x = r
    BY <1>1, <1>3, <1>4, <1>5, <2>0, <2>2, ValuesAssumption DEF Apart, NewFlows
  <2>3. CASE y # r /\ x # r
    BY <1>5, <2>0, <2>3 DEF Apart
  <2> QED
    BY <2>1, <2>2, <2>3
<1>9. TypeOK'
  BY <1>1, <1>3, <1>4, <1>5, Become1 DEF NewFlows, IInv, TypeOK
<1> QED
  BY <1>1, <1>3, <1>4, <1>5, <1>7, <1>8, <1>9, NodeStep DEF NewFlows

-----------------------------------------------------------------------------
(* Steps of the browser and of the authorization server *)

LEMMA NewRequest ==
    ASSUME NEW route \in {"page", "logout"}, NEW p \in Pointer
    PROVE  LET q == [Idle EXCEPT !.pc = "arrived", !.route = route, !.shown.pointer = p]
           IN  /\ q \in RequestState /\ q.pc = "arrived" /\ q.route = route
               /\ q.shown.pointer = p /\ q.session = NoSession
               /\ q.pointer = Keep /\ q.add = {} /\ q.clear = {}
BY DEF Idle, RequestState, Pointer, Jar, Pc

LEMMA NewCallback ==
    ASSUME NEW f \in Flow, NEW j \in Jar
    PROVE  LET q == [Idle EXCEPT !.pc = "arrived", !.route = "callback",
                                 !.shown = j, !.flow = f]
           IN  /\ q \in RequestState /\ q.pc = "arrived" /\ q.route = "callback"
               /\ q.shown.pointer = j.pointer /\ q.session = NoSession
               /\ q.flow = f /\ q.pointer = Keep /\ q.add = {} /\ q.clear = {}
BY DEF Idle, RequestState, Pointer, Pc

LEMMA SendStep ==
    ASSUME IInv, NEW r \in Request, Send(r) PROVE IInv'
<1>1. /\ UNCHANGED <<now, jar, flow, record, entries, excused, answered>>
      /\ jar \in Jar /\ jar.pointer \in Pointer /\ Used(jar.pointer)
      /\ req[r].session = NoSession
  BY DEF Send, IInv, TypeOK, RequestOK, OnItsWay, Jar
<1>2. PICK q \in RequestState :
        /\ Become(r, q) /\ q.pc = "arrived" /\ q.shown.pointer = jar.pointer
        /\ q.session = NoSession /\ q.pointer = Keep /\ q.add = {} /\ q.clear = {}
        /\ q.route = "callback" => q.flow \in Flow /\ flow[q.flow].stage \in Back
  <2>1. ASSUME NEW route \in {"page", "logout"},
               Become(r, [Idle EXCEPT !.pc = "arrived", !.route = route,
                                      !.shown.pointer = jar.pointer])
        PROVE  \E q \in RequestState :
                 /\ Become(r, q) /\ q.pc = "arrived" /\ q.shown.pointer = jar.pointer
                 /\ q.session = NoSession /\ q.pointer = Keep /\ q.add = {} /\ q.clear = {}
                 /\ q.route = "callback" => q.flow \in Flow /\ flow[q.flow].stage \in Back
    BY <1>1, <2>1, NewRequest
  <2>2. ASSUME NEW f \in Flow, flow[f].stage \in {"granted", "redeemed", "denied"},
               Become(r, [Idle EXCEPT !.pc = "arrived", !.route = "callback",
                                      !.shown = jar, !.flow = f])
        PROVE  \E q \in RequestState :
                 /\ Become(r, q) /\ q.pc = "arrived" /\ q.shown.pointer = jar.pointer
                 /\ q.session = NoSession /\ q.pointer = Keep /\ q.add = {} /\ q.clear = {}
                 /\ q.route = "callback" => q.flow \in Flow /\ flow[q.flow].stage \in Back
    <3> DEFINE q == [Idle EXCEPT !.pc = "arrived", !.route = "callback",
                                 !.shown = jar, !.flow = f]
    <3>1. /\ q \in RequestState /\ q.pc = "arrived" /\ q.route = "callback"
          /\ q.shown.pointer = jar.pointer /\ q.session = NoSession
          /\ q.flow = f /\ q.pointer = Keep /\ q.add = {} /\ q.clear = {}
      BY <1>1, NewCallback
    <3>2. Become(r, q)
      BY <2>2
    <3> HIDE DEF q
    <3> QED
      BY <2>2, <3>1, <3>2 DEF Back
  <2> QED
    BY <2>1, <2>2 DEF Send
<1>3. req'[r] = q
  BY <1>2, Become1 DEF IInv
<1>4. RequestOK(r)'
  BY <1>1, <1>2, <1>3, ValuesAssumption
     DEF RequestOK, Quiet, OnItsWay, OfItsFlow, Answers, OldRecord, Undelivered, Used
<1>5. \A x \in Request : req[x].session \in Session => q.shown.pointer # req[x].session
  BY <1>2 DEF IInv, RequestOK, Undelivered
<1>6. \A y, x \in Request : Apart(y, x)'
  BY <1>1, <1>2, <1>5, StaysApart, ValuesAssumption DEF IInv
<1>7. Onward /\ \A x \in Request : Spares(x)
  BY <1>1, StoreStays
<1>8. TypeOK'
  BY <1>1, <1>2, Become1 DEF IInv, TypeOK
<1> QED
  BY <1>1, <1>2, <1>4, <1>6, <1>7, <1>8, NodeStep

\* A slot that is free again.
LEMMA Freed ==
    ASSUME IInv, NEW r \in Request, Become(r, Idle)
    PROVE  /\ req' \in [Request -> RequestState] /\ req'[r] = Idle
           /\ \A x \in Request \ {r} : req'[x] = req[x]
           /\ RequestOK(r)' /\ \A y, x \in Request : Apart(y, x)'
<1>1. /\ Idle.pc = "idle" /\ Idle.route = "page" /\ Idle.shown.pointer = NoSession
      /\ Idle.session = NoSession /\ Idle.pointer = Keep /\ Idle.add = {} /\ Idle.clear = {}
  BY DEF Idle
<1>2. /\ req' \in [Request -> RequestState] /\ req'[r] = Idle
      /\ \A x \in Request \ {r} : req'[x] = req[x]
  BY Become1, IdleType DEF IInv
<1>3. RequestOK(r)'
  BY <1>1, <1>2, ValuesAssumption
     DEF RequestOK, Quiet, OnItsWay, OfItsFlow, Answers, OldRecord, Undelivered, Used
<1>4. \A x \in Request : req[x].session \in Session => Idle.shown.pointer # req[x].session
  BY <1>1, ValuesAssumption
<1>5. \A y, x \in Request : Apart(y, x)'
  BY <1>1, <1>4, StaysApart, ValuesAssumption DEF IInv
<1> QED
  BY <1>2, <1>3, <1>5

LEMMA LoseStep ==
    ASSUME IInv, NEW r \in Request, Lose(r) PROVE IInv'
<1>1. /\ excused' = excused \cup ({req[r].session} \cap Session) /\ Become(r, Idle)
      /\ UNCHANGED <<now, jar, flow, record, entries, answered>>
  BY DEF Lose
<1>2. /\ req' \in [Request -> RequestState] /\ req'[r] = Idle
      /\ \A x \in Request \ {r} : req'[x] = req[x]
      /\ RequestOK(r)' /\ \A y, x \in Request : Apart(y, x)'
  BY <1>1, Freed
<1>3. \A x \in Request : RequestOK(x)'
  BY <1>1, <1>2, StoreStays, Others DEF IInv
<1>4. TypeOK'
  BY <1>1, <1>2 DEF IInv, TypeOK
<1>5. Used(jar.pointer)' /\ AnsweredAreBack' /\ FlowsDoNotReplay'
  BY <1>1 DEF IInv, Used, AnsweredAreBack, FlowsDoNotReplay
<1>6. OrphansAreExplained'
  BY <1>1, <1>2 DEF IInv, OrphansAreExplained
<1> QED
  BY <1>2, <1>3, <1>4, <1>5, <1>6 DEF IInv

LEMMA DeliverStep ==
    ASSUME IInv, NEW r \in Request, Deliver(r) PROVE IInv'
<1> DEFINE q == req[r]
<1>1. /\ q \in RequestState /\ q.pc = "answered" /\ Become(r, Idle)
      /\ UNCHANGED <<now, record, entries>>
      /\ q.add \in SUBSET Flow /\ q.clear \in SUBSET Flow
      /\ q.session \in Pointer /\ q.pointer \in Pointer \cup {Keep}
      /\ RequestOK(r)
  BY RequestFields DEF Deliver, IInv, TypeOK
<1>2. /\ req' \in [Request -> RequestState] /\ req'[r] = Idle
      /\ \A x \in Request \ {r} : req'[x] = req[x]
      /\ RequestOK(r)' /\ \A y, x \in Request : Apart(y, x)'
  BY <1>1, Freed
<1>3. /\ jar \in Jar /\ jar' \in Jar
      /\ jar'.pointer = IF q.pointer = Keep THEN jar.pointer ELSE q.pointer
      /\ jar'.login = (jar.login \ q.clear) \cup q.add
  BY <1>1 DEF Deliver, IInv, TypeOK, Jar
<1>4. /\ flow' \in [Flow -> FlowState]
      /\ \A f \in Flow \ q.add : flow'[f] = flow[f]
      /\ \A f \in q.add : flow[f].stage = "started"
  <2>1. \A f \in Flow : [flow[f] EXCEPT !.stage = "sent"] \in FlowState
    BY DEF IInv, TypeOK, FlowState, Stage
  <2>2. flow' = [f \in Flow |->
                   IF f \in q.add THEN [flow[f] EXCEPT !.stage = "sent"] ELSE flow[f]]
    BY DEF Deliver
  <2> QED
    BY <1>1, <2>1, <2>2 DEF IInv, TypeOK, RequestOK, OfItsFlow
<1>5. excused \subseteq excused' /\ excused' \in SUBSET Session
  BY DEF Deliver, IInv, TypeOK
<1>6. Onward
  BY <1>1, <1>4, <1>5 DEF Onward, Back
<1>7. ASSUME NEW x \in Request, x # r PROVE Spares(x)
  <2>1. Apart(r, x) /\ Apart(x, r) /\ RequestOK(x) /\ req[x].add \in SUBSET Flow
    BY RequestFields DEF IInv, TypeOK
  <2>2. req[x].session \in Session => jar'.pointer # req[x].session
    BY <1>1, <1>3, <1>7, <2>1, ValuesAssumption
       DEF Apart, RequestOK, Answers, Undelivered, Pointer
  <2>3. \A f \in req[x].add : flow'[f].stage = "started"
    BY <1>4, <1>7, <2>1 DEF Apart, RequestOK, OfItsFlow
  <2> QED
    BY <1>1, <2>1, <2>2, <2>3 DEF Spares, RequestOK, Undelivered
<1>8. \A x \in Request : RequestOK(x)'
  BY <1>2, <1>6, <1>7, Others DEF IInv
<1>9. Used(jar.pointer)'
  BY <1>1, <1>3, ValuesAssumption DEF IInv, RequestOK, Answers, Undelivered, Used, Pointer
<1>10. \A f \in answered' : f \in answered \/
           (f = q.flow /\ f \in q.shown.login /\ flow[f].stage # "denied" /\ q.route = "callback")
  BY DEF Deliver
<1>11. answered' \in SUBSET Flow /\ AnsweredAreBack'
  <2>1. \A f \in answered' : f \in Flow /\ flow[f].stage \in Back
    BY <1>1, <1>10 DEF IInv, TypeOK, AnsweredAreBack, RequestOK, OfItsFlow
  <2> QED
    BY <2>1, <1>6 DEF AnsweredAreBack, Onward
<1>12. FlowsDoNotReplay'
  <2>1. ASSUME NEW f \in answered', f \in jar'.login PROVE FALSE
    <3>1. flow[f].stage \in Back
      BY <1>1, <1>10 DEF IInv, AnsweredAreBack, RequestOK, OfItsFlow
    <3>2. f \notin q.add
      BY <1>4, <3>1 DEF Back
    <3>3. f \in jar.login /\ f \notin q.clear
      BY <1>3, <2>1, <3>2
    <3>4. f \notin answered
      BY <3>3 DEF IInv, FlowsDoNotReplay
    <3> QED
      BY <1>1, <1>10, <3>3, <3>4 DEF RequestOK, Answers
  <2> QED
    BY <2>1 DEF FlowsDoNotReplay
<1>13. OrphansAreExplained'
  <2> SUFFICES ASSUME NEW s \in Session, record[s] = "live"
               PROVE  \/ s = jar'.pointer
                      \/ \E x \in Request : req'[x].pc # "idle" /\ req'[x].session = s
                      \/ s \in excused'
    BY <1>1 DEF OrphansAreExplained
  <2>1. CASE s \in excused
    BY <1>5, <2>1
  <2>2. CASE s = jar.pointer /\ q.pointer = Keep
    BY <1>3, <2>2
  <2>3. CASE s = jar.pointer /\ q.pointer # Keep
    <3>1. CASE jar.pointer = q.shown.pointer
      BY <1>1, <2>3, <3>1 DEF RequestOK, Answers, Deliver
    <3>2. CASE jar.pointer # q.shown.pointer
      BY <2>3, <3>2 DEF Deliver
    <3> QED
      BY <3>1, <3>2
  <2>4. ASSUME NEW x \in Request, req[x].pc # "idle", req[x].session = s
        PROVE  \/ s = jar'.pointer
               \/ \E y \in Request : req'[y].pc # "idle" /\ req'[y].session = s
    <3>1. CASE x = r
      BY <1>1, <1>3, <2>4, <3>1, ValuesAssumption DEF RequestOK, Answers
    <3>2. CASE x # r
      BY <1>2, <2>4, <3>2
    <3> QED
      BY <3>1, <3>2
  <2> QED
    BY <2>1, <2>2, <2>3, <2>4 DEF IInv, OrphansAreExplained
<1>14. TypeOK'
  BY <1>1, <1>2, <1>3, <1>4, <1>5, <1>11 DEF IInv, TypeOK
<1> QED
  BY <1>2, <1>8, <1>9, <1>11, <1>12, <1>13, <1>14 DEF IInv

\* Steps that leave requests and records alone.
LEMMA OutsideStep ==
    ASSUME IInv, UNCHANGED <<record, req, excused, answered>>, TypeOK', Onward,
           jar'.pointer = jar.pointer, jar'.login \subseteq jar.login,
           \A f \in Flow : flow[f].stage = "started" => flow'[f].stage = "started"
    PROVE  IInv'
<1>1. ASSUME NEW x \in Request PROVE RequestOK(x)'
  <2>1. req[x].add \in SUBSET Flow /\ RequestOK(x) /\ req'[x] = req[x] /\ TypeOK
    BY RequestFields DEF IInv, TypeOK
  <2>2. Spares(x)
    BY <2>1 DEF RequestOK, OfItsFlow, Undelivered, Spares
  <2> QED
    BY <2>1, <2>2, Others
<1>2. (\A y, x \in Request : Apart(y, x)') /\ Used(jar.pointer)' /\ OrphansAreExplained'
  BY DEF IInv, Apart, Used, OrphansAreExplained
<1>3. AnsweredAreBack' /\ FlowsDoNotReplay'
  BY DEF IInv, TypeOK, AnsweredAreBack, FlowsDoNotReplay, Onward
<1> QED
  BY <1>1, <1>2, <1>3 DEF IInv

LEMMA ServerAnswersStep ==
    ASSUME IInv, NEW f \in Flow, ServerAnswers(f) PROVE IInv'
<1>1. PICK stage \in {"granted", "denied"} : flow' = [flow EXCEPT ![f].stage = stage]
  BY DEF ServerAnswers
<1>2. /\ flow[f].stage = "sent" /\ flow \in [Flow -> FlowState]
      /\ UNCHANGED <<now, jar, record, entries, req, excused, answered>>
  BY DEF ServerAnswers, IInv, TypeOK
<1>3. flow' \in [Flow -> FlowState]
  BY <1>1, <1>2 DEF FlowState, Stage
<1>4. \A g \in Flow : flow'[g].stage = IF g = f THEN stage ELSE flow[g].stage
  BY <1>1, <1>2 DEF FlowState
<1>5. TypeOK'
  BY <1>2, <1>3 DEF IInv, TypeOK
<1>6. Onward
  BY <1>2, <1>4 DEF Onward, Back
<1> QED
  BY <1>2, <1>4, <1>5, <1>6, OutsideStep

LEMMA LoginCookieGoesStep ==
    ASSUME IInv, NEW f \in Flow, LoginCookieGoes(f) PROVE IInv'
<1>1. /\ UNCHANGED <<now, flow, record, entries, req, excused, answered>>
      /\ jar' \in Jar /\ jar'.pointer = jar.pointer /\ jar'.login \subseteq jar.login
  BY DEF LoginCookieGoes, IInv, TypeOK, Jar
<1>2. TypeOK' /\ Onward
  BY <1>1 DEF IInv, TypeOK, Onward
<1> QED
  BY <1>1, <1>2, OutsideStep

LEMMA TickStep ==
    ASSUME IInv, Tick PROVE IInv'
<1>1. /\ UNCHANGED <<jar, flow, record, entries, req, excused, answered>>
      /\ now' \in 0..MaxTime
  BY ClockAssumption DEF Tick, IInv, TypeOK
<1>2. TypeOK' /\ Onward
  BY <1>1 DEF IInv, TypeOK, Onward
<1> QED
  BY <1>1, <1>2, OutsideStep

-----------------------------------------------------------------------------
(* The invariant *)

LEMMA Start == Init => IInv
<1> SUFFICES ASSUME Init PROVE IInv
  OBVIOUS
<1>1. PICK s \in Session :
        /\ record = [t \in Session |-> IF t = s THEN "live" ELSE "unused"]
        /\ entries = {s} /\ jar = [pointer |-> s, login |-> {}]
  BY DEF Init
<1>2. PICK n \in Node :
        flow = [f \in Flow |-> [stage |-> "unused", at |-> 0, node |-> n]]
  BY DEF Init
<1>3. now = 0 /\ req = [r \in Request |-> Idle] /\ excused = {} /\ answered = {}
  BY DEF Init
<1>4. TypeOK
  BY <1>1, <1>2, <1>3, IdleType, ClockAssumption
     DEF TypeOK, Jar, Pointer, FlowState, Stage
<1>5. /\ Idle.pc = "idle" /\ Idle.route = "page" /\ Idle.shown.pointer = NoSession
      /\ Idle.session = NoSession /\ Idle.pointer = Keep /\ Idle.add = {} /\ Idle.clear = {}
  BY DEF Idle
<1>6. \A r \in Request : RequestOK(r)
  BY <1>3, <1>5, ValuesAssumption
     DEF RequestOK, Quiet, OnItsWay, OfItsFlow, Answers, OldRecord, Undelivered, Used
<1>7. \A r, x \in Request : Apart(r, x)
  BY <1>3, <1>5, ValuesAssumption DEF Apart
<1>8. Used(jar.pointer) /\ AnsweredAreBack /\ FlowsDoNotReplay /\ OrphansAreExplained
  BY <1>1, <1>3 DEF Used, AnsweredAreBack, FlowsDoNotReplay, OrphansAreExplained
<1> QED
  BY <1>4, <1>6, <1>7, <1>8 DEF IInv

LEMMA Step == IInv /\ [Next]_vars => IInv'
<1> SUFFICES ASSUME IInv, [Next]_vars PROVE IInv'
  OBVIOUS
<1>1. CASE UNCHANGED vars
  <2>1. TypeOK' /\ Onward
    BY <1>1 DEF vars, IInv, TypeOK, Onward
  <2> QED
    BY <1>1, <2>1, OutsideStep DEF vars
<1>2. ASSUME NEW r \in Request, RequestNext(r) PROVE IInv'
  BY <1>2, SendStep, DeliverStep, LoseStep, PageStep, HandleAsErrorStep, NoLoginStateStep,
     DecodeStep, UnreadableStep, CompleteGrantStep, CreateStep, TouchStep, RejectOriginStep,
     LogoutStep, LoadOldStep, DeleteOldStep, ClearOldStep DEF RequestNext
<1>3. ASSUME NEW f \in Flow, ServerAnswers(f) \/ LoginCookieGoes(f) PROVE IInv'
  BY <1>3, ServerAnswersStep, LoginCookieGoesStep
<1>4. CASE Tick
  BY <1>4, TickStep
<1> QED
  BY <1>1, <1>2, <1>3, <1>4 DEF Next

\* IInv holds in every state of every behaviour of LoginFlow.
THEOREM Invariance == Spec => []IInv
BY Start, Step, PTL DEF Spec

-----------------------------------------------------------------------------
(* Theorems *)

\* Every variable stays within its declared set, in every state of the flow.
THEOREM TypeCorrect == Spec => []TypeOK
<1>1. IInv => TypeOK
  BY DEF IInv
<1> QED
  BY <1>1, Invariance, PTL

\* Once a callback that showed its login state is answered, no request of this
\* browser shows that state again (handle_callback).
THEOREM NoReplay == Spec => []FlowsDoNotReplay
<1>1. IInv => FlowsDoNotReplay
  BY DEF IInv
<1> QED
  BY <1>1, Invariance, PTL

\* Live records have a browser, a login under way, or a known reason not to
\* (delete_superseded_session, revoke_session).
THEOREM NoUnexplainedOrphans == Spec => []OrphansAreExplained
<1>1. IInv => OrphansAreExplained
  BY DEF IInv
<1> QED
  BY <1>1, Invariance, PTL

\* A successful callback answers with the pointer of a live record, and no
\* other request removes this record before the answer arrives.
THEOREM LoginsReachTheBrowser == Spec => []LoginsHold
<1>1. IInv => LoginsHold
  BY DEF IInv, RequestOK, Answers, Undelivered, LoginsHold, IsLive
<1> QED
  BY <1>1, Invariance, PTL

\* The answer to one tab's callback takes away another tab's login state only
\* when the browser has a session (login_state_sweep, callback_error).
THEOREM IndependentTabs == Spec => TabsAreIndependent
<1>1. ASSUME IInv, NEW r \in Request, Deliver(r), NEW f \in jar.login \ jar'.login
      PROVE  \/ f = req[r].flow
             \/ req[r].session # NoSession
             \/ req[r].shown.pointer # NoSession
  BY <1>1 DEF Deliver, IInv, RequestOK, Answers
<1>2. IInv /\ [Next]_vars =>
         [\A r \in Request : Deliver(r) =>
             \A f \in jar.login \ jar'.login :
                \/ f = req[r].flow
                \/ req[r].session # NoSession
                \/ req[r].shown.pointer # NoSession]_vars
  BY <1>1
<1> QED
  BY <1>2, Invariance, PTL DEF Spec, TabsAreIndependent

\* A record is removed only for a logout that showed it or by a login whose
\* own record is live (SessionDriver::create, handle_logout).
LEMMA RecordGoesForCause ==
    ASSUME IInv, Next, NEW s \in Session, record[s] = "live", record'[s] = "gone"
    PROVE  \E r \in Request :
              /\ req[r].shown.pointer = s
              /\ req[r].route = "logout" \/ IsLive(req[r].session)
<1>1. PICK r \in Request : Create(r) \/ DeleteOld(r)
  BY DEF Next, RequestNext, Send, Deliver, Lose, Page, HandleAsError, NoLoginState,
     DecodeLoginState, LoginStateUnreadable, CompleteGrant, Touch, RejectOrigin, Logout,
     LoadOld, ClearOld, ServerAnswers, LoginCookieGoes, Tick
<1>2. ~Create(r)
  BY DEF Create, IInv, TypeOK
<1>3. req[r].shown.pointer = s
  BY <1>1, <1>2 DEF DeleteOld, IInv, TypeOK
<1>4. req[r].route = "logout" \/ IsLive(req[r].session)
  <2>1. req[r] \in RequestState /\ req[r].pc = "delete_old" /\ RequestOK(r)
    BY <1>1, <1>2 DEF DeleteOld, IInv, TypeOK
  <2> QED
    BY <2>1, RequestFields DEF RequestOK, OnItsWay, Undelivered, IsLive
<1> QED
  BY <1>3, <1>4

\* A liveness entry is cleared only when its record is gone
\* (delete_superseded_session, revoke_session).
LEMMA EntryGoesAfterRecord ==
    ASSUME IInv, Next, NEW s \in entries \ entries' PROVE record[s] = "gone"
<1>1. PICK r \in Request : Touch(r) \/ ClearOld(r)
  BY <1>1 DEF Next, RequestNext, Send, Deliver, Lose, Page, HandleAsError, NoLoginState,
     DecodeLoginState, LoginStateUnreadable, CompleteGrant, Create, RejectOrigin, Logout,
     LoadOld, DeleteOld, ServerAnswers, LoginCookieGoes, Tick
<1>2. ClearOld(r) /\ s = req[r].shown.pointer
  BY <1>1 DEF Touch, ClearOld
<1> QED
  BY <1>1, <1>2 DEF ClearOld, IInv, RequestOK, OldRecord

\* Old sessions go for cause, and their liveness entries after them.
THEOREM OldSessionsAreKept == Spec => OldSessionsGoInOrder
<1>1. IInv /\ [Next]_vars =>
         [\A s \in Session :
             /\ record[s] = "live" /\ record'[s] = "gone" =>
                   \E r \in Request :
                      /\ req[r].shown.pointer = s
                      /\ req[r].route = "logout" \/ IsLive(req[r].session)
             /\ s \in entries \ entries' => record[s] = "gone"]_vars
  BY RecordGoesForCause, EntryGoesAfterRecord
<1> QED
  BY <1>1, Invariance, PTL DEF Spec, OldSessionsGoInOrder

-----------------------------------------------------------------------------
(* The time of a login *)

\* No flow was started in the future.
StartsPast == \A f \in Flow : flow[f].at <= now

LEMMA StartsStayPast == IInv /\ IInv' /\ StartsPast /\ [Next]_vars => StartsPast'
<1> SUFFICES ASSUME IInv, IInv', StartsPast, [Next]_vars PROVE StartsPast'
  OBVIOUS
<1>1. /\ now \in Nat /\ flow \in [Flow -> FlowState]
      /\ \A f \in Flow : flow[f].at \in Nat
  BY ClockAssumption DEF IInv, TypeOK, FlowState
<1>2. CASE UNCHANGED <<now, flow>>
  BY <1>2 DEF StartsPast
<1>3. CASE Tick
  BY <1>1, <1>3 DEF Tick, StartsPast
<1>4. ASSUME NEW f \in Flow, ServerAnswers(f) PROVE StartsPast'
  <2>1. now' = now /\ \A g \in Flow : flow'[g].at = flow[g].at
    BY <1>1, <1>4 DEF ServerAnswers, FlowState
  <2> QED
    BY <2>1 DEF StartsPast
<1>5. ASSUME NEW r \in Request, Page(r) \/ CompleteGrant(r) \/ Deliver(r) PROVE StartsPast'
  <2>1. CASE CompleteGrant(r) \/ Deliver(r)
    <3>1. now' = now /\ \A g \in Flow : flow'[g].at = flow[g].at
      BY <1>1, <2>1 DEF CompleteGrant, Deliver, FlowState
    <3> QED
      BY <3>1 DEF StartsPast
  <2>2. CASE Page(r)
    <3>1. now' = now
      BY <2>2 DEF Page
    <3>2. \A g \in Flow : flow'[g].at = flow[g].at \/ flow'[g].at = now
      <4>1. UNCHANGED flow \/ \E f \in Flow, n \in Node : Starts(f, n)
        BY <2>2 DEF Page, Starts
      <4>2. ASSUME NEW f \in Flow, NEW n \in Node, Starts(f, n), NEW g \in Flow
            PROVE  flow'[g].at = flow[g].at \/ flow'[g].at = now
        <5>1. flow'[g] = IF g = f THEN [stage |-> "started", at |-> now, node |-> n]
                         ELSE flow[g]
          BY <1>1, <4>2 DEF Starts
        <5> QED
          BY <5>1
      <4> QED
        BY <4>1, <4>2
    <3> QED
      BY <1>1, <3>1, <3>2 DEF StartsPast
  <2> QED
    BY <1>5, <2>1, <2>2
<1> QED
  BY <1>2, <1>3, <1>4, <1>5
     DEF vars, Next, RequestNext, Send, Lose, HandleAsError, NoLoginState, DecodeLoginState,
         LoginStateUnreadable, Create, Touch, RejectOrigin, Logout, LoadOld, DeleteOld,
         ClearOld, LoginCookieGoes

\* The arithmetic of decode_login_state, with clocks that run apart.
LEMMA AcceptedInTime ==
    ASSUME NEW n \in Nat, NEW at \in Nat, at <= n, NEW mine \in Nat, NEW theirs \in Nat
    PROVE  /\ LoginStateAccepted(at + theirs, n + mine)
                => n - at <= LoginStateTtl + (theirs - mine)
           /\ theirs - mine <= MaxClockSkew /\ n - at <= LoginStateTtl + (theirs - mine)
                => LoginStateAccepted(at + theirs, n + mine)
BY ClockAssumption DEF LoginStateAccepted, IsTooFarFuture, ElapsedSince

\* A login completes within login_state_ttl, give or take the difference of two
\* clocks, and is not refused before that (decode_login_state).
THEOREM LoginsAreTimely == Spec => LoginsHaveTheirTime
<1>1. ASSUME IInv, StartsPast, NEW r \in Request, NEW n \in Node,
             DecodeLoginState(r), DecodedBy(r, n)
      PROVE  LET f == req[r].flow
                 age == now - flow[f].at
                 ahead == Offset[flow[f].node] - Offset[n]
             IN  /\ req'[r].pc = "exchange" => age <= LoginStateTtl + ahead
                 /\ ahead <= MaxClockSkew /\ age <= LoginStateTtl + ahead
                       => req'[r].pc = "exchange"
  <2> DEFINE f == req[r].flow
             accepted == LoginStateAccepted(flow[f].at + Offset[flow[f].node], now + Offset[n])
  <2>1. /\ req[r] \in RequestState /\ f \in Flow /\ flow[f] \in FlowState
        /\ now \in Nat
    BY <1>1, ClockAssumption
       DEF IInv, TypeOK, RequestOK, OfItsFlow, DecodeLoginState, ShowsLoginState
  <2>2. flow[f].at \in Nat /\ flow[f].at <= now /\ flow[f].node \in Node
    BY <1>1, <2>1 DEF StartsPast, FlowState
  <2>3. Offset[n] \in Nat /\ Offset[flow[f].node] \in Nat
    BY <2>2, ClockAssumption
  <2>4. req'[r].pc = "exchange" <=> accepted
    <3>1. CASE accepted
      <4>1. Become(r, [req[r] EXCEPT !.pc = "exchange"])
        BY <1>1, <3>1 DEF DecodedBy, CreatedAt, Clock
      <4> QED
        BY <1>1, <3>1, <4>1, OnItsWayMoved DEF Pc
    <3>2. CASE ~accepted
      <4>1. Become(r, CallbackError(req[r]))
        BY <1>1, <3>2 DEF DecodedBy, CreatedAt, Clock
      <4>2. req'[r] = CallbackError(req[r])
        BY <1>1, <4>1, Become1 DEF IInv
      <4>3. CallbackError(req[r]).pc = "answered"
        BY <2>1 DEF CallbackError, Answer, RequestState
      <4> QED
        BY <3>2, <4>2, <4>3
    <3> QED
      BY <3>1, <3>2
  <2> QED
    BY <2>2, <2>1, <2>3, <2>4, AcceptedInTime
<1>2. Init => StartsPast
  BY DEF Init, StartsPast
<1>3. IInv /\ StartsPast /\ [Next]_vars =>
         [\A r \in Request, n \in Node : DecodeLoginState(r) /\ DecodedBy(r, n) =>
             LET f == req[r].flow
                 age == now - flow[f].at
                 ahead == Offset[flow[f].node] - Offset[n]
             IN  /\ req'[r].pc = "exchange" => age <= LoginStateTtl + ahead
                 /\ ahead <= MaxClockSkew /\ age <= LoginStateTtl + ahead
                       => req'[r].pc = "exchange"]_vars
  BY <1>1
<1> QED
  BY <1>2, <1>3, Invariance, StartsStayPast, PTL DEF Spec, LoginsHaveTheirTime
=============================================================================
