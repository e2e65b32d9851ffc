---------------------------- MODULE RequestRules ----------------------------
(***************************************************************************)
(* What the engine makes of a request from its headers: whether it starts  *)
(* a login, counts as activity, or may log out, and where a logout leads.  *)
(* Browsers derive the headers from what happened (a click, a frame, a     *)
(* prefetch, a script of some page); some browsers are old, and proxies    *)
(* remove headers they do not know.                                        *)
(*                                                                         *)
(* An Option is a set of at most one element.                              *)
(***************************************************************************)
EXTENDS Integers

CONSTANTS
    Deployments,    \* base_url origins: scheme, host, explicit port
    Origins,        \* the origins of the pages that send requests
    Lower(_),       \* a host in lower case
    Site(_)         \* the site a host belongs to

\* The origin of the grant's redirect URI, which brings browsers back.
ASSUME DeploymentsAssumption == \A d \in Deployments : d.scheme \in {"http", "https"}

VARIABLES
    base,       \* the origin of the engine's base_url
    policy,     \* ActivityPolicy
    logout,     \* LogoutConfig: the provider's endpoint and the page after
    session,    \* the browser's session cookie is there
    request,    \* the request that was answered last
    answer      \* its answer

rulesVars == <<base, policy, logout, session, request, answer>>

DefaultPort(scheme) ==
    CASE scheme = "https" -> {443} [] scheme = "http" -> {80} [] OTHER -> {}

---------------------------------------------------------------------------
(* Browsers *)

Kind == {"navigation", "form", "frame", "prefetch", "fetch", "image", "preflight"}
Droppable == {"mode", "dest", "user", "site", "origin"}

TopLevel(r) == r.kind \in {"navigation", "form"}

\* dropped: headers that were sent and that a proxy removed; post: a POST.
BrowserRequest ==
    {r \in [kind: Kind, from: Origins, modern: BOOLEAN, post: BOOLEAN,
            dropped: SUBSET Droppable] :
        /\ r.post => r.kind \in {"form", "fetch"}
        /\ r.kind = "form" => r.post
        /\ "origin" \in r.dropped => r.post
        /\ "user" \in r.dropped => TopLevel(r)
        /\ ~r.modern => r.dropped \subseteq {"origin"}}

Sends(r, header) == r.modern /\ header \notin r.dropped

ModeOf == [kind \in Kind |->
    CASE kind \in {"fetch", "preflight"} -> "cors"
      [] kind = "image" -> "no-cors"
      [] OTHER -> "navigate"]

DestOf == [kind \in Kind |->
    CASE kind \in {"fetch", "preflight"} -> "empty"
      [] kind = "image" -> "image"
      [] kind = "frame" -> "iframe"
      [] OTHER -> "document"]

Mode(r) == IF Sends(r, "mode") THEN {ModeOf[r.kind]} ELSE {}
Dest(r) == IF Sends(r, "dest") THEN {DestOf[r.kind]} ELSE {}

EffectivePort(origin) == IF origin.port = {} THEN DefaultPort(origin.scheme) ELSE origin.port

\* The origin as the standard compares it.
OriginOf(origin) == <<origin.scheme, Lower(origin.host), EffectivePort(origin)>>

CrossSite(r) == Site(Lower(r.from.host)) # Site(Lower(base.host))

\* Fetch Metadata as a browser sends it; html is Accept, and old browsers'
\* scripts set X-Requested-With.
Headers(r) ==
    [mode |-> Mode(r), dest |-> Dest(r),
     user |-> Sends(r, "user") /\ TopLevel(r),
     crossSite |-> Sends(r, "site") /\ CrossSite(r),
     xhr |-> r.kind = "fetch" /\ ~r.modern,
     purpose |-> r.kind = "prefetch",
     html |-> r.kind \in {"navigation", "form", "frame", "prefetch"}
              \/ (r.kind = "fetch" /\ ~r.modern),
     origin |-> {o \in {r.from} : r.post /\ "origin" \notin r.dropped}]

\* SameSite=Lax; old browsers do not know it.
ShowsSession(r) ==
    /\ session /\ r.kind # "preflight"
    /\ r.modern /\ CrossSite(r) => r.kind = "navigation"

---------------------------------------------------------------------------
(* The engine's rules *)

\* Mistake: without the mode the request is not the user's.
IsNavigationByMode(h) ==
    ~h.xhr /\ ~h.purpose /\ h.mode = {"navigate"} /\ h.dest \subseteq {"document"}

\* is_navigation_request
IsNavigation(h) ==
    /\ ~h.xhr /\ ~h.purpose
    /\ IF h.mode # {} THEN h.mode = {"navigate"} /\ h.dest \subseteq {"document"}
       ELSE IF h.dest # {} THEN h.dest = {"document"}
       ELSE h.user \/ h.html

\* Mistake: whoever follows another site's link is not at work here.
CountsAsActivitySameSite(h) ==
    CASE policy = "NavigationsOnly" -> IsNavigation(h)
      [] policy = "FirstParty" -> ~h.crossSite
      [] policy = "AllRequests" -> TRUE

\* ActivityPolicy::counts_as_activity
CountsAsActivity(h) ==
    CASE policy = "NavigationsOnly" -> IsNavigation(h)
      [] policy = "FirstParty" -> ~h.crossSite \/ IsNavigation(h)
      [] policy = "AllRequests" -> TRUE

\* Mistake: the ports are compared as they are written.
SameOriginAsWritten(left, right) ==
    /\ left.scheme = right.scheme /\ Lower(left.host) = Lower(right.host)
    /\ left.port = right.port

\* same_origin, origin_parts
SameOrigin(left, right) ==
    /\ left.scheme = right.scheme /\ Lower(left.host) = Lower(right.host)
    /\ EffectivePort(left) # {} /\ EffectivePort(left) = EffectivePort(right)

\* The first checks of handle_logout, has_same_origin
OriginAccepted(h) == ~h.crossSite /\ \E origin \in h.origin : SameOrigin(origin, base)

\* build_end_session_url: the parameters begin the query, or follow one.
Joined(endpoint) == IF endpoint.hasQuery THEN "next" ELSE "first"

EndSessionParameters(hint) ==
    hint \cup {"client_id", "post_logout_redirect_uri"}

\* logout_redirect_target
LogoutRedirect(hint) ==
    IF logout.endpoint = {} THEN [to |-> "page", joined |-> "first", params |-> {}]
    ELSE [to |-> "provider", joined |-> Joined(CHOOSE e \in logout.endpoint : TRUE),
          params |-> EndSessionParameters(hint)]

---------------------------------------------------------------------------
(* Requests and answers *)

LogoutConfig ==
    [endpoint : {{}} \cup {{e} : e \in [hasQuery : BOOLEAN]}, keepsIdToken : BOOLEAN]

Status == {"passed", "served", "unavailable", "login", "unauthorized",
           "not allowed", "rejected", "logged out"}

Redirect == [to : {"page", "provider"}, joined : {"first", "next"},
             params : SUBSET {"id_token_hint", "client_id", "post_logout_redirect_uri"}]

Says(status) == [status |-> status, counted |-> FALSE, location |-> {}]

RulesTypeOK ==
    /\ base \in Deployments
    /\ policy \in {"NavigationsOnly", "FirstParty", "AllRequests"}
    /\ logout \in LogoutConfig
    /\ session \in BOOLEAN
    /\ request = {} \/ \E r \in request : request = {r} /\ r \in BrowserRequest
    /\ answer \in [status : Status, counted : BOOLEAN, location : SUBSET Redirect]

RulesInit ==
    /\ base \in Deployments
    /\ policy \in {"NavigationsOnly", "FirstParty", "AllRequests"}
    /\ logout \in LogoutConfig
    /\ session = FALSE
    /\ request = {} /\ answer = Says("passed")

\* redirect_to_login
RedirectToLogin(r) ==
    IF IsNavigation(Headers(r)) THEN Says("login") ELSE Says("unauthorized")

\* A page of the application: the adapter passes a preflight on, and else loads
\* the session, which may have ended, or be beyond reach for now.
Ask(r) ==
    /\ request' = {r}
    /\ \/ r.kind = "preflight" /\ answer' = Says("passed") /\ UNCHANGED session
       \/ /\ r.kind # "preflight" /\ ~ShowsSession(r)
          /\ answer' = RedirectToLogin(r) /\ UNCHANGED session
       \/ /\ ShowsSession(r)
          /\ \/ /\ answer' = [Says("served") EXCEPT !.counted = CountsAsActivity(Headers(r))]
                /\ UNCHANGED session
             \/ answer' = Says("unavailable") /\ UNCHANGED session
             \/ answer' = RedirectToLogin(r) /\ session' = FALSE
    /\ UNCHANGED <<base, policy, logout>>

\* The logout route: try_handle_login_route, handle_logout. The session may be
\* unreadable, and its cookies are cleared all the same.
AskToLogOut(r) ==
    /\ request' = {r}
    /\ CASE r.kind = "preflight" -> answer' = Says("passed") /\ UNCHANGED session
         [] r.kind # "preflight" /\ ~r.post ->
                answer' = Says("not allowed") /\ UNCHANGED session
         [] r.post /\ ~OriginAccepted(Headers(r)) ->
                answer' = Says("rejected") /\ UNCHANGED session
         [] r.post /\ OriginAccepted(Headers(r)) ->
                /\ \E hint \in SUBSET {h \in {"id_token_hint"} :
                                        ShowsSession(r) /\ logout.keepsIdToken} :
                    answer' = [Says("logged out") EXCEPT !.location = {LogoutRedirect(hint)}]
                /\ session' = FALSE
    /\ UNCHANGED <<base, policy, logout>>

\* The next request; a login that was started may have succeeded.
Proceed ==
    /\ request # {} /\ request' = {}
    /\ session' \in {session} \cup {answer.status = "login"}
    /\ answer' = Says("passed")
    /\ UNCHANGED <<base, policy, logout>>

RulesNext ==
    \/ Proceed
    \/ request = {} /\ \E r \in BrowserRequest : Ask(r) \/ AskToLogOut(r)

RulesSpec == RulesInit /\ [][RulesNext]_rulesVars

---------------------------------------------------------------------------
(* Correctness *)

\* The browser says where a frame's page goes, or neither that nor how it is
\* fetched.
FrameShown(r) == Sends(r, "dest") /\ r.kind = "frame"

\* A user who opens a page without a session is sent to log in, whatever the
\* browser's age and whichever headers were removed on the way, and what runs
\* in the background starts no login: scripts, images and prefetches never, and
\* frames not as long as the browser says that they are frames
\* (is_navigation_request; docs/how_to/adapter.md, "Speculative loads and frames").
LoginsAreTheUsers ==
    \A r \in request :
        /\ TopLevel(r) => answer.status # "unauthorized"
        /\ answer.status = "login" => TopLevel(r) \/ (r.kind = "frame" /\ ~FrameShown(r))

\* What the user opens keeps the session alive under every policy, and under
\* NavigationsOnly nothing else does (ActivityPolicy).
ActivityIsTheUsers ==
    \A r \in request : answer.status = "served" =>
        /\ TopLevel(r) => answer.counted
        /\ policy = "NavigationsOnly" /\ answer.counted =>
            TopLevel(r) \/ (r.kind = "frame" /\ ~FrameShown(r))

\* Only a page of the engine's own origin logs the user out, also among sibling
\* hosts and ports that the browser shows the session's cookie, and each such
\* page can, however the base URL is written (handle_logout: "Require the POST's
\* Origin to match the exact public origin").  The provider then knows whose page
\* the user is to return to, with a hint or without (build_end_session_url).
LogoutsAreTheUsers ==
    \A r \in request :
        /\ answer.status = "logged out" => OriginOf(r.from) = OriginOf(base)
        /\ answer.status = "rejected" =>
            OriginOf(r.from) # OriginOf(base) \/ "origin" \in r.dropped
        /\ \A location \in answer.location : location.to = "provider" =>
            /\ location.params \cap {"client_id", "id_token_hint"} # {}
            /\ \A e \in logout.endpoint : e.hasQuery <=> location.joined = "next"
=============================================================================
