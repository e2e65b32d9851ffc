------------------------------- MODULE Routes -------------------------------
(***************************************************************************)
(* Where an engine is mounted.  The public paths a browser uses and the    *)
(* ingress paths the engine sees differ by prefixes that a front proxy     *)
(* exchanges; a LoginConfig is built, may be edited, and is checked again  *)
(* when an engine is made of it.  From then on the paths it derived scope  *)
(* its cookies, its routes are matched on ingress paths and its redirects  *)
(* name public ones.                                                       *)
(*                                                                         *)
(* A path is the sequence of its characters, since the questions are about *)
(* prefixes: "/" ends a segment, every other character is part of one.     *)
(* An Option is a set of at most one element.                              *)
(***************************************************************************)
EXTENDS Integers, FiniteSetsExt, SequencesExt

CONSTANTS
    Character,      \* what paths are made of
    Path,           \* what the settings are chosen from
    Page,           \* the application's own paths, behind the prefixes
    MaxEdits        \* bound: edits of a built config

Root == <<"/">>

ASSUME PathAssumption ==
    /\ "/" \in Character
    /\ Root \in Path
    /\ \A path \in Path \cup Page : path \in Seq(Character) /\ IsPrefix(Root, path)
ASSUME EditsAssumption == MaxEdits \in Nat

VARIABLES
    config,     \* the LoginConfig, when it was accepted
    edits,      \* edits of it
    engine,     \* the engine, when it was accepted
    cookies,    \* the browser's cookies of the engine
    browser     \* what the browser does

routesVars == <<config, edits, engine, cookies, browser>>

Option(S) == {{}} \cup {{x} : x \in S}

---------------------------------------------------------------------------
(* Paths *)

WithoutTrailing(path) ==
    SubSeq(path, 1, Max({0} \cup {i \in DOMAIN path : path[i] # "/"}))

Suffix(prefix, path) == SubSeq(path, Len(prefix) + 1, Len(path))

\* RoutePath::strip_from
StripFrom(prefix, path) ==
    IF ~IsPrefix(prefix, path) THEN {}
    ELSE IF Last(prefix) = "/" THEN {Root \o Suffix(prefix, path)}
    ELSE IF path = prefix THEN {Root}
    ELSE {rest \in {Suffix(prefix, path)} : IsPrefix(Root, rest)}

The(option) == CHOOSE x \in option : TRUE

\* A base_path without its trailing slashes.
Base(base) == IF base = {} THEN <<>> ELSE WithoutTrailing(The(base))

\* Mistake: a route at the root of the origin has the empty path.
BrowserPathEmpty(route, strip, base) ==
    LET rests == UNION {StripFrom(prefix, route) : prefix \in strip} IN
    Base(base) \o (IF strip = {route} THEN <<>> ELSE IF rests = {} THEN route ELSE The(rests))

\* browser_path: a route that is the prefix itself maps to the base itself.
BrowserPath(route, strip, base) ==
    LET rests == UNION {StripFrom(prefix, route) : prefix \in strip}
        stripped == IF strip = {route} /\ Last(route) # "/" THEN <<>>
                    ELSE IF rests = {} THEN route ELSE The(rests)
        path == Base(base) \o stripped
    IN  IF path = <<>> THEN Root ELSE path

\* PublicUrlMapping::public_url, with a prefix that is the root or has no
\* trailing slash.
PublicUrl(base, prefix, path) ==
    {BrowserPath(path, {prefix}, base) : rest \in StripFrom(prefix, path)}

\* Mistake: the prefix of the ingress stays in the URL.
OriginalUrlIngress(base, strip, path) == PublicUrl(base, Root, path)

\* original_url
OriginalUrl(base, strip, path) ==
    IF strip # {} /\ Last(The(strip)) = "/"
    THEN UNION {PublicUrl(base, Root, rest) : rest \in StripFrom(The(strip), path)}
    ELSE PublicUrl(base, IF strip = {} THEN Root ELSE The(strip), path)

\* What a front proxy forwards a public path to: it exchanges the prefixes, and
\* may or may not add a slash to its own for the root of the origin.
Ingress(c, path) ==
    LET prefix == Base(c.strip)
        full == prefix \o Suffix(Base(c.base), path)
    IN  CASE full = <<>> -> {Root}
          [] path = Root /\ prefix # <<>> -> {full, prefix}
          [] OTHER -> {full}

\* The cookies a browser shows on a path (RFC 6265, 5.1.4).
PathMatches(cookiePath, path) ==
    /\ IsPrefix(cookiePath, path)
    /\ \/ cookiePath = path \/ Last(cookiePath) = "/"
       \/ path[Len(cookiePath) + 1] = "/"

---------------------------------------------------------------------------
(* Configuration *)

IsRoute(path) == path # <<>> /\ Head(path) = "/"

LoginConfig(callback, logout, base, strip, mapping) ==
    [callback |-> callback, logout |-> logout, base |-> base, strip |-> strip,
     mapping |-> mapping, browserCallback |-> Root, browserLogout |-> {}]

\* A route outside strip_prefix would never match a request.
RoutesWithin(c) ==
    \A prefix \in c.strip, route \in {c.callback} \cup c.logout :
        StripFrom(prefix, route) # {}

Derived(c) ==
    [c EXCEPT !.browserCallback = BrowserPath(c.callback, c.strip, c.base),
              !.browserLogout = {BrowserPath(route, c.strip, c.base) : route \in c.logout}]

\* mapping_paths
MappingPaths(base, strip) ==
    [base |-> IF Base(base) = <<>> THEN {} ELSE {Base(base)}, strip |-> strip \ {Root}]

\* Mistake: what the builder derived is trusted.
RecomputedNot(c) == c

\* validate_and_recompute: the derived paths follow the edited ones.
Recomputed(c) == Derived(c)

\* Mistake: only logout is looked at.
CookiePathAcceptedLogout(cookiePath, store, c) ==
    \A route \in c.browserLogout : StripFrom(cookiePath, route) # {}

\* apply_session_policy of the two drivers.
CookiePathAccepted(cookiePath, store, c) ==
    \A route \in c.browserLogout \cup (IF store THEN {c.browserCallback} ELSE {}) :
        StripFrom(cookiePath, route) # {}

\* security_prefix
SecurityPrefix(secure, path) ==
    IF ~secure THEN "" ELSE IF path = Root THEN "__Host-" ELSE "__Secure-"

\* A browser drops a cookie whose prefix contradicts its attributes.
Accepts(cookie) ==
    /\ cookie.prefix # "" => cookie.secure
    /\ cookie.prefix = "__Host-" => cookie.path = Root

Cookie(kind, path) ==
    LET secure == The(engine).secure IN
    [kind |-> kind, path |-> path, secure |-> secure, prefix |-> SecurityPrefix(secure, path)]

---------------------------------------------------------------------------

\* sees: what the browser showed to the route it last used.
Browsing ==
    [pc |-> "idle", wanted |-> Root, original |-> Root, sees |-> {}]

RoutesTypeOK ==
    /\ \A c \in config :
        \A path \in {c.callback, c.browserCallback} \cup c.logout \cup c.browserLogout
                        \cup c.base \cup c.strip :
            IsRoute(path)
    /\ edits \in 0..MaxEdits
    /\ engine \in Option([cookiePath: Path, store: BOOLEAN, secure: BOOLEAN])
    /\ \A k \in cookies : k.kind \in {"login", "session"} /\ IsRoute(k.path)
    /\ browser.pc \in {"idle", "provider", "returned", "lost"}
    /\ browser.sees \subseteq {"login", "session"}

RoutesInit ==
    /\ config = {} /\ edits = 0 /\ engine = {} /\ cookies = {}
    /\ browser = Browsing

\* LoginConfig::new with base_path and strip_prefix.
Build(callback, logout, base, strip) ==
    LET c == LoginConfig(callback, logout, base, strip, {}) IN
    /\ RoutesWithin(c)
    /\ config' = {Derived(c)}
    /\ UNCHANGED <<edits, engine, cookies, browser>>

\* url::callback_path: what the redirect URI maps to, or an explicit path that
\* maps to it.
CallbackPaths(m, redirect) ==
    {callback \in Ingress(m, redirect) \cup Path :
        PublicUrl(m.base, IF m.strip = {} THEN Root ELSE The(m.strip), callback) = {redirect}}

\* The same with a PublicUrlMapping, and a callback that fits it.
BuildMapped(logout, base, strip, redirect) ==
    LET m == MappingPaths(base, strip) IN
    /\ redirect # <<>>
    /\ \E callback \in CallbackPaths(m, redirect) :
        LET c == LoginConfig(callback, logout, m.base, m.strip, {m}) IN
        /\ RoutesWithin(c)
        /\ config' = {Derived(c)}
    /\ UNCHANGED <<edits, engine, cookies, browser>>

\* The fields are public: the paths are edited, and what was derived is stale.
Edit(c, edited) ==
    /\ config = {c} /\ engine = {} /\ edits < MaxEdits
    /\ config' = {edited} /\ edits' = edits + 1
    /\ UNCHANGED <<engine, cookies, browser>>

EditAny(c, path) ==
    \/ Edit(c, [c EXCEPT !.callback = path])
    \/ Edit(c, [c EXCEPT !.logout = {path}])
    \/ Edit(c, [c EXCEPT !.base = {path}])
    \/ Edit(c, [c EXCEPT !.strip = {path}])

\* LoginEngine::new; the grant's redirect URI has the callback path that was
\* derived before or after the edits.
NewEngine(built, cookiePath, store, secure) ==
    LET c == Recomputed(built) IN
    /\ config = {built} /\ engine = {}
    /\ \A m \in c.mapping : c.base = m.base /\ c.strip = m.strip
    /\ RoutesWithin(c)
    /\ \E redirect \in {built.browserCallback, Derived(built).browserCallback} :
        c.browserCallback = redirect
    /\ CookiePathAccepted(cookiePath, store, c)
    /\ config' = {c}
    /\ engine' = {[cookiePath |-> cookiePath, store |-> store, secure |-> secure]}
    /\ edits' = 0
    /\ UNCHANGED <<cookies, browser>>

\* Another deployment, for other browsers.
Redeploy ==
    /\ config # {}
    /\ config' = {} /\ edits' = 0 /\ engine' = {} /\ cookies' = {} /\ browser' = Browsing

\* Set-Cookie: a cookie is known by its name and path.
SetCookie(held, cookie) ==
    {k \in held : k.kind # cookie.kind \/ k.path # cookie.path}
        \cup {k \in {cookie} : Accepts(k)}

Shown(path) == {k \in cookies : PathMatches(k.path, path)}

Kinds(held) == {k.kind : k \in held}

\* Where the proxy forwards a request for a route: a proxy that can reach the
\* route does.
Forwarded(c, path, route) ==
    IF route \in Ingress(c, path) THEN {route} ELSE Ingress(c, path)

\* A page is visited without a session: redirect_to_login.
Visit(c, page) ==
    LET public == Base(c.base) \o page IN
    /\ config = {c} /\ engine # {} /\ browser.pc = "idle"
    /\ \E uri \in Ingress(c, public) \ ({c.callback} \cup c.logout) :
        LET url == OriginalUrl(c.base, c.strip, uri)
            base == IF c.base = {} THEN Root ELSE The(c.base)
        IN  browser' = [pc |-> "provider", wanted |-> public, sees |-> {},
                        original |-> IF url = {} THEN base ELSE The(url)]
    /\ cookies' = SetCookie(cookies, Cookie("login", c.browserCallback))
    /\ UNCHANGED <<config, edits, engine>>

\* The provider sends the browser to the redirect URI: try_handle_login_route.
Return(c) ==
    LET shown == Shown(c.browserCallback) IN
    /\ config = {c} /\ browser.pc = "provider"
    /\ \E uri \in Forwarded(c, c.browserCallback, c.callback) :
        IF uri = c.callback /\ "login" \in Kinds(shown)
        THEN /\ browser' = [browser EXCEPT !.pc = "returned", !.sees = Kinds(shown)]
             /\ cookies' = SetCookie({k \in cookies : k.kind # "login"},
                                 Cookie("session", The(engine).cookiePath))
        ELSE browser' = [browser EXCEPT !.pc = "lost"] /\ cookies' = cookies
    /\ UNCHANGED <<config, edits, engine>>

Settle ==
    /\ browser.pc \in {"returned", "lost"}
    /\ browser' = Browsing
    /\ UNCHANGED <<config, edits, engine, cookies>>

\* The browser posts to the logout route; a path that is the callback as well
\* is the callback's.
LogOut(c) ==
    /\ config = {c} /\ engine # {} /\ browser.pc = "idle"
    /\ \E route \in c.logout \ {c.callback}, path \in c.browserLogout :
        \E uri \in Forwarded(c, path, route) :
            IF uri = route
            THEN /\ cookies' = {k \in cookies : k.kind # "session"}
                 /\ browser' = [browser EXCEPT !.pc = "returned", !.sees = Kinds(Shown(path))]
            ELSE browser' = [browser EXCEPT !.pc = "lost"] /\ cookies' = cookies
    /\ UNCHANGED <<config, edits, engine>>

RoutesNext ==
    \/ config = {} /\ \E logout, base, strip \in Option(Path) :
        \/ \E callback \in Path : Build(callback, logout, base, strip)
        \/ \E rest \in Page \cup {<<>>} :
            /\ strip \subseteq {WithoutTrailing(path) : path \in Path}
            /\ BuildMapped(logout, base, strip, Base(base) \o rest)
    \/ \E c \in config :
        \/ \E path \in Path : EditAny(c, path)
        \/ \E path \in Path, store, secure \in BOOLEAN : NewEngine(c, path, store, secure)
        \/ \E page \in Page : Visit(c, page)
        \/ Return(c) \/ LogOut(c)
    \/ Redeploy \/ Settle

RoutesSpec == RoutesInit /\ [][RoutesNext]_routesVars

---------------------------------------------------------------------------
(* Correctness *)

\* An engine that was accepted is reached: the provider's redirect arrives at
\* the callback with the cookie of the login that started it, and a logout at
\* the logout route, whatever prefixes the two sides of the proxy have and
\* however the config was edited (browser_path, LoginEngine::new).
RoutesAreReached == browser.pc # "lost"

\* After a login the user is at the page that was asked for, at its public
\* path (redirect_to_as, original_url).
UsersReturnToTheirPage ==
    browser.pc = "returned" /\ browser.sees \cap {"login"} # {} =>
        browser.original = browser.wanted

\* The routes that end a session are shown it, by the browser's rules for
\* paths: logout under both drivers, and the callback that replaces a session
\* under the store-backed one (apply_session_policy: "The callback must receive
\* the old pointer").
RoutesSeeTheSession ==
    [][\A c \in config :
          /\ LogOut(c) \/ (Return(c) /\ \A e \in engine : e.store)
          /\ "session" \in Kinds(cookies)
          => "session" \in browser'.sees]_routesVars
=============================================================================
