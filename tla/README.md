# huskarl-login in TLA+

`huskarl-login` is the login engine of a web application: it runs the OpenID
Connect authorization-code flow, keeps the resulting session either in sealed
cookies or in a store the application provides, refreshes the access token when
it is due, and ends sessions by logout, lifetime or idleness. Several server
nodes serve the same session at once and share nothing but the browser's
cookies, the stores and the authorization server. What is hard about it is
concurrency and partial failure, and that is what these modules are about.

All definitions are translated from the Rust source (`src/src/`), which is the
reference; `formal/SessionLifecycle.tla` in the repository is the authors' own
design model and was not used as a source. `PROJECT.json` gives, for every
definition, the lines it stands for (`map`), the hazards of the code with the
properties that guard them (`hazards`), and one plausible mistake per property
that the property detects (`mutants`).

Contents: 1 the system, 2 the modules, 3 what is checked, 4 what is proved,
5 the findings, 6 what is not modelled, 7 the plan.

## 1. The system

### Parts, their state and their operations

| Part | Source | State it keeps | Operations |
|---|---|---|---|
| Login engine | `engine/mod.rs` | nothing between requests; per request: the session it works with, the expected revision, the owed persist | `load_session`, `refresh_or_clear`, `refresh_with_retry`, `teardown_observed`, `PendingPersist::{commit, abandon}` and its drop, `terminate_session`, `save_session` |
| Store-backed driver | `store_session.rs` | none; a pointer cookie in the browser | `create_session`, `load_session`, `commit_refresh`, `try_update`/`update`, `save_session`, `revoke`, `revoke_observed_session`, `delete_superseded_session`, `check_liveness` |
| External session store | trait in `store_session.rs`; in-memory store in `testing.rs` | one versioned record per key, with a storage deadline | `insert`, `load`, `compare_and_swap`, `delete` |
| Liveness store | trait in `store_session.rs` | last activity per key, with a deadline | `last_active`, `touch`, `clear` |
| Liveness policy | `liveness.rs`, `config.rs` | configuration | `verdict`, touch throttling, activity policy |
| Cookie driver | `cookie_session.rs`, `cookie.rs` | none; chunks of a sealed session and a key-id sidecar in the browser | `load`, `save`, `create`, `revoke`, clearing of stale chunks |
| Login flow | `engine/redirect.rs`, `engine/callback.rs` | a sealed login-state cookie per attempt | `redirect_to_login`, `handle_callback`, `delete_superseded_session`, sweep of login-state cookies |
| Sealing keys | `cookie.rs`, `docs/how_to/cookie_keys.md` | configuration; a key-id sidecar beside each sealed cookie | seal, `unseal_with_kid_fallback`, rotation replica by replica |
| Logout | `engine/logout.rs` | none | same-origin check, load, revoke, redirect target |
| Lifetimes | `session_state.rs`, `config.rs`, `engine/mod.rs` | the deadline frozen into the session | effective deadline, clock skew, cookie `Max-Age` |
| Request classification | `engine/mod.rs`, `liveness.rs`, `engine/logout.rs` | none | `is_navigation_request`, `counts_as_activity`, `has_same_origin`, `logout_redirect_target` |
| Configuration, routes | `config.rs`, `url.rs`, `engine/mod.rs` | configuration | builders, `validate_and_recompute`, `browser_path`, `original_url`, route matching, cookie path checks |
| Response guards | `engine/mod.rs` | armed until used | `into_headers`, `discard`, `commit`, `abandon`, counted drop |
| Authorization server | external | refresh tokens it accepts | refresh exchange |

### How they interact

A request enters `load_session`. The driver reads the pointer cookie, loads the
record and (when configured) consults the liveness store. The engine checks the
absolute deadline, then decides whether the access token is due for refresh. If
it is, the engine calls the token endpoint (a few attempts), and the driver
commits the answer over the record by load, compare, `compare_and_swap`
("eager"). When that fails the request is still served, holding the new tokens
and *owing* the persist; `PendingPersist::commit` tries again once the
application has answered ("deferred"). In between the application's handler may
update, save or terminate the same session. Every backend call is an `await`:
anything else may happen before it returns, and it may fail after it took
effect.

### What is hard, and what makes each part correct

* **Driver and engine.** Requests of one session overlap on any node; the
  refresh, an application update, a logout and a teardown compete for one
  record; a call that timed out may take effect much later. Correct means: the
  session ends once and for good reason; its credentials advance one committed
  refresh at a time; nobody is told "stored" or "gone" wrongly; no rotated
  refresh token is lost to concurrency alone; every request is answered.
* **Liveness.** The record and the liveness entry are two objects in two
  stores, written by different requests and reaped separately; a missing entry
  reads as "active" (fail open), touches are throttled. Correct means: traffic
  keeps a session alive, an idle session stops being let through after a
  bounded time, the stores do not reap what is in use.
* **Cookie driver.** Responses reach the browser in any order, so chunks of two
  sealed sessions may meet. Correct means: what loads was saved as a whole.
* **Login flow.** Logins run in parallel tabs; a callback may be late, repeated
  or foreign, and every store call may fail half way. Correct means: a login
  state is shown once, a failed login costs the browser nothing it had, tabs do
  not break each other, and no record is left behind without a cause.
* **Lifetimes.** Deadlines frozen at login meet changed configuration and
  skewed clocks. Correct means: a change may shorten a session and never extend
  it, and no session is taken before its time.
* **Refresh on the clock.** Time passes while a request waits for its refresh.
  Correct means: bounded waiting, obedience to the server's `Retry-After`, and
  no expired token served as authenticated.
* **Keys.** Replicas of different configurations serve one browser while keys
  rotate. Correct means: nobody is logged out by a rotation.
* **Guards.** Work the engine owes to a response is carried by values that an
  adapter may forget, drop or unwind. Correct means: each rotated token's loss
  is known to somebody, once.
* **Routes and rules.** Public and internal paths differ by two prefixes, and
  headers are absent in old browsers and behind proxies. Correct means: accepted
  configurations work, and what counts as the user's doing is the user's.

The full list, with source lines, is `hazards` in `PROJECT.json`.

## 2. The modules

```
Tokens                      names of grants and tokens
 ├─ ExternalStore           one versioned record, calls that take effect late
 ├─ AuthServer              what a refresh exchange may answer
 │     └─ SessionRequests   all requests of one session (extends both)
 └─ AtomicSession           abstract: what SessionRequests implements
Liveness                    one session on the clock: record, entry, requests
CookieSession               a session in the browser's chunk cookies
 └─ AtomicCookie            abstract: what CookieSession implements
LoginFlow                   logins in several tabs, callbacks, logouts, old records
Requests                    the set of overlapping requests, for the next three
 ├─ Lifetime                one session's deadlines under caps and clocks
 ├─ RefreshTiming           due, retried, given up: refreshes on the clock
 └─ ResponseGuards          SetCookies and PendingPersist in an adapter's hands
SealingKeys                 keys that rotate under the session cookie
Routes                      a configuration between a proxy and a browser
RequestRules                what requests are taken for, by their headers
MC<module>                  instances for TLC
MCRequests                  Lifetime, RefreshTiming, ResponseGuards
MCDeployment                SealingKeys, Routes, RequestRules
<module>Proofs              theorems
```

The modules after `CookieSession` each look at a question of their own, with
the parts the others have in detail reduced to one step: `LoginFlow` creates and
deletes records in the store `SessionRequests` follows one of, `RefreshTiming`
has the clock of an exchange whose store protocol is in `SessionRequests`, and
`Lifetime` has the arithmetic behind the one `ExpireAt` of `Liveness`.

`MCRequests`, `MCDeployment` and `MCLoginFlow` have a variable `part`, chosen at
the start: it says which of several questions a behaviour is about, and only
that module's (or for `MCLoginFlow` that kind of) steps happen. The modules
brought together there share no variable and every property speaks of one of
them, so taking them one after the other loses no behaviour that a property
could tell; it saves a product of independent state spaces.

Definitions introduced by `\* Mistake:` are never part of a specification. They
are plausible slips (a dropped comparison, a revision that does not saturate, a
retry without end) kept next to the correct definition; putting one in its
place makes a property fail, which is how we know the property can fail.

### ExternalStore: the session store

Follows one session key after its insert. `version` is
`ExternalSessionStore::Version`; `CompareAndSwap` writes only over the version
the caller read and never inserts; `Delete` is unconditional. A call whose
caller saw an error is kept in `lateWrites` / `lateDelete` and takes effect at
any later moment or never. This covers "the acknowledgement was lost" (it takes
effect at once) and "the write arrived after the caller gave up" alike.
A session is abstracted to its refresh revision, its refresh token, the grant
that its access-token expiry belongs to, the tombstone flag, and the set of
requests whose change to the application fields it carries.

### AuthServer: the token endpoint (external)

A successful exchange issues the next grant. The answer may keep the refresh
token, rotate it with a grace period, or retire the old one at once (`Policy`);
the server may withdraw everything. Access tokens expire at any time, in any
order. `Tokens` names both tokens of a grant by its number.

### SessionRequests: engine and driver

One step is one backend call with the local computation up to the next `await`;
`pc` and `call` say which. The correspondence:

| Action | Code |
|---|---|
| `LoadSession` | `load_session`: missing record, ended by clock/lifetime/idleness, refresh due, served. The verdicts of the clock are nondeterministic here; `Liveness` has the clock. |
| `StartRefresh`, `Exchange*` | `refresh_or_clear`, `refresh_with_retry`, `ExchangeFailed` for "serve while the access token lives" |
| `LoadForCommit`, `LoadForUpdate`, `LoadForSave`, `LoadForTeardown` | the loads of the optimistic loops of `commit_refresh`, `try_update`, `save_session`, `revoke_observed_session`, with their early returns |
| `AnswerWrite` | the `compare_and_swap` of any of them: committed, missing, conflict with another attempt left, conflict on the last |
| `CleanUp`, `DeleteRecord` | `delete_tombstone`, `revoke` |
| `Handle`, `Respond` | the application's handler; `PendingPersist::commit` if a persist is owed |
| `Logout`, `Supersede` | `handle_logout`, `delete_superseded_session` |
| `BackendFails`, `DropRequest`, `ExchangeAnswerLost` | an error from the store, a dropped future or a stopped node, an answer lost on the way |

`Returned` and the four `*Returned` operators say what the caller of a driver
call does with its result. Actions that share a shape in the code (the four
optimistic loops) share `AnswerWrite`, because the code's `compare_and_swap`
arms are the same up to what the caller does with them.

### AtomicSession: what the driver promises

The session as one object: `Refresh` moves to the next revision and a later
grant and touches nothing else, `Edit` touches application fields only, `End`
is final. `SessionRequests` implements it under the mapping `live <- LoadLive`,
`session <- Visible` (`BehavesAtomically`): every `compare_and_swap` that
commits is one atomic step, everything else stutters.

### Liveness: one session on the clock

Time is a number of ticks. A request captures the clock once, after it loaded
the record, as the code does, and works with that instant afterwards (`since`).
The module has the record's and the entry's deadlines (`WriteDeadline`,
`EntryDeadline`), `check_liveness` with its verdict and touch throttle,
`refresh_due` with its random part, the commit of a refresh, updates, teardown
with the delete-then-clear order, and the reaping of both objects.
`anchor`, `lastActivity` and `lastServed` are history variables: no guard reads
them. A slot of `Request` serves any number of requests in turn.

Abstractions: one effective absolute deadline per session (`ExpireAt`; beyond
the clock's reach it stands for a delegated lifetime); access tokens all live
`TokenLifetime`; clocks agree; a request is answered within `Latency`, which is
at most `TokenLifetime`; a backend removes a record at most `ReapLag` after its
deadline, an entry at any time after its own. A failed touch is lost and not
late, a failed commit of a refresh becomes a persist owed; concurrent writes
conflict by revision. Logout is not repeated here: it ends the session in one
step that no property of this module could tell from reaping.
Sessions without a liveness store never reach `check_liveness`'s decision and
are not modelled.

### CookieSession: the session in the browser

The cookie driver keeps nothing on the server, so the module is about the
browser's jar and the responses on their way to it. A session is sealed as a
whole; a seal is unique, and `Content` says what a set of chunks loads as: the
session all of them were cut from, nothing, or `Torn` (a gap, a missing first
chunk, chunks of two seals: `reassemble_chunks` or the authentication of the
sealed value refuses them). `SaveCookies` and `ClearCookies` are the Set-Cookie
values of a save and of a clear, with the clears of the unused slots and the
bounded batch of legacy slots.

| Action | Code |
|---|---|
| `Send` | the browser sends a request with the cookies it has now, to a node with any of the budgets; a callback need not lie in the cookie path |
| `LoadSession` | `load_session` up to the refresh: absent, invalid (cleared), ended by its lifetime (cleared), refresh due, served |
| `RefreshSucceeds`, `RefreshRejected`, `RefreshFails` | `refresh_or_clear`: saved, owed (`pending`) or gone; `revoke_observed` has no record to ask, so a rejection clears; any other failure |
| `Handle`, `Respond` | the handler's `save_session` or `terminate_session`; `PendingPersist::commit` or the policy's answer |
| `Login`, `Logout` | `create` at the end of the callback; `handle_logout` |
| `Deliver`, `Lose`, `CookiesExpire` | the browser: a response arrives, in any order, or never; `Max-Age` |

How the engine's and the handler's cookies are put on one response is the
adapter's affair (`Response`). `EngineCookiesLast` chooses between the order of
the documented adapter (`docs/how_to/adapter.md`) and the reverse.

`AtomicCookie` is the same as one value: a delivered response leaves it, replaces
it or clears it, never anything in between. The mapping reads the jar with
`Content` and a response with what it would leave in an empty jar (`Said`).

`OneBudget` is the hypothesis of the theorems and holds in the run
`cookie_register`: all nodes have the same `max_chunks` and the browser has no
cookies of a larger one. Without it the cookies can be torn: a node with the
smaller value does not clear the slots only the other one uses unless the
request shows them, and it clears a bounded batch of them per response. Torn
cookies load as nothing and are cleared; `cookie_rollout` is about that.

Left out: the key-id sidecar (`SealingKeys`), the arithmetic of `Max-Age`
(`Lifetime`), the size limit's bytes (a session takes any number of chunks, a
save beyond the budget fails).

### LoginFlow: from one record to the next

One browser, its pointer cookie and its login-state cookies, and the records of
the external store (`record`: unused, live, gone; `entries`: which have a
liveness entry). A flow is named by its OAuth `state`, so its cookie is too.

| Action | Code |
|---|---|
| `Page` | a page that needs a session: served, or the dead pointer cleared and `redirect_to_login` (a new flow, or none for an API request or when starting fails) |
| `HandleAsError`, `NoLoginState`, `DecodeLoginState`, `LoginStateUnreadable` | `handle_callback` up to the exchange: the server's error, a state whose cookie is missing (home if the browser has a usable session), age and clock of the login state, a value that does not open |
| `CompleteGrant` | the code is exchanged once; its answer may be lost |
| `Create`, `Touch` | `create_session`: insert (a failed one may have taken effect), then the first activity |
| `Logout`, `RejectOrigin`, `LoadOld`, `DeleteOld`, `ClearOld` | `handle_logout` and `delete_superseded_session`, which share load, delete and the clear of the liveness entry |
| `Send`, `Deliver`, `Lose`, `LoginCookieGoes`, `ServerAnswers` | the browser, the network, the user at the authorization server; a callback may be repeated |

`excused` and `answered` are observations that no guard reads. `excused` collects
the records whose pointer was lost for a cause the code knows and documents: a
store call failed, a request or response was lost, or a response replaced a
pointer that its own request had not shown (overlapping callbacks, a late clear).

### Lifetime: deadlines

Time starts with the login; `Offset` makes the nodes' clocks differ. `session`
has `created_at` and the frozen `expire_at`; `Caps` are the caps nodes are
redeployed with (`{}` is a delegated lifetime). `Login`, `Prepare` and `Insert`
are the callback with its two looks at the clock, before and after the
application's enricher; `Load` is `session_teardown_reason`; `Save` writes a
cookie with `WriteMaxAge`; `Stored` cuts timestamps to seconds. `end` observes
until when a cookie should last.

### RefreshTiming: refreshes on the clock

`LoadCredentials` decides by `RefreshDue` (every outcome of the random share of the margin).
The `Exchange*` actions are the outcomes of one attempt and may come any time
later; `SleepOrGiveUp` has the budget of attempts and the cap on the delay,
`RetryDelays` the backoff, jitter and `Retry-After`. What is stored is stored at
once; `overtaken` names the requests in flight whose session another request has
refreshed since, and decides between the arms that keep the other's session
(`ExchangeOvertaken` after success, `ExchangeRejected` after a rejection).
Delays are integers: a unit is 100 ms, or a second in `MCRefreshOvertaken`. A
session that is torn down logs in again as it was, so that one behaviour has
several.

### SealingKeys: rotation

A value is known by the key that sealed it, a sidecar by the key it names.
`target` is the deployment being rolled out, in the three stages of
`docs/how_to/cookie_keys.md` (read the new key, write it, retire the old), and
`node` what each replica runs: at most one stage apart, since the procedure waits
for a rollout to finish, and for old values to expire before it retires their key.
The browser may lose or change the sidecar (`Meddle`). Keys without an identity
are those outside `Named`.

### ResponseGuards: what is owed to a response

`pending` and `cookies` are the armed guards of one request, `commit` what a
polled commit is saving. A session is named by the rotation of its refresh token.
The adapter may append, discard, commit, forget (`Drop`), be cancelled at any
await or panic. Terminating a session while refreshed cookies are still to be
appended is `CookieSession`'s subject and is left out here.

### Routes: a mounted engine

A path is a sequence of characters (`Character`), because the questions are about
prefixes of strings that are not prefixes of paths. `Build` and `BuildMapped` are the builder
and the `PublicUrlMapping` way, `EditAny` an edit of the public fields,
`NewEngine` the checks that every engine passes (`Recomputed`, the redirect URI,
`CookiePathAccepted`). Then a browser `Visit`s a page, returns from the provider
(`Return`) and logs out (`LogOut`) through a proxy that exchanges the prefixes
(`Ingress`; external), with cookies it accepts and shows by RFC 6265 and the
`__Host-`/`__Secure-` rules. A configuration whose logout path equals its
callback path is accepted; a POST there is the callback branch's, which answers
405, and the model has it so. With the root of the origin as a route and an exact
prefix, whether the proxy adds a slash is left open (`Forwarded`).

### RequestRules: what a request is

Browsers send headers by what happened (`Kind`), old ones without Fetch
Metadata and `SameSite`, proxies remove any of them (`dropped`). `IsNavigation`,
`CountsAsActivity`, `SameOrigin`, `LogoutRedirect` are the code's decisions, `Ask`
and `AskToLogOut` the two ways a request is answered. A frame whose `Sec-Fetch-Dest`
was removed cannot be told from a navigation, and counts as one.

## 3. What is checked

| Run | Question | Instance |
|---|---|---|
| `session_faults` | Does the session end once, for a reason, with credentials that only advance, and does the whole behave atomically, under every interleaving and a fault anywhere? | 2 requests of any kind, all answers of the server, 2 attempts, 2 exchanges, 2 revisions, 1 fault |
| `session_liveness` | When refreshes, updates and logouts collide with all budgets used up, is every request answered, is every answer true, and is anything lost in silence? | 2 requests, strict rotation, 1 attempt, 2 exchanges, 1 revision, 1 fault, fairness |
| `liveness_activity` | How long can idle enforcement fail open? | every request is activity, 1 fault, late reaping, clock to 11 |
| `liveness_mixed` | Do throttled touches and storage deadlines keep an active session? | activity and other requests, no faults, clock to 11 |
| `liveness_polls` | The same bound when some requests are not activity (expected to fail, section 5) | no latency, no faults, clock to 9 |
| `cookie_register` | Do chunked cookies behave as one, and does what the handler and the refresh did arrive? | 2 overlapping requests, 3 slots of which 2 are configured, 3 seals, 3 grants, the handler's cookies last |
| `cookie_rollout` | Do cookies of a larger budget go away? | 2 requests, budgets 1 and 2, a session of 4 chunks from before, legacy batch 1 |
| `cookie_adapter` | Does a termination clear the browser with the documented adapter? (expected to fail, section 5) | as `cookie_register`, the engine's cookies last |
| `login` | Do logins in two tabs, repeated callbacks, logouts, lost responses and failing stores leave states and records where they belong, and has a login its time when clocks differ? | 2 overlapping requests, 2 flows, 3 sessions, time stands still; or 1 request at a time on 3 nodes, differences below and above the tolerance, lifetime 2, clock to 4 |
| `requests` | Is a session served within every cap, for all of its lifetime, with a cookie that lasts? Are requests held, repeated, served and refreshed within the budgets? Has each rotated token one fate? | 2 requests; 2 nodes 3 units apart, caps of 1.5 and 2.5 seconds and delegated, 2 units to the second; margin 4, lifetime 5, `Retry-After` none, kept or exceeded, 3 attempts; 4 rotations |
| `refresh_overtaken` | Is an active session's token always valid? (expected to fail, section 5) | 2 requests, a token of 2 units |
| `deployment` | Does a rotation leave every cookie readable, does every accepted configuration work through proxy and browser, and are logins, activity and logouts the user's own? | 2 rotations, 2 replicas, the second key without an identity; 5 nested paths in every setting, 2 edits, both drivers, with and without `Secure`; 7 kinds of requests, old and new browsers, every set of removed headers, 7 origins, 3 deployments |

### Properties of SessionRequests

* `TerminationIsFinal`: once deleted or tombstoned the session never loads
  again, late writes included.
* `TombstoneIsJustified`: a conditional teardown ends a session only if its
  *stored* credentials are unusable at that moment.
* `CredentialsOnlyAdvance`: credentials change only together with the next
  revision, to a later grant. A response that is committed twice, an older
  generation coming back, a save that publishes a pending refresh: all violate it.
* `ClearedMeansEnded`: a browser told to forget its pointer because of the
  session's credentials or a missing record points at an ended session. (A
  lifetime or idle verdict, `ClearedPolicy`, clears even when the delete fails.)
* `CopiesAgreeWithRecord`: a request without an owed persist never runs ahead
  of the record nor disagrees with it.
* `BehavesAtomically`: the refinement.
* `RotationNotStranded`: as long as nothing fails and the server rotates on
  every exchange, a retired token's successor is in the hands of a request that
  can commit it, or both of a request's persists were refused and its adapter
  was told (`PersistFailed`): contention may cost the token, never in silence.
  With a server that retires only sometimes this is false, as
  `docs/explanation/refresh.md` says itself, hence the hypothesis.
* `UpdateAnswersAreTrue`: answers to updates, in applications that do not use
  whole-session saves (a save replaces application fields by design). That a
  refresh merges into the stored application fields is part of
  `BehavesAtomically`.
* `RequestsAreAnswered`: liveness. Its safety half, that no request works without
  end, is proved without any fairness (`BudgetsRunDown`).

### Properties of Liveness

* `FailOpenIsBounded`: who is let through arrived at most
  `TokenLifetime + IdleTimeout + Latency + ReapLag` after the last activity.
* `ActiveSessionsSurvive`: who is found idle arrived more than
  `IdleTimeout - TouchMinInterval` after the last activity.
* `EntryOutlivesRecord`: without faults the entry lasts as long as its record
  (up to the latency) until a refresh moves the record alone.
* `UsedRecordsAreKept`: without faults storage keeps a record for the idle
  timeout after its last use, or to its absolute deadline.

### Properties of CookieSession

* `BehavesAsOneCookie`: the refinement of `AtomicCookie`;
  `docs/explanation/cookie_security.md`: "two concurrent responses cannot leave
  a ciphertext assembled from different saves, regardless of arrival order".
* `HandlerHasTheLastWord`: after delivery the browser has what the handler
  saved or cleared, also when the request refreshed the session.
* `RefreshReachesBrowser`: tokens that were rotated and sealed are in the
  browser after delivery, under whichever seal, unless the response ends the
  session.
* `ClearingMakesProgress`: a torn jar is emptied, or the configured slots are
  and a whole batch of the others.
* `TerminationClearsBrowser`: section 5.

### Properties of the other modules

`LoginFlow`:

* `FlowsDoNotReplay`: once a callback that showed its login state is answered,
  that state is not in the browser again ("Every failure path clears it").
* `LoginsHold`: the pointer of a successful callback leads to a live record until
  it arrives, whatever overlapping logouts and callbacks remove.
* `OrphansAreExplained`: a live record is the browser's, a running login's, or in
  `excused`.
* `OldSessionsGoInOrder`: a failed login leaves the old record alone, and liveness
  entries are cleared for dead records only; a clear after a failed delete would
  make an idle session active.
* `TabsAreIndependent`: a response removes another flow's state only if the
  browser has a session by then.
* `LoginsHaveTheirTime`: the age limit, both ways, up to the clocks' difference.

`Lifetime`: `ServedWithinEveryCap` (a changed cap shortens and never extends),
`LifetimeIsGranted` (nothing is torn down before a cap has run out, up to the
clocks and a second), `CookiesLastLongEnough` (whole seconds are rounded up; 0 is
never sent).

`RefreshTiming`: `RequestsAreNotHeld`, `RetryAfterIsHonoured`,
`ServedTokensAreLive` (also after sleeping, and when the refresh failed),
`RefreshesInTheWindow` (never before the margin, always within three quarters of
it, and a fresh token is not due again at once), `ActiveIsUsable` (section 5).

`SealingKeys`: `CookiesStayReadable`; `SidecarNamesItsKey`, which the proofs need,
is proved and not run.

`ResponseGuards`: `EveryRotationHasOneFate`: on its way in one request, or
delivered, or counted as dropped, or explained by somebody outside the engine,
and one of these only.

`Routes`: `RoutesAreReached`, `UsersReturnToTheirPage`, `RoutesSeeTheSession` (the
routes that end a session are shown its cookie).

`RequestRules`: `LoginsAreTheUsers` (what the user opens is sent to log in, what
runs in the background is not), `ActivityIsTheUsers`, `LogoutsAreTheUsers` (only a
page of the own origin logs out, each such page can, and the provider knows where
the user returns to).

Types: `TypeOK` of `SessionRequests` is run because a revision beyond its width is
what a `u64` would do on overflow, and `TypesOK` in `MCDeployment` for the modules
without proofs; the other modules' types are proved (section 4).

### A documented limit of cookie sessions

That a response which was sent before a logout may arrive after it and put the
session back is no violation: it is the documented limit of a session without a
record, and `AtomicCookie` allows it.

### Bounds

`MaxAttempts` and `MaxTries` are the code's own budgets, made small; two
attempts show both arms (retry, give up), and the code's values only add
retries. `MaxRevision` stands for `u64::MAX`; at 2 a session refreshes twice
and the third refresh finds the revision exhausted, in `session_liveness` the
second does. Two requests interleave every pair of operations, and one fault
reaches every backend call of every interleaving. With one attempt in
`session_liveness` an update by the other request is enough to use up the
budget of a commit; with two in `session_faults` the retry is taken. The clocks
run past the fail-open bound (10 in `liveness_activity`
counted from a login at 0, with one touch at 0), past `ExpireAt` in
`liveness_activity`, and through several token lifetimes in `liveness_mixed`.
Two responses are the least that can mix, and with three slots and two
configured a session can be shorter than, as long as, and longer than the
budget; three seals let the browser's session, a refresh and a save of the
handler meet. In `cookie_rollout` two legacy slots and a batch of one need two
responses. In `login` three sessions are the one before, a login's and an
overlapping login's; two requests overlap a callback with a repeated callback, a
logout or another tab's. Its part about clocks has one request at a time: what
it is about is in one callback and the flow's start, and the clock runs to 4,
past the lifetime plus the tolerance. In `requests` the lifetimes run past both
caps and the difference of the clocks, which is beyond the tolerance at login and
within it soon after; the attempts are the code's three, the refreshes go on for
as long as the longest token and past the longest delay, with a margin one below
the lifetime and one equal to it, which `validate_durations` refuses; and four
rotations are two more than the requests that can hold one. In `deployment` a key
is replaced by one without an identity and back; paths are prefixes of each
other as strings and not as paths, with and without a final slash, and two edits
may set a field wrong and right again; the kinds of requests are finite, and the
origins are the own one, other ports, the other scheme, a sibling host, another
site and an opaque origin. The theorems of section 4 remove the bounds for all properties marked there.
Behaviours of `SessionRequests` and `Liveness` may stop (all requests answered,
clock at its end), so deadlock checking is off for them; that nothing stops half
way is `RequestsAreAnswered`. In the modules after `CookieSession` some step is
always possible (a browser may always ask again), and deadlock is checked.

### Fairness

Only `session_liveness` assumes any: `WF_vars(Progress(r))`, for each request.
A server's executor polls a request's future whenever a backend call returns,
and backend calls return (with an answer or an error), so an enabled step of a
begun request is eventually taken. Nothing is assumed of arriving requests, of
faults, of calls that take effect late, or of time. The other modules state
safety only: that an adapter goes on, a user comes back from the provider or an
operator finishes a rollout is nothing this code can promise.

## 4. What is proved

TLAPS checks all proofs, for every set of requests, every budget, every number
of faults and every configuration that meets the named assumptions.

`SessionRequestsProofs`:

| Theorem | States |
|---|---|
| `Invariance` | `Spec => []IInv` |
| `TypeCorrect` | `[]TypeOK` |
| `EndIsFinal` | `TerminationIsFinal` |
| `TeardownIsJustified` | `TombstoneIsJustified` |
| `CredentialsAdvance` | `CredentialsOnlyAdvance` |
| `ClearedSessionsEnded` | `[]ClearedMeansEnded` |
| `CopiesAgree` | `[]CopiesAgreeWithRecord` |
| `Atomicity` | `BehavesAtomically`, the refinement of `AtomicSession` |
| `UpdateAnswers` | `[]UpdateAnswersAreTrue` |
| `RotationIsNotStranded` | `[]RotationNotStranded` |
| `BudgetsRunDown` | every step of a request decreases its `Work`, of which it has at most `6 * MaxAttempts + MaxTries + 10` |

None of the properties is inductive, because each depends on what is still on
its way. The invariant `IInv` therefore says: every write that may still arrive
(`lateWrites`, or of a request in `cas`) saw the record at its base version, and
if that version is still stored then it edits it, refreshes it, or ends it for
good reason (`WriteOK`, `Follows`); a response still to be committed is newer
than the record if the record is still at the revision it was exchanged from
(`ResponseOK`); a copy is not ahead of the record (`CopyOK`); a token that was
found rejected stays unusable (`NoLongerUsable` is stable, `KnownStable`); and
what each point of the control flow knows (`PhaseOK`). The argument has two
halves. `LocalStable` and `WriteStable`: whatever *others* do changes the record
only as `StoreMoves` says and the server only as `ServerMoves` says, and that
keeps what a request knows. Then one lemma per action for the request that
moves. `RecordMoves` shows every step to be a `StoreMoves` step, and the action
properties and the refinement follow from it and `IInv`.

Two results need more than `IInv`, and each has its own invariant on top of it.
`AnswersOK`, for `UpdateAnswersAreTrue`, follows each application change through
the writes on their way: a write whose base is the stored version takes nothing
out of the record and adds its own request's change only, and a change is in the
record, or in flight without a caller, only if its request is `Settled`, so that
its handler can no longer be told otherwise. `RotationInv`, for
`RotationNotStranded`, follows each grant while nothing fails: a copy of an older
revision holds a token that is no longer valid, so an exchange can only present
the record's own token; while a response of the record's revision is owed that
token is not valid either, so no second successor is issued and the first one
stays valid until it is committed. Both are proved action by action through a
relation between a request's old and new locals (`GoesOn`, `Passes`) that all but
the proposing and the writing steps satisfy.

`BudgetsRunDown` is about the requests' own loops: however many others compete
for the record, whichever calls fail, and without any fairness, a request takes
at most `6 * MaxAttempts + MaxTries + 10` steps. `Work` bounds the steps that are
left of a request from its phase (`WorkOfPhases`): exchange, the eager commit or
the teardown, the handler and its one call, the response, the one deferred
persist, each loop with a load and a `compare_and_swap` per attempt. It is
inductive with `WithinBudgets`, that attempts are counted below their budget. One
lemma per group of actions shows that the step goes to a later phase
(`PhasesRunDown`) or to the next round of the same loop (`RoundsRunDown`).

Assumptions: `NoTokenAssumption`, `MaxRevisionAssumption`, `PolicyAssumption`,
`WorkloadAssumption`, `BoundsAssumption`.

`LivenessProofs`:

| Theorem | States |
|---|---|
| `Invariance`, `TypeCorrect` | `[]IInv`, `[]TypeOK` |
| `EntryLasts` | `[]EntryOutlivesRecord` |
| `FailOpenEnds` | `FailOpenIsBounded`, assuming every request is activity |
| `UseKeepsRecords` | `UsedRecordsAreKept` |
| `ActivityCounts` | `ActiveSessionsSurvive`, assuming `Latency <= IdleTimeout` |

Here `IInv` ties the deadlines to who paid for them: a stored token was issued
before its request's latency ran out, so a record's deadline lies at most that,
one token lifetime and one idle timeout after an activity (`PaidFor`); the
record a request loaded is the stored one or older (`Observed`), so that a
served request arrived before the stored token expires (`Current`), which is
what keeps used records. `OthersStable` is the half about other requests,
`RequestMove` and the `*IsSafe` lemmas the half about the one that moves.
`Latency <= TokenLifetime` is needed for one reason: a request whose refresh
lost to another request's is served the stored session without a look at its
expiry (`engine/mod.rs:1233`), which is harmless only if it got there in time;
`RefreshTiming` drops the assumption and shows the harm (section 5).

`ActivityCounts` needs a second invariant, `ThrottleInv`: as long as nothing
fails, the entry is behind the latest activity by at most one touch interval, or
the session is past saving (`Closing`), and once the entry is gone the latest
activity is old or the session is over (`Fresh`). It assumes that a request is
answered within the idle timeout: the touch of a slower one could bring back a
reaped entry that is idle already.

Assumptions: `ConfigAssumption` (what `LivenessConfig` and `LoginConfig`
validate) and `EnvironmentAssumption`.

`CookieSessionProofs`:

| Theorem | States |
|---|---|
| `TypeCorrect` | `[]TypeOK`, whatever the budgets |
| `Inductive` | `OneBudget => (Spec => []IInv)` |
| `OneCookie` | `OneBudget => (Spec => BehavesAsOneCookie)` |
| `HandlerDecides` | `HandlerHasTheLastWord`, under `OneBudget` and with the handler's cookies last |
| `RefreshArrives` | `RefreshReachesBrowser`, under `OneBudget`, in either order |
| `TerminationClears` | `TerminationClearsBrowser`, under `OneBudget` and with the handler's cookies last |
| `ClearingProgresses` | `ClearingMakesProgress`, whatever the budgets |

`IInv` says that the jar and what each request showed are one session cut into
chunks or empty (`Whole`), that every set of Set-Cookie values on its way is
empty or *complete* (`Complete`: it writes a whole session and clears every
other configured slot), and that one request stores one grant (`OneGrant`).
`CompleteReplaces` is the heart: a complete answer applied to a whole jar leaves
exactly its session, so the order of arrival cannot matter; `SaveIsComplete` and
`ClearIsComplete` say that the code's values are complete, which is where
`OneBudget` is needed, and `LaterDecides` handles two answers on one response.
`TerminationClears` is the other half of the run `cookie_adapter`, which shows the
same promise broken with the engine's cookies last: the order is all it hangs on.

`ClearingProgresses` has an invariant of its own, `ClearingInv`, that needs no
common budget: an answer to cookies that do not load clears all slots of its
node's budget and, of the slots it was shown beyond that, the lowest
`LegacyBatch` or all of them, and writes none. That a batch of the lowest slots
has so many members is an induction over sets of slots (`LowestMany`), see the end
of this section.
Assumptions: `ChunksAssumption`, `AdapterAssumption`.

`LoginFlowProofs`:

| Theorem | States |
|---|---|
| `Invariance`, `TypeCorrect` | `[]IInv`, `[]TypeOK` |
| `NoReplay` | `[]FlowsDoNotReplay` |
| `NoUnexplainedOrphans` | `[]OrphansAreExplained` |
| `LoginsReachTheBrowser` | `[]LoginsHold` |
| `IndependentTabs`, `OldSessionsAreKept` | `TabsAreIndependent`, `OldSessionsGoInOrder` |
| `LoginsAreTimely` | `LoginsHaveTheirTime` |

The core of `IInv` is that a record whose pointer is still on its way is known to
nobody else: no browser and no other request has shown it (`Undelivered`,
`Apart`), so nobody can delete it. From that follow `LoginsHold` and, since
deliveries and losses are the only ways out of this state, the explanations of
`OrphansAreExplained`. The action properties follow from `IInv` and the action at
hand; `LoginsAreTimely` needs that a flow started at a time that has passed
(`StartsPast`). Assumptions: `ValuesAssumption`, `ClockAssumption`.

`LifetimeProofs`: `Invariance`, `TypeCorrect`, `WithinEveryCap`
(`ServedWithinEveryCap`), `WholeLifetime` (`LifetimeIsGranted`),
`CookiesOutlastTheirSession` (`CookiesLastLongEnough`), for all caps, clocks and
lengths of a second. `IInv` says where each stored time came from and how much the
cut to whole seconds took from it (`Dated`), that there is one login
(`OneLogin`), and that a `Max-Age` under way still reaches its end (`Lasting`).
Assumptions: `ClockAssumption`, `CapsAssumption`, `MaxAgeAssumption`.

`DeploymentProofs`, about `SealingKeys`, `RequestRules` and `Routes`:

| Theorem | States |
|---|---|
| `KeysInvariance`, `KeysTypeCorrect` | `[]KeysInv`, `[]TypeOK` |
| `SidecarsAreTrue`, `RotationsLogNobodyOut` | `[]SidecarNamesItsKey`, `CookiesStayReadable` |
| `RulesInvariance` | `[]RulesInv` |
| `LoginRules`, `ActivityRules`, `LogoutRules` | `[]LoginsAreTheUsers`, `[]ActivityIsTheUsers`, `[]LogoutsAreTheUsers` |
| `RoutesTypeCorrect` | `[]RoutesTypeOK` |
| `RoutesInvariance` | `SettingsAreTidy => (RoutesSpec => []RoutesInv)` |
| `RoutesReached`, `UsersReturn`, `SessionsAreShown` | `[]RoutesAreReached`, `[]UsersReturnToTheirPage`, `RoutesSeeTheSession`, under `SettingsAreTidy` |
| `Parts`, `TypesCorrect` | `MCSpec` implements the three specifications; `MCSpec => []TypesOK` |

*Keys*, for any number of rotations, replicas and requests. `KeysInv`: replicas
run the deployment being rolled out or the one before (`Close`), and both open
whatever key is in use (`Openable`); the three stages are what makes this
inductive. Assumptions: `NamedAssumption`, `DeployAssumption`.

*Rules*, for any origins, hosts and sites. The lemmas go from a header back to
what the browser meant: whatever was removed on the way, a page the user opens
passes for a navigation (`UsersNavigate`), and nothing else does but a frame that
does not say it is one (`NavigationsAreTheUsers`). `OwnIsAccepted` needs that the
deployment's own origin has a port, written or by its scheme: `DeploymentsAssumption`
(the grant's redirect URI, from which it is taken, is one browsers follow).

*Routes*, for paths of any length over any characters. Every path is put together
of a prefix without trailing slashes (`Plain`) and a path behind it (`Route`).
Each operation is first shown to exchange the one and keep the other:
`strip_from` (`StripSlash`, `StripSegment`, and `StripCases` for nothing else),
`browser_path` (`BrowserPathStripped` and its siblings), the proxy (`IngressIs`),
`original_url` (`OriginalIs`); `RouteIngress` then says that a route's public path
can be forwarded to the route, and `StripMatches` that where `strip_from` finds a
prefix, browsers show a cookie with that path. With these `RoutesInv` is short:
the engine's paths are derived from its settings (`Mounted`), the session cookie
has the engine's path, a browser at the provider has the cookie of its login where
it will return, and nobody is lost. Assumptions: `PathAssumption`,
`EditsAssumption`.

`SettingsAreTidy`, that no path in the settings ends in two slashes, is a
hypothesis and not an assumption, since `RoutePath::new` accepts such paths. It
cannot be dropped: of a prefix with more than one slash at its end `strip_from`
keeps one (`src/config.rs:245`), while a base path and the prefixes of the modelled
proxy lose all of them, so with a `strip_prefix` of `/a//` the public path of the
callback `/a//b` is `/b`, which this proxy forwards to `/a/b`. TLC finds that in
`Routes` when `Path` has such members. `strip_from`'s documentation and the tests
know prefixes with one slash at the end; those are covered.

`RefreshTimingProofs`: `Invariance`, `HeldWithinBudget` (`[]RequestsAreNotHeld`),
`ServersAreObeyed` (`RetryAfterIsHonoured`), `OnlyLiveTokensAreServed`
(`ServedTokensAreLive`), `RefreshesAreTimely` (`RefreshesInTheWindow`),
`TypeCorrect` (`[]RefreshTypeOK`), for all margins, lifetimes, delays and budgets.
`IInv` bounds the sleep of each attempt (`Budget`) and says that a request wakes
when the server's time is over (`Obeys`). Delays are integers throughout: that
the backoff's powers of two are not negative needs induction, and nothing here
depends on it.
Assumptions: `DurationsAssumption`, `RetryAfterAssumption`.

`ResponseGuardsProofs`: `Invariance`, `TypeCorrect` (`[]GuardsTypeOK`), `OneFate`
(`[]EveryRotationHasOneFate`), for any number of requests and rotations. Every
action moves one rotation from one holder to another or to a fate; `Moved` is the
lemma for that step, and `AllIssued` says that a rotation to come has no holder
yet. Assumption: `RotationAssumption`.

Induction. The library's induction rules take an operator as a parameter, which
the provers cannot instantiate. Where a proof needs induction, it takes the least
element of the set of counterexamples instead (`LeastElement`, from
`WFMin` and `NatLessThanWellFounded`): so do `LowestMany` in
`CookieSessionProofs`, for the size of a batch, and `MaxIs` in `DeploymentProofs`,
for the last character of a path that is no slash.

Only model-checked: `RequestsAreAnswered` (liveness under fairness, and that a
begun request always has a step it can take, which is an `ENABLED`, are beyond the
prover; that it cannot take steps for ever is `BudgetsRunDown`). Every other property of a passing run is stated by a theorem.

## 5. The findings

### Fail-open without end

`docs/explanation/liveness.md` says that a session whose final activity
triggered a refresh can fail open "for up to one access-token lifetime past its
idle timeout". This holds, and is proved, when every request counts as activity
(`FailOpenEnds`). Under `ActivityPolicy::NavigationsOnly` or `FirstParty` it
does not: a request that is not activity still refreshes the session and so
moves the record's deadline on, but never touches the liveness entry. The entry
is reaped, every later read finds none and answers "active", and further
background requests keep the record alive: the window has no end. The run
`liveness_polls` shows the first request past the bound. The cheap remedies
would be to let the refresh of a non-activity request extend the *entry's*
retention without moving its activity time, or to state the restriction in the
documentation.

### A termination undone by its own response

`terminate_session` promises cookies "that clear the browser", and
`docs/how_to/adapter.md` tells the adapter to "always deliver its browser
clears". The adapter in the same document runs the handler and then appends the
`set_cookies` of `LoadedSession::Active`. When the request refreshed a
cookie-backed session, these are a complete save; they follow the handler's
clears on the response, the browser applies them in order, and the session is
back (`cookie_adapter`). For the store-backed driver this is harmless, since the
record is deleted. An adapter that appends the engine's cookies first, or drops
them when the handler has cookies of its own, does what is promised
(`HandlerDecides`).

### A stored session served past its token

`docs/explanation/session_model.md` calls an `Active` session "usable and
persisted", and a comment in `teardown_observed` says that a newer revision "can
expire while this request waits for its exchange" and must then not be served.
`teardown_observed` checks that; the eager persist does not. When the exchange of
the slower of two requests succeeds, `commit_refresh` finds the other's refresh
committed and returns that session, and `refresh_or_clear` serves it as `Active`
without comparing its expiry to the clock (`engine/mod.rs:1233`). The run
`refresh_overtaken` has an exchange that takes as long as the other's token
lives. It needs short-lived tokens or a slow token endpoint, and the next request
refreshes again; `ServedTokensAreLive` holds for every other way of serving.

## 6. What is not modelled

* The AEAD, its associated data and the encoding of cookies (only that a value
  opens with the right key and not with another, and not when it is torn); the
  OAuth client beyond what an exchange may answer; the syntax of URIs, paths and
  headers; rendering. These are libraries, or computations on bytes without a
  protocol.
* Metrics except `huskarl.session.dropped`, whose counting is
  `ResponseGuards`'s: no later step reads them.
* The application's session value beyond "which changes are in it", and what an
  enricher computes; `Lifetime` has the time it takes and `LoginFlow` its failure.
* The builders' checks of fields that no modelled behaviour depends on (empty
  names, URL schemes).
* The size limits in bytes: a save is within the budget or is not.
* An adapter's handling of bodies and status codes; adapters are not in the
  repository.

`components` in `PROJECT.json` lists every part with its status.

## 7. The plan

Each module is written so that it can be proved about (constants with named
assumptions, one action per operation, no `RECURSIVE`).

1. Done: `Tokens`, `ExternalStore`, `AuthServer`, `SessionRequests`,
   `AtomicSession`; `Liveness`; `CookieSession`, `AtomicCookie`; their runs and
   proofs.
2. Done: `LoginFlow`, `Lifetime`, `SealingKeys`, `RefreshTiming`,
   `ResponseGuards`, their runs and proofs; `Routes`, `RequestRules` and their run.
3. Done: proofs of all safety properties that the runs check, and that the work
   of a request is bounded.
4. Left: `LoginFlow` with several browsers that share a stolen or copied pointer,
   and `Liveness` with clocks that differ, as `Lifetime` has them.
