# Gridlane in TLA+

This directory holds the formal model of Gridlane, the routing tier in front of
selenwright backends: TLA+ modules translated from the Go sources, TLC
configurations that model-check them on small instances, and theorems about
them that TLAPS has checked. `PROJECT.json` lists components, runs, mutants,
the source lines each definition stands for, hazards and findings; this file
says what it amounts to.

Contents: [the system](#the-system) · [modules](#modules) · [runs](#runs) ·
[fairness](#fairness) · [proofs](#proofs) · [divergences](#where-the-code-and-its-documents-part) ·
[environment](#what-is-assumed-of-the-outside) · [left out](#not-modelled) · [plan](#plan)

## The system

A client asks Gridlane for a browser session (`POST /session` for WebDriver, an
upgrade of `/playwright/<browser>/<version>` for Playwright). Gridlane picks a
backend pool that is in rotation and serves the browser, passes the request on,
and gives the client a public session id that carries a token of the pool
(`r1_<token>_<upstream id>`). Every later request names that id, so the pool is
found without any session table: Gridlane keeps no state about sessions. All
it remembers is the health of pools, learnt from the outcomes of the requests
it passes on, which is forgotten with each reload, and the counters of its metrics,
which are not.

| component | state | operations | talks to |
|---|---|---|---|
| health manager (`internal/health`) | per pool a failure counter and a deadline, under one mutex | `Available`, `ReportSuccess`, `ReportFailure`, `Snapshot` | asked by the selector and `defaultBackend`, told by the proxy, scraped by metrics |
| selector (`internal/routing`) | none but a random source; a scan per call | `SelectFirst`, `Select`, `candidates`, `weighted`, `CatalogSupports`, parsing of capabilities | asks the health manager, pool by pool, with no lock around the scan |
| proxy handler (`internal/proxy`) | per request: the pool it goes to, what came back, what was reported | `createSession`, `proxyPlaywright`, `proxyWebDriverSession`, `proxySideEndpoint`, `reverseProxyWithResponseSession` | selector, health manager, metrics, backends |
| session ids (`internal/sessionid`) | none | `Encode`, `Decode`, `TokenForBackend` | used by the proxy on every path that names a session |
| runtime and reload (`internal/app/runtime.go`, `reload.go`) | two atomic values: the handler that serves, the manager that is scraped | `NewRuntime`, `Reload`, `ServeHTTP`, `Snapshot` | SIGHUP, the files, requests pinned to the runtime they began with |
| server lifecycle (`internal/app/server.go`) | a goroutine and a channel slot per listener, one drain deadline | `Run`, `shutdownServers` | signals, `net/http` |
| configuration (`internal/config`) | immutable once loaded | `LoadFile`, `Validate` | the source of pools, catalog and policies |
| authentication, credentials, identity (`internal/auth`, `app/middleware.go`, `proxy/credentials.go`, `proxy/reverseproxy.go`) | tables of users and secrets, immutable per runtime | `Resolve`, `NewPolicy`, `Authorize`, `StripHeaders`, `applyUpstreamIdentity` | wrapped around every route; shapes the headers a backend sees |
| metrics (`internal/observe`) | maps of counters and histograms, under one mutex | `RecordHTTPRequest`, `RecordProxyRequest`, `RecordWebSocketSession`, `WritePrometheus` | fed by middleware and proxy, scraped together with the health manager |
| catalog view (`internal/catalog`) | none | `SanitizedConfig`, `Quota` | shows the configuration of the runtime that serves |

What is hard here is not any one of them but their timing:

- a success that was sent before a pool tripped is reported while it is out, a
  failure likewise; a scrape of `/metrics` writes to the health manager;
- the selector sees each pool at a different moment, and the pool it chose may
  be out by the time it is used;
- a backend may create a session and then time out, break off or send something
  unusable; a client may hang up at any point, also when its session is there and only
  has to be written; an upgrade may fail after its 101;
- a SIGHUP may arrive while a reload is under way, files may change between
  reading the configuration and resolving its secrets, and requests outlive the
  runtime they started with;
- counters and histograms are copied under one lock and health is read under another,
  while requests report to one and count in the other, and a reload replaces the one
  and keeps the other;
- the reverse proxy goes on changing headers after the code of this repository has set them;
- a listener may fail while another drains, both drains share one deadline, and
  connections taken over by an upgrade are unknown to the server that drains.

What makes each component correct:

- *health*: out of rotation after exactly `failure_threshold` failures in a row,
  for one cooldown after the last, never for good, never let in early;
- *selector*: ends, refuses only when no suitable pool was up throughout, and
  keeps region and order of preference wherever a steady pool allows;
- *proxy*: no session is lost without a failure on its pool, unless it is the client that
  is no longer there to take it; sessions are reached under the id their pool knows; every
  request ends;
- *session ids*: a public id names one session and is decoded to it, whatever
  id a backend chose;
- *reload*: the last signalled files come to serve, and a generation ejects its pools
  for failures of its own requests only;
- *metrics*: a scrape shows one moment, and never an attempt that has not been reported:
  to the manager it prints, until that is replaced, and to some manager after that;
- *configuration and access*: a runtime that comes to serve is whole (its secrets
  resolved, its users able to get in, its pools drawable), and what a backend hears of who
  is asking it hears from the router, in terms of the runtime that admitted the request;
- *lifecycle*: `Run` ends within one graceful period with the error that caused
  it, and returns nil only after a clean drain.

## Modules

| module | models | composed from |
|---|---|---|
| `CircuitBreaker` | what the health manager promises, without its clock | – |
| `HealthManager` | `health.Manager`, one action per method | refines `CircuitBreaker` |
| `HealthHistory` | the manager with a memory of its reports | extends `HealthManager` |
| `Matching` | `CatalogSupports`, `prefixMatchAny`, the static part of `candidates` | – |
| `Selector` | `SelectFirst`/`Select`, one step per pool scanned | `Matching` |
| `SelectorHistory` | the selector with a memory of the pools' health | extends `Selector` |
| `Proxy` | the life of a request in `proxy.Handler`, with clients and backends | instances of `HealthManager` and `Selector` |
| `Reload` | SIGHUP, the reload goroutine of `Run`, `NewRuntime`, `ReloadingHandler` | – |
| `Lifecycle` | `Run` and `shutdownServers` | – |
| `SessionId` | `sessionid.Encode` and `Decode` over sequences of letters | – |
| `SessionPaths` | what the handlers make of a path that names a session | extends `SessionId` |
| `Metrics` | `observe.Metrics`, the handlers that report and count, the scrape | extends `CircuitBreaker` as the manager |
| `Config` | `config.Validate`, after decoding | – |
| `Access` | `auth`, the secrets and headers of `proxy`, `NewRuntime`, the scopes of the mux | extends `Config` |
| `Capabilities` | the parsing of new-session payloads and Playwright paths, with a reference merge | – |
| `Gateway` | a request between its arrival and a backend, across reloads | extends `Access`, `Capabilities`, `Matching` |
| `HealthManagerProofs`, `SelectorProofs`, `ProxyProofs`, `MetricsProofs`, `AppProofs`, `SessionPathsProofs`, `GatewayProofs` | the theorems | extend the module of that name, the first two its history, `AppProofs` both `Reload` and `Lifecycle`, `ProxyProofs` with an instance of `SelectorProofs` |
| `SetLemmas` | facts about sums over finite sets, and induction | – |
| `MC*` | small instances | extend the modules above |

**HealthManager.** `failures` and `unhealthyUntil` are the fields of
`backendState`; `now` is the clock. Every method holds `Manager.mu` throughout,
so each is one atomic action; its early returns (unknown id, health not
watched, pool in cooldown) are stutters. `Snapshot` is an action because it
clears the records of pools whose cooldown is over. The refinement maps a
pool without a deadline to `closed`, with a future one to `open`, with a past
one to `halfopen` (back in rotation, counter not yet cleared), and the deadline to
the time left. `CircuitBreaker` counts down instead of keeping a clock, which
makes its state space finite and lets it state liveness.

**Selector.** A caller's `call` is the local state of `SelectFirst`, `Select`
and `candidates`: which request of the list, whether the region still counts,
how far the scan is, what matched so far. One `ScanPool` is one turn of the
loop; `Flip` lets any set of pools change between two turns. `weighted` draws a
number below the sum of the weights, any of them, and takes the first match
whose partial sum passes it; sums wrap around at `MaxInt`, and a total that is not
positive makes `IntN` panic. `DrawIsProportional` counts the draws of each pool.

**Proxy.** A request goes through `new`, `selecting` or `scanning`, `sent`,
then for a new session `rewriting`, for an upgrade `switching` and `tunnel`,
and `done`. The fields `verdicts` and `records` are what the request told the
health manager and the metrics. Selecting, sending, the backend's doing, its
answer and the reports are separate steps. Every report is the manager's own
action and every step of a selection the selector's, so `UsesHealthManager`
and `UsesSelector` (the specifications of those modules as properties) say that
the composition uses its parts in no other way than they are specified for.
`Lose` stands for a timeout, a transport error or a client gone, at any time
after sending, whether or not the backend has acted. The field `client` says whether
the client is there, has gone, or is there and cannot be written to any more because the
server's `WriteTimeout` has passed: the last write of a new session is answered `session`
only in the first case, and `unread` otherwise, since `createSession` does not look at its
error. For an upgrade, whose connection is hijacked and has no deadlines, only a client
that has gone loses it. A 101 may come for any request that goes through the reverse proxy;
a create goes through `http.Client`, which follows redirects, so that all its hops are one
exchange and the last one speaks for all.

**Reload.** `gens` is the list of runtimes ever built, each with the counters of its
own manager and the pools that manager has out, without the clock: a cooldown ends when
`Recover` says so. `current` and `currentHealth` are the two atomic values. The loader
reads the configuration, resolves secrets, stores the handler and stores the manager in
four steps, and fails where the code can fail. A request reports to the manager of its
generation (`Struck`, `Acquitted`), and both kinds of scrape ask one: `Scrape` the manager
of `currentHealth`, `ScrapeOwn` that of the request's runtime. The field `own` of a runtime is
history: it counts, per pool, the failures in a row of the requests this runtime serves,
whichever manager they were charged to, and `EjectionsStayInTheirGeneration` compares
the two.

**Lifecycle.** `serve` is each listener's goroutine, `errCh` the buffered
channel, `run` the goroutine of `Run`. The `net/http` server is external:
`Shutdown` closes the listener, waits for busy connections and does not know
hijacked ones.

**Metrics.** A request arrives, is reported, is counted and returns, in that order
but in separate steps, since each takes another lock or none; a scrape copies all
series in one step, because `WritePrometheus` holds the mutex while it does, then
prints them and asks the manager in another. The manager is `CircuitBreaker`, which
`HealthManager` has been shown to implement. `Reload` puts a fresh one in its place and keeps
every series, as `ReloadingHandler.Reload` does; requests under way go on reporting to the one
they came to, of which only the number of reports is kept (`told`, next to `known` for the one
that is printed). A side endpoint is recorded under the protocol of the session it names, and
a 101 on one of a Playwright session counts as upgraded. A series is a key of a function, absent
until it is first counted. The method label, which the HTTP counter and its
histogram share, and the sums of histograms are left out.

**Config, Access, Capabilities.** Pure operators. Texts that are taken apart (user names,
passwords, browsers) are sequences in which a word may stand for one letter; a
secret reference is its scheme, the form of its name and the name, and a *store* is what
environment and files hold. Absent blocks, failed resolutions and runtimes that could not
be built are all `None`.

**Gateway.** `gens` are the runtimes built so far, each with the configuration and the
store it was made from; `request` is one request, from `Arrive` (the middleware:
identity headers stripped, `Authorize` by the scope of the route) to `Forward` (the
capabilities parsed, a pool that serves one of them, the headers the backend receives).
`UpstreamHeaders` is where the two ways upstream part: `createSession` leaves out the headers
for one hop and stamps what remains; the reverse proxy stamps in its `Director`, and only then
does `httputil` remove those headers, and with them all that the client names in `Connection`.
Between the two any number of reloads may happen. A pool is any that serves: health and
the draw are `Selector`'s. Configuration and secrets are read in one step
here; that they are read one after the other is `Reload`'s subject. `SanitizedConfig`
and `Quota` are what the catalog endpoints show.

**SessionId, SessionPaths.** A text is a sequence of letters. `Encode`
joins prefix, token and upstream id with the separator, `Decode` cuts at the first
two. `SessionPaths` covers the four kinds of paths with a session in them, the suffixes
of recordings and logs, and what is done about a pool that is configured no more.

`\* Mutant` marks operators that are not part of a specification: each is a bug
the definition after it could have had, and `PROJECT.json` names the property that
notices it.

## Runs

`tlc -config X.cfg M`, with M the name of X up to any `_`. Deadlock is checked
in every run (`Lifecycle` has an explicit stuttering step for the ended process).

| run | distinct states | shows |
|---|---|---|
| `MCHealthHistory` | 297 542 | type, safety and action properties of the manager and its refinement, and agreement with the full history of reports |
| `MCSelector` | 8 067 | a selection ends; it fails only if no suitable pool stayed up; what it picks could serve; preferences are kept; the draw is proportional to the weights |
| `MCProxy` | 905 401 | two concurrent requests of any kind: no session lost without a failure unless its client had gone, sessions reached, metrics and health agree, parts used as specified |
| `MCProxy_Live` | 448 139 | the same over a single pool, so that no pool may be left: every request ends |
| `MCReload` | 572 540 | merged signals lose no change; the scraped manager lags at most one reload under way; a generation ejects for failures of its own requests only |
| `MCLifecycle` | 4 954 | `Run` ends in one graceful period, with its cause, and nil means drained |
| `MCMetrics` | 1 193 145 | a scrape adds up and counts nothing that was not reported, across a reload; a pool struck no more comes back and stays, with no success or scrape needed |
| `MCGateway` | 301 822 | runtimes that serve are usable; a backend sees the caller the admitting runtime knew, or misses what the client had dropped; alternatives are merged key by key |
| `MCSessionPaths` | 100 620 | ids round-trip, nothing else is routed, commands and recordings get the right path |

The runs `MCProxy_Hangup`, `MCProxy_BadBody` and `MCReload_Survivors` check one
statement of the documentation each and find it violated; they are discussed below.

Bounds, and why they are enough:

- *Health*: pools do not interact in the manager, so one pool per kind of
  policy would do: threshold 2 with a short cooldown, threshold 0 (normalised
  to 1) with the default cooldown, a negative cooldown, health not watched, and
  an unknown id. `MaxTime = 6` is twice the longest cooldown, `MaxFailures = 3` is one more
  than the highest threshold: a pool trips, is prolonged, comes back and trips again.
  `MaxTime` and `MaxFailures` bound the clock and the counters in the guards
  of `Tick` and `Next`, and nothing else.
- *Selector*: one caller, since callers share nothing but the pools' health, which
  changes arbitrarily. Three pools in two regions, one WebDriver only; requests
  for a region with two pools, one, or none, for a browser nobody lists, and
  lists of alternatives.
- *Proxy*: two requests, which is what it takes for one to use the other's
  session and for two reports to race; one pool trips at once, the other at the
  second failure; two ticks let a cooldown of one end. One request can put only one
  pool out, so the answer 503 of `DefaultBackend` needs the run over a single pool. One of the ids a WebDriver
  backend may choose begins with `pw_`. Clients go, and write deadlines pass, at any step.
- *Reload*: three contents of the file (one pool, the same and another, and one that does
  not validate), two secrets and none; three edits and two signals are enough for a signal
  to arrive during a reload and a change after it, and for a pool to be added, dropped or
  kept. One request, which may be under way across both reloads and be served again and
  again; `Threshold = 2`, so that an ejection needs two failures and one charged to the wrong
  manager shows in the next.
- *Lifecycle*: router and metrics listener, two requests, three ticks of grace.
- *Metrics*: two requests, which is what it takes for one to count while the other's
  series are printed; a pool that trips at once and one that does at the second failure;
  a new session, the only kind whose failure may be missing, a Playwright session, which may
  be recorded twice, and `/vnc` of a Playwright session, which is upgraded without having been
  started. One reload: a request is either of the runtime there is or of one that was replaced,
  and those are all alike. Two bucket bounds and a duration between them.
- *Gateway*: one sound file and those that differ from it in one block, valid or not, so
  that each check of `Validate` is what stands between some file and service; four stores
  (before and after secrets were rotated, a file with nothing but a newline, almost all
  unset). `MaxLoads = 2`: a request is pinned to one runtime and can be overtaken by
  one other; a third would be like the second. Lists of up to two alternatives over five
  entries (one that names only the browser, one whose browser is no string, one that names
  none, one with an empty version, one that is no object). Two of the identity blocks name a
  header that the router writes anyway, which `Validate` lets pass. Three kinds of request carry a
  `Connection` that names the identity header, the credentials or the router secret, one of them
  a new session.
- *Session paths*: all upstream ids of up to three letters over `a`, `p` and the
  underscore, so that separators stand at every place, all other texts of
  four letters over prefix, token and separator, and tokens one of which begins
  with the other.

## Fairness

- *Selector, Proxy, Reload*: the goroutine of a call, a request or the reload
  loop gets on (weak fairness of its own steps). In `Proxy` that includes `Lose`:
  `createSession` has a context with a timeout (`session.go:54`) and the transport
  of every other request a response header timeout (`proxy.go:184`), which runs once
  the request is on a connection; that there is one to be had (128 per host) is assumed. Clients, backends, scrapes,
  signals and clocks owe nothing.
- *Lifecycle*: `Run` is a goroutine, and time passes. Requests need not end.
- *Metrics*: time passes, and nothing else (`WF` of `Pass`). The claim that pools come
  back (`EventuallyBackInRotation`) is made for pools that are not struck any more;
  nothing is assumed about traffic or scrapes.
- *HealthManager, SessionPaths, Gateway*: none; they make no liveness claim.

## Proofs

All for every value of the constants that meets the assumptions of the modules. The
properties are those the runs check, but for the ones marked •, which no run does.

| module | theorem | states |
|---|---|---|
| `HealthManagerProofs` | `Typing`, `DeadlineMatchesCounter`, `DeadlineBounded` | `Spec => []TypeOK`, `[]DeadlineIffThreshold`, `[]DeadlineWithinCooldown` |
| | `EjectionServed`, `Refinement` | `Spec => CooldownServed`, `Spec => IsCircuitBreaker` |
| | `OutForCause`, `ThresholdPutsOut` | `HSpec => []OutOnlyAfterThresholdInARow`, `[]ThresholdInARowPutsOut` |
| `SelectorProofs` | `Typing`, `Proportional` | `Safety => []TypeOK`, `[]DrawIsProportional` |
| | `OneSteadyPoolIsEnough`, `ChosenServes`, `PreferencesFirst` | `HSpec => []FailsOnlyIfNoPoolStayedUp`, `[]ChosenCouldServe`, `[]PreferencesKept` |
| `ProxyProofs` | `Typing`, `LostSessionsCost`, `SessionsFound`, `MetricsAgree` | `Safety => []TypeOK`, `[]LostSessionsAreCharged`, `[]SessionsAreReached`, `[]MetricsMatchReports` |
| | `SelectorIsUsed`, `HealthManagerIsUsed` | `Safety => UsesSelector`, `UsesHealthManager` |
| `MetricsProofs` | `ScrapesAgree`, `CountsFollowReports` | `MSpec => []ScrapesAddUp`, `[]CountedAttemptsWereReported` |
| `AppProofs` | `Typing`, `ScrapeLags`, `EjectionsStay`, `SignalsAreNotLost` | `Spec => []TypeOK`, `[]ScrapeLagsOneReload`, `[]EjectionsStayInTheirGeneration`, `[]SignalledFilesServe` (`Reload`) |
| | `RunTyping`, `GraceIsShared`, `NilAfterDrain`, `CauseSurvivesDrain` | `Safety => []RunTypeOK`, `RunSpec => []OneGracefulPeriod`, `[]NilMeansDrained`, `[]CauseIsReported` (`Lifecycle`) |
| | `ListenersNeverBlock` • | a listener that has not ended finds room on `errCh` |
| `SessionPathsProofs` | `EncodeDecode` •, `DecodeEncode` • | `Decode` is the inverse of `Encode`, and accepts nothing else |
| | `IssuedIdsRoundTrip`, `RoutedIdsAreEncoded`, `CommandsArrive`, `RecordingsHaveOneName` | `Spec => []IdsRoundTrip`, `[]OnlyEncodedIdsAreRouted`, `[]CommandsReachTheirSession`, `[]RecordingsAreNamedOnce` |
| `GatewayProofs` | `CallersAreKnown`, `RuntimesAreUsable`, `AlternativesAreMerged` | `Spec => []BackendSeesItsCaller`, `[]ServedConfigsAreUsable`, `[]CandidatesAreMerged` |

**HealthManagerProofs.** Assumed are the constants' assumptions as `config.Validate`
justifies them: thresholds may be zero, cooldowns any integer; the bounds are any
naturals. `PolicyLemma` says that thresholds are positive and cooldowns integers.
`TypeOK` together with `DeadlineIffThreshold` (a pool has a deadline exactly when its
counter has reached its threshold) is inductive, and it is what the others need: without
it a success could find a counter at the threshold with no deadline, which the
abstract circuit breaker (counting strictly below its limit while closed) cannot
have. `DeadlineWithinCooldown` is inductive on top of it. `CooldownServed` is an
action property of one step from the typed state. The refinement shows that
initial states map to initial states, and, one step per action, that a
success is `Acquit` or a stutter, a failure `Count` or `Trip`, a scrape `Amnesty`,
a tick `Elapse` or a stutter.

The history of reports is not determined by the manager's two fields: a scrape clears the
counter and not the streak. `HInv` bounds the counter from both sides (`CounterIsBetween`:
at least the failures since the pool was let back in, at most those in a row), says that a
deadline is one cooldown after the last failure, and that a pool whose cooldown is over has
not failed since (`FreshOnProbation`). The lower bound holds for positive cooldowns only:
with a negative one a deadline is over when it is set, and a scrape may clear the counter at
any time. Neither theorem needs it there.

`HSpec` is the manager with the streak capped as its counters are (`MaxFailures`), and its clock by
`MaxTime`. The theorems hold for every value of the two, and what they exclude would be seen
in some finite behaviour, whose reports and ticks some values of the two allow: so the caps hide
nothing from the theorems. In TLC's run they do cut off what lies beyond three failures in a row.

**SelectorProofs.** The invariant of the history says what the scan has found so far:
`ScanAgrees`, that it has taken only pools it may take and passed over none that stayed up,
and that it ignores the region only if no pool in the region did; `GivenUp`, that no
alternative before the current one had such a pool; and the same of calls that are over.
The proof of proportional draws rests on `ShareLemma`: the partial sums of the weights do not
fall, so a number below the total lies in the share of exactly one match, whose tickets are an
interval as long as its weight; `TotalLemma` relates the wrapping sum to the true one.

**ProxyProofs.** `Inv` speaks of one request at a time: `Good(req[r])` for each. What a request
has reported and recorded is fixed at each point of its handler (`Accounted`), and where it is
over there are eight possible accounts (`Settled`); a session is kept only behind a reply that
may promise one (`Kept`), and what names a session is addressed as its public id says
(`Addressed`). An account without a failure may leave a session behind only where the answer is
`session`, or `unread`, when it reached nobody. `Ending` shows for each way a handler can end that
it leaves such an account;
the three safety theorems are read off. That requests need no more than this is why two of them
are enough in the run. `SelectorIsUsed` and `HealthManagerIsUsed` show that
each step of the composition is one of the part's, or a stutter. The model caps the manager's
counters with `MaxFailures`, and the cap must not be what keeps the proxy within the
specification: a request fails its pool at most once (`Settled` again), so no counter exceeds
the number of requests charged to its pool (`CountersAreCharges`), and `BoundAssumption` (the
cap is at least the number of requests) suffices. What `SelectorProofs` shows is
used through `SameSelector`.

**MetricsProofs.** Invariants, each inductive on those before it. `InStep`: the live
series add up, which `SumsUpStep` preserves, an increment and an observation under one label.
`ReportsLead`: for each pool, what is counted plus what was reported and is still to be counted
is at most what all managers of the process heard, and until a reload the one there is has
heard all of it (`OneManager`). The middle term is needed: without it a second request could
count what only the first one reported. `UpgradesLag`: upgraded sessions, plus the requests of
protocol playwright whose success was counted and that may still be upgraded, are at most the
successes counted. `Taken` carries both over to the copy of a scrape, during which
the live series move on and what was heard only grows (`HeardGrows`). Sums of a series
are `SumFunctionOnSet`, which folds in an unknown order: `SetLemmas` has what is used of it.

**AppProofs**, the reload. `Inv` ties the two atomic values to the steps of the loader (`StoresInOrder`:
the newest runtime serves except between its construction and its store) and pins requests to
pools of their generation (`Pinned`). For each runtime, `Sound` ties its manager to its history: what
the manager has counted of a pool is at most what the runtime's own requests failed in a row, and
for a pool that is out the latter has reached the threshold. The first half is what the second rests
on: without it a failure could bring a counter to its threshold that owed part of it to other
requests. Each step of a manager replaces one runtime and keeps it sound (`KeepsSound`,
`RuntimeLemma`). `SignalReached` follows a change that was signalled: it waits in the channel, or
the loader is yet to read it, or has read it, or has built it, or it serves. An edit
makes it void, since it clears `signalled`, so that a merged signal needs no case of its own.

**AppProofs**, the end. `Budget`, the ticks spent and left make one period, is what
`OneGracefulPeriod` needs. `DrainInv` says what the goroutine of `Run` knows: while it waits,
only real failures are in the channel; what it stopped for stays; servers behind it are shut down
and idle unless it remembers a deadline; and the result follows from the two errors.

**SessionPathsProofs.** `Cut` takes the text up to the first separator, defined as the
least position that holds one; that a least one exists follows from the
well-foundedness of the naturals (`FirstExists`). `CutConcat` says that cutting
`a \o <<Sep>> \o b` gives `a` and `b` when `a` has no separator, `CutFound` the
converse; both directions apply it twice, for the prefix and for the token. The
upstream id may contain separators: that is the case the theorems are
about. `SegmentOfName` and `TrimLemma` say the like of slashes and suffixes. The invariants are
`IssuedByEncode` (a public id that was given out is what `Encode` made of the session) and
`Answered` (an answer is what `ServeHTTP` gives to what was asked).
Assumed is that prefix and tokens have no separator (the prefix is a constant, the
token hexadecimal), ids no slash, and suffixes neither.

**GatewayProofs.** The invariant has three parts: every runtime in `gens` was built by
`NewRuntime` from a valid file (`RuntimesAreBuilt`); a request that is under way is pinned to one
of them (`RequestIsPinned`); and the headers and the verdict it carries are those of that runtime
(`AdmittedByPolicy`). Generations are only appended, so a reload disturbs none of them. The rest is about functions:
`KeyedLemma` (a map filled by names that all differ holds each value under its name),
`PolicyLemma`, `CredentialsLemma` and `IdentityLemma` (what a runtime holds is what the file's
references resolve to, and never empty), `BasicAuthOfBasic` (what `SetBasicAuth` writes of a name
without a colon, `BasicAuth` reads), `StrippedProven` (stripping identity headers proves nobody
else), `StampedLemma` (what stamping leaves in each header) and `HeadersLemma` (what of it is left after
the removal of the headers for one hop: all but what the client nominated, since neither the router's
headers nor those of an identity block that is apart are among those removed always). Assumed are the types decoding
gives (`FilesAssumption`, `StoresAssumption`, and `RequestsAssumption`: what is no array of
alternatives is `NoArray`), that line ends and colons are characters, and that
`None` is no text. The clauses of `BackendSeesItsCaller` about headers ask that those of the
identity block are apart, from each other, from the two the router writes anyway and from those that
`net/http` and `httputil` write or drop on their own; that nobody gets in unproven does not.

That alternatives are merged is a fact about lists: `PickedLemma` says that what a loop with
`continue` collects are the elements under the chosen indices, listed by an increasing function
(`Lists`). The parser has two such loops, over `firstMatch` and over what came of it; the composition of
their lists increases too and reaches just the alternatives that can be tried, and an increasing list
counts what it lists (`RankLemma`). `MergedIsWanted` says that merging two objects and then looking
up a list of keys is what the reference does key by key.

**SetLemmas.** The prover cannot instantiate the library's induction theorems, which take an
operator; `SubsetInduction` and `NatSetInduction` state induction for a *set* of subsets or
numbers, proved from minimal elements. With them `FoldIsSum` shows that a fold over a finite
set has the value a sum has, and `SumStep` and `SumAgree` are how it is used.

Attempts that failed, and what came of them:

- `Accept` of `Proxy` was a `CASE` with overlapping guards: for a 3xx answer to a new
  session two of them are true, and TLA+ does not say which one is taken. TLC takes the first, so
  that the runs had passed. The order of the code's `switch` is now explicit.
- `Proxy` declared nothing of its constants beyond what the runs needed. What `Validate` grants
  (`PoolsAssumption`, `PolicyAssumption`) is now assumed by name and evaluated by the runs, and
  so is that the cap on failures leaves room for the requests there are.
- `BackendSeesItsCaller` was false of an identity block whose `user_header` is `Authorization` or
  `X-Router-Secret`, or whose two headers are one: the last one set wins. `Validate` accepts such
  blocks and the run had none. `ApplyUpstreamIdentity` now sets the headers one by one in the
  code's order, the run has such blocks, and the property says what it needs (`Apart`).
- `LostSessionsAreCharged` was proved of a model that took every session it wrote for given, the
  client gone or not. `createSession` has no way to know: the property now has the exception the code has.
- `ScrapesAddUp` had `upgraded` at most `started`, which held only because side endpoints had a
  protocol of their own in the model. It is false of the program, as is that the manager a
  scrape prints has heard of all that is counted, once there was a reload.
- `EjectionsStayInTheirGeneration` said that a generation ejects none but its own pools, which a
  manager that ignores ids it does not know cannot help. It now speaks of the pools both have.
- `BackendSeesItsCaller` took the `Director` for the last word on headers.
- The keys of counters in `Metrics` were tuples of differing length, and the sums over them
  said so by cases; a counter's key is now the label of its histogram and one label more.

Only model-checked: every liveness property (fairness and `ENABLED` are out of the prover's
reach): `SelectionEnds`, `RequestsEnd`, `ReloadTakesEffect`, `RunEnds` and
`EventuallyBackInRotation`; and the statements of the three runs that are violated. The parser
collects with `Picked` and not with `SelectSeq`, of which the prover has no definition.

## Where the code and its documents part

Checked by a run each, with a counterexample:

| run | statement | what happens |
|---|---|---|
| `MCProxy_Hangup` | README.md:192, pools go out because of failed attempts *upstream* | a client that disconnects makes the proxy report a failure of the pool |
| `MCProxy_BadBody` | README.md:192, `failure_threshold` consecutive failed attempts eject | a 2xx with no usable session id is reported as success, then as failure: as long as such attempts come one after the other, the counter never passes one |
| `MCReload_Survivors` | docs/reload-sighup.adoc:32, unchanged pools keep counter and cooldown | every reload starts with an empty manager |

Met while modelling and visible in the modules, with no run of their own:

- the selector's errors are answered with 400 (`Refuse`; session.go:50,
  playwright.go:32), where docs/webdriver-routing.adoc:85 and
  docs/playwright-routing.adoc:75 say 503;
- side endpoints of a WebDriver session whose backend chose an id with
  `pw_` in front are sent on under the public id (`SideKey`; side.go:69): the
  exception in `SessionsAreReached`;
- a new session whose reply breaks off is missing from
  `gridlane_proxy_requests_total`, an upgrade that fails after its 101 is in it twice
  (`MetricsMatchReports` says exactly how far the two records agree);
- a new session is lost without a failure of its pool, and counted as a success, when its client
  has gone, or the `WriteTimeout` has passed, before the reply is written (`Reaches`; session.go:81,
  107): the exception in `LostSessionsAreCharged`;
- any upgrade of protocol playwright counts as `upgraded`, those of `/vnc`, `/devtools` and `/logs` of
  a Playwright session among them, which never counted as `started` (`Upgrade`; reverseproxy.go:53,
  side.go:77), where docs/observability.adoc:21 speaks of Playwright WebSocket sessions:
  `upgraded` may exceed `started` (`ScrapesAddUp` bounds it by the successes);
- counters outlive the health manager that a reload replaces (`Reload` of `Metrics`; reload.go:45): what
  `/metrics` prints of health afterwards has heard of none of the attempts it counts;
- handler and manager are swapped by two stores, not the single one of
  docs/reload-sighup.adoc:56: the metrics listener may show the previous manager in
  between (`ScrapeLagsOneReload` bounds it);
- the metrics listener accepts connections while the router's drains
  (server.go:95), against docs/cli-flags.adoc:38;
- connections that were upgraded are cut off at once when the process drains, since
  `http.Server.Shutdown` does not know them (`Hijack`, `Drained`; server.go:99), where
  docs/cli-flags.adoc:39 has Gridlane wait for requests in flight;
- two pools that take turns may each be down when the scan asks for them, so a
  session may be refused though at every moment one was up (`ScanPool`;
  `FailsOnlyIfNoPoolStayedUp` promises no more than a steady pool gets);
- failures of requests already under way when a pool trips restart its cooldown
  (`ReportFailure`; health.go:106), where docs/backend-health.adoc:29 counts from the trip;
- after the cooldown a pool has no "fresh counter" (docs/backend-health.adoc:70): it is
  cleared by the next success or scrape only, and before that one failure ejects the pool
  again (`OutOnlyAfterThresholdInARow`, which counts rows across cooldowns);
- the admin token opens the admin routes and no others (`Authorize`; auth.go:123), where
  docs/authentication.adoc:21 has it satisfy all four scopes;
- where both are sent, `X-Gridlane-Admin-Token` wins over the Bearer token
  (`AdminTokenFromRequest`; auth.go:191), where docs/authentication.adoc:87 has the Bearer
  token win;
- quotas are shown and nowhere enforced, where docs/authentication.adoc:62 has a 429;
  `/quota` shows all users to each (`Quota`), where docs/http-api.adoc:74 has the caller's own;
- of a secret file only trailing line ends are trimmed (`TrimRight`; auth.go:61), where
  docs/authentication.adoc:100 and docs/router-configuration.adoc:212 speak of whitespace;
- the region of a new session is `gridlane:region`, `selenoid:region` or `region`
  (`RegionKeys`), not a key of `selenwright:options` as docs/webdriver-routing.adoc:21 has it;
- `admin_header` is never sent: no route with the admin scope is proxied, and the subject of the
  others is no administrator (`ApplyUpstreamIdentity`, and the conjunct of
  `BackendSeesItsCaller` on it), though docs/identity-propagation.adoc:40 lists it among
  what is stamped;
- `user_header` and `admin_header` may name `Authorization`, `X-Router-Secret` or each other
  (`ValidateUpstreamIdentity`; config.go:166): with the first, no client's credentials are ever
  read; with the others, one header is overwritten by the next (`Apart`). No document rules it out;
- a header that the client names in `Connection` is removed by the reverse proxy after it was
  stamped (`Nominated`; reverseproxy.go:39), so that a backend may be told of no user, router secret or
  credentials, though never of wrong ones; docs/identity-propagation.adoc:28 and 35 have them stamped on
  every upstream request;
- an empty `user_header` does not disable the feature, as the comment at config.go:42 has it:
  `Validate` refuses it (`ValidateUpstreamIdentity`; config.go:166), and
  docs/identity-propagation.adoc:26 agrees with that;
- where W3C WebDriver makes an alternative that is no object, or one that repeats a key of
  `alwaysMatch`, an error, the parser skips the one and lets the other win
  (`Merged`, `CandidatesAreMerged`; request.go:112);
- the outcome `error` is recorded for an upgrade that fails after its 101 too (`SwitchFails`),
  where docs/observability.adoc:20 has it mean that the upstream never answered.

## What is assumed of the outside

- A backend that answers the creation of a session with 3xx or 4xx keeps none; with
  anything else, or nothing, it may.
- Two sessions of one backend have different ids; ids have no slash and do not
  end in the suffix of a recording.
- The tokens of pools are distinct: `NewHandler` refuses a configuration in which two collide.
- A `ReverseProxy` removes the headers for one hop, and those `Connection` names, after its
  `Director`; `http.Header` and `net/http` are otherwise taken at their documentation.
- `os/signal` drops a signal that finds its channel full; `atomic.Value` loads
  and stores are atomic.

## Not modelled

- *The transport's connection pool* (128 per host, `proxy.go:180`): how it queues is
  `net/http`'s, and nothing in `src/` bounds the wait. Listed as a hazard.
- *Content that no property needs*: bodies other than the capabilities and the session id,
  the decoding of JSON (duplicate and unknown keys), headers other than those of
  credentials and identity and those for one hop, what `httputil.ReverseProxy` adds
  (`X-Forwarded-For`, the upgrade asked for again), the texts of errors, the format of
  `/metrics`, what `/ping` and `/status` say.
- *A pool whose id is given another endpoint by a reload* while sessions on it go on: their commands go
  to a backend that does not know them. Pools in `SessionPaths` are known or gone.
- *Flags and logging*, and what a SIGHUP does before it is caught: outside the modelled
  part of `Run`.
- *The prefix* `sideroute` carries from the mux to the handler: `SessionPaths` starts from the
  endpoint that was matched.
- *Secrets that change between two reads of one load* in `Gateway`: a store is read as a
  whole there. `Reload` separates the configuration from the secrets, not one secret from
  the next.
- *User names with a colon*, which pass `Validate` and cannot be presented, and
  `user_header` values that are no header name: the first is why `UsersGetIn` makes an exception,
  the second is decided by `net/http`.

## Plan

Every component that changes state is modelled, the transport apart, and every safety property
and action property of the passing runs is proved. What is left, in order of what matters:

1. *Refinement of `Metrics`*: its manager is `CircuitBreaker`; that the composition takes the
   steps of that specification only, from one reload to the next.
2. *Transfer*: what `HealthManagerProofs` shows of the manager, restated for the one in `Proxy`
   through `HealthManagerIsUsed`, as `SelectorProofs` is already.
3. *Connection pool*: requests waiting for one of 128 connections, with no timeout but that
   of a new session.
