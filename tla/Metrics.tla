------------------------------- MODULE Metrics -------------------------------
(***************************************************************************)
(* internal/observe/metrics.go and those who feed it: the handlers report   *)
(* an attempt to the health manager and then count it, the middleware       *)
(* counts the request when its handler returns, and a scrape copies the     *)
(* series under the lock, prints them after it, and then asks the manager.  *)
(* The manager is the one CircuitBreaker specifies, until a reload puts a   *)
(* fresh one in its place: the counters are kept, and a request goes on     *)
(* reporting to the manager of the runtime it came to. Of a manager that    *)
(* was replaced nothing is kept here but what it was told; the window       *)
(* between the two stores of a reload is in Reload. A series that was never *)
(* counted does not exist, as in the maps of the code. Left out are the     *)
(* label of the HTTP method, which counter and histogram share, and the sum *)
(* of a histogram.                                                          *)
(***************************************************************************)
EXTENDS CircuitBreaker, SequencesExt

CONSTANTS
    Request,        \* HTTP requests, one handler run each
    Paths,          \* the paths of requests, as sequences of segments
    PwSegments,     \* the segments that name a Playwright session
    MaxReloads,     \* bound on the reloads
    Bounds,         \* upper bounds of the latency buckets
    Durations       \* how long requests and attempts may take

ASSUME BoundsAssumption == Bounds \subseteq Nat /\ Durations \subseteq Nat
ASSUME RequestAssumption == IsFiniteSet(Request)
ASSUME ReloadsAssumption == MaxReloads \in Nat

VARIABLES
    req,                            \* the requests and the attempts they make
    httpRequests, httpDurations,    \* the fields of Metrics
    proxyRequests, proxyDurations,
    websocketSessions,
    scrape,                         \* the scrape under way
    runtime,                        \* how often the runtime was replaced
    known,                          \* reports to its manager, by pool and verdict
    told                            \* history: those to all managers there were

managers == <<runtime, known, told>>
proxySeries == <<proxyRequests, proxyDurations>>
httpSeries == <<httpRequests, httpDurations>>
mvars == <<req, httpSeries, proxySeries, websocketSessions, scrape, managers>>

Outcomes == {"success", "failure", "client_error", "error"}
Faults == {"failure", "error"}

-----------------------------------------------------------------------------
\* Labels and series.

Starts(path, prefixes) == Len(path) >= 2 /\ path[1] \in prefixes

SidePrefixes == {"vnc", "devtools", "video", "logs", "download", "downloads", "clipboard"}

\* The template of a path: ids and versions do not become labels.
RouteLabel(path) ==
    CASE path = <<>> -> <<"">>
      [] path \in {<<s>> : s \in {"ping", "status", "config", "quota", "metrics"}}
                    \cup {<<"history", "settings">>} -> path
      [] IsPrefix(<<"wd", "hub", "session">>, path) -> <<"wd", "hub", "session", ":session">>
      [] IsPrefix(<<"session">>, path) -> <<"session", ":session">>
      [] Starts(path, {"playwright"}) -> <<"playwright", ":browser", ":version">>
      [] Starts(path, SidePrefixes \cup {"host"}) -> <<path[1], ":session">>
      [] OTHER -> <<"other">>

NewSession == {<<"session">>, <<"wd", "hub", "session">>}

\* What the mux hands to the proxy, /host/ apart, and the protocol it is
\* recorded under: a side endpoint has that of the session it names, and one
\* that names none ("side" here) has the empty one.
Protocol(path) ==
    CASE \E new \in NewSession : IsPrefix(new, path) -> "webdriver"
      [] Starts(path, {"playwright"}) -> "playwright"
      [] Starts(path, SidePrefixes) /\ path[2] # "" ->
            IF path[2] \in PwSegments THEN "playwright" ELSE "webdriver"
      [] Starts(path, SidePrefixes) \/ IsPrefix(<<"history", "settings">>, path) -> "side"
      [] OTHER -> "none"

NoHistogram == [buckets |-> [b \in Bounds |-> 0], count |-> 0]

Value(series, key, default) == IF key \in DOMAIN series THEN series[key] ELSE default

Incremented(series, key) ==
    [k \in DOMAIN series \cup {key} |-> Value(series, k, 0) + IF k = key THEN 1 ELSE 0]

\* histogramFor and observe: every bucket that holds the value counts it.
Observed(series, key, value) ==
    LET h == Value(series, key, NoHistogram)
        next == [buckets |-> [b \in Bounds |-> IF value <= b THEN h.buckets[b] + 1 ELSE h.buckets[b]],
                 count |-> h.count + 1]
    IN  [k \in DOMAIN series \cup {key} |-> IF k = key THEN next ELSE series[k]]

-----------------------------------------------------------------------------
\* Requests.

NewRequest ==
    [pc |-> "new", path |-> <<>>, runtime |-> 0, pool |-> "none", outcome |-> "none",
     status |-> "200"]

NoReports == [p \in Pool |-> [good |-> 0, bad |-> 0]]

NoScrape == [pc |-> "idle"]

MInit ==
    /\ Init
    /\ req = [r \in Request |-> NewRequest]
    /\ httpRequests = <<>> /\ httpDurations = <<>>
    /\ proxyRequests = <<>> /\ proxyDurations = <<>>
    /\ websocketSessions = <<>>
    /\ scrape = NoScrape
    /\ runtime = 0 /\ known = NoReports /\ told = NoReports

At(r, pc) == req[r].pc = pc
Becomes(r, state) == req' = [req EXCEPT ![r] = state]

\* A request is pinned to the runtime there is. It is answered without a backend,
\* or placed on a pool; a Playwright session counts as started before it is passed
\* on, a side endpoint of one does not.
Arrive(r, path) ==
    /\ At(r, "new")
    /\ \/ /\ \E status \in {"200", "401"} :
               Becomes(r, [req[r] EXCEPT !.pc = "returning", !.path = path, !.status = status])
          /\ UNCHANGED websocketSessions
       \/ /\ Protocol(path) # "none"
          /\ \E p \in Pool :
               /\ Becomes(r, [req[r] EXCEPT !.pc = "sent", !.path = path,
                                                !.runtime = runtime, !.pool = p])
               /\ websocketSessions' =
                     IF path[1] = "playwright"
                     THEN Incremented(websocketSessions, <<p, "started">>)
                     ELSE websocketSessions
    /\ UNCHANGED <<vars, httpSeries, proxySeries, scrape, managers>>

\* What the manager of the request's runtime makes of a report. Nobody asks one
\* that was replaced about its pools, but for requests that are placed already.
ReportFailure(r) ==
    LET p == req[r].pool
    IN  /\ told' = [told EXCEPT ![p].bad = @ + 1]
        /\ IF req[r].runtime = runtime
           THEN Strike(p) /\ known' = [known EXCEPT ![p].bad = @ + 1]
           ELSE UNCHANGED <<vars, known>>
        /\ UNCHANGED runtime

ReportSuccess(r) ==
    LET p == req[r].pool
    IN  /\ told' = [told EXCEPT ![p].good = @ + 1]
        /\ IF req[r].runtime = runtime
           THEN /\ IF InRotation(p) THEN Acquit(p) ELSE UNCHANGED vars
                /\ known' = [known EXCEPT ![p].good = @ + 1]
           ELSE UNCHANGED <<vars, known>>
        /\ UNCHANGED runtime

Status(outcome) ==
    CASE outcome = "success" -> "200"
      [] outcome = "client_error" -> "404"
      [] outcome = "failure" -> "500"
      [] outcome = "error" -> "502"

\* The first half of classifyAndRecord, of the error handler, and of a new
\* session whose request fails.
Report(r) ==
    /\ At(r, "sent")
    /\ \E outcome \in Outcomes :
         /\ Becomes(r, [req[r] EXCEPT !.pc = "reported", !.outcome = outcome,
                                      !.status = Status(outcome)])
         /\ CASE outcome \in Faults -> ReportFailure(r)
              [] outcome = "success" -> ReportSuccess(r)
              [] OTHER -> UNCHANGED <<vars, managers>>
    /\ UNCHANGED <<httpSeries, proxySeries, websocketSessions, scrape>>

\* Mutant: the attempt is counted as soon as its outcome is known.
RecordFirst(r) ==
    /\ At(r, "sent")
    /\ LET key == <<Protocol(req[r].path), req[r].pool>>
       IN  \E outcome \in Outcomes, d \in Durations :
             /\ proxyRequests' = Incremented(proxyRequests, <<key, outcome>>)
             /\ proxyDurations' = Observed(proxyDurations, key, d)
    /\ Becomes(r, [req[r] EXCEPT !.pc = "recorded"])
    /\ UNCHANGED <<vars, httpSeries, websocketSessions, scrape, managers>>

\* The second half: RecordProxyRequest.
Record(r) ==
    /\ At(r, "reported")
    /\ LET key == <<Protocol(req[r].path), req[r].pool>>
       IN  \E d \in Durations :
             /\ proxyRequests' = Incremented(proxyRequests, <<key, req[r].outcome>>)
             /\ proxyDurations' = Observed(proxyDurations, key, d)
    /\ Becomes(r, [req[r] EXCEPT !.pc = "recorded"])
    /\ UNCHANGED <<vars, httpSeries, websocketSessions, scrape, managers>>

\* A new session whose reply breaks off before it is classified, or turns out to
\* name no session after it was: reported and not counted.
BreakOff(r) ==
    /\ req[r].path \in NewSession
    /\ \/ At(r, "sent")
       \/ At(r, "recorded") /\ req[r].outcome = "success"
    /\ ReportFailure(r)
    /\ Becomes(r, [req[r] EXCEPT !.pc = "returning", !.status = "502"])
    /\ UNCHANGED <<httpSeries, proxySeries, websocketSessions, scrape>>

\* A success of the reverse proxy that is a 101, whatever it upgrades; any other is
\* passed on as it came. Every one of protocol playwright is counted, those of the
\* side endpoints of a Playwright session among them.
Upgrade(r) ==
    /\ At(r, "recorded")
    /\ req[r].outcome = "success" /\ req[r].path \notin NewSession
    /\ websocketSessions' =
          IF Protocol(req[r].path) = "playwright"
          THEN Incremented(websocketSessions, <<req[r].pool, "upgraded">>)
          ELSE websocketSessions
    /\ Becomes(r, [req[r] EXCEPT !.pc = "switching"])
    /\ UNCHANGED <<vars, httpSeries, proxySeries, scrape, managers>>

\* The error handler runs after the 101: the attempt is counted once more.
SwitchFails(r) ==
    /\ At(r, "switching")
    /\ ReportFailure(r)
    /\ Becomes(r, [req[r] EXCEPT !.pc = "reported", !.outcome = "error", !.status = Status("error")])
    /\ UNCHANGED <<httpSeries, proxySeries, websocketSessions, scrape>>

\* The middleware, after the handler: for an upgrade, when its tunnel has ended.
Return(r) ==
    /\ req[r].pc \in {"returning", "switching", "recorded"}
    /\ LET route == RouteLabel(req[r].path)
       IN  \E d \in Durations :
             /\ httpRequests' = Incremented(httpRequests, <<route, req[r].status>>)
             /\ httpDurations' = Observed(httpDurations, route, d)
    /\ Becomes(r, [NewRequest EXCEPT !.pc = "done"])
    /\ UNCHANGED <<vars, proxySeries, websocketSessions, scrape, managers>>

-----------------------------------------------------------------------------
\* Scrapes.

\* Under the lock every series is copied, histograms bucket by bucket.
Take ==
    /\ scrape.pc = "idle"
    /\ scrape' = [pc |-> "taken",
                  httpRequests |-> httpRequests, httpDurations |-> httpDurations,
                  proxyRequests |-> proxyRequests, proxyDurations |-> proxyDurations,
                  websocketSessions |-> websocketSessions]
    /\ UNCHANGED <<vars, req, httpSeries, proxySeries, websocketSessions, managers>>

\* Mutant: the histograms are pointers into the maps.
PrintedShared(copies, series) == [key \in DOMAIN copies |-> series[key]]

\* What is printed of histograms after the lock was given up: the copies.
Printed(copies, series) == copies

\* Then the health manager is asked, which also clears expired records. A scrape
\* of the main listener asks the manager of the runtime it came to, which a reload
\* may have replaced since; one of the metrics listener the one there is.
Show ==
    /\ scrape.pc = "taken"
    /\ Amnesty \/ (runtime > 0 /\ UNCHANGED vars)
    /\ scrape' = [scrape EXCEPT !.pc = "shown",
                                !.httpDurations = Printed(@, httpDurations),
                                !.proxyDurations = Printed(@, proxyDurations)]
    /\ UNCHANGED <<req, httpSeries, proxySeries, websocketSessions, managers>>

Finish ==
    /\ scrape.pc = "shown"
    /\ scrape' = NoScrape
    /\ UNCHANGED <<vars, req, httpSeries, proxySeries, websocketSessions, managers>>

Pass == Elapse /\ UNCHANGED mvars

\* A reload, when it succeeds, brings a manager that knows nothing and is handed
\* the counters as they are. The pools may keep their names, and do here.
Reload ==
    /\ runtime < MaxReloads
    /\ runtime' = runtime + 1
    /\ mode' = [p \in Pool |-> "closed"]
    /\ strikes' = [p \in Pool |-> 0]
    /\ left' = [p \in Pool |-> 0]
    /\ known' = NoReports
    /\ UNCHANGED <<req, httpSeries, proxySeries, websocketSessions, scrape, told>>

MNext ==
    \/ \E r \in Request, path \in Paths : Arrive(r, path)
    \/ \E r \in Request :
         \/ Report(r)
         \/ Record(r)
         \/ BreakOff(r)
         \/ Upgrade(r)
         \/ SwitchFails(r)
         \/ Return(r)
    \/ Take
    \/ Show
    \/ Finish
    \/ Pass
    \/ Reload

MSpec == MInit /\ [][MNext]_<<vars, mvars>> /\ WF_<<vars, mvars>>(Pass)

-----------------------------------------------------------------------------

\* A counter has the labels of its histogram and one more.
SumsUp(counters, histograms) ==
    /\ {k[1] : k \in DOMAIN counters} = DOMAIN histograms
    /\ \A label \in DOMAIN histograms :
         LET h == histograms[label]
         IN  /\ h.count = SumFunctionOnSet(counters, {k \in DOMAIN counters : k[1] = label})
             /\ \A a, b \in Bounds : a <= b => h.buckets[a] <= h.buckets[b]
             /\ \A b \in Bounds : h.buckets[b] <= h.count

\* A scrape describes one moment, though it is printed while requests go on
\* counting: each histogram has as many observations as the counters of its
\* labels, its buckets are cumulative, and no pool has more Playwright sessions
\* upgraded than Playwright attempts that succeeded (metrics.go:90-125, 131-163,
\* 395-401; reverseproxy.go:52-57). It may well have more upgraded than started:
\* the connections to /vnc, /devtools and /logs of a Playwright session are
\* counted as upgraded, too.
ScrapesAddUp ==
    scrape.pc = "shown" =>
        /\ SumsUp(scrape.httpRequests, scrape.httpDurations)
        /\ SumsUp(scrape.proxyRequests, scrape.proxyDurations)
        /\ \A p \in Pool :
             Value(scrape.websocketSessions, <<p, "upgraded">>, 0)
                <= Value(scrape.proxyRequests, << <<"playwright", p>>, "success">>, 0)

Counted(p, outcomes) ==
    LET series == scrape.proxyRequests
    IN  SumFunctionOnSet(series, {k \in DOMAIN series : k[1][2] = p /\ k[2] \in outcomes})

\* No attempt is counted before its report. As long as there was no reload, the
\* health a scrape prints is not behind its counters: every attempt they count as
\* failed, or as succeeded, has been reported to the manager that is printed, which
\* may know of more. A reload keeps the counters and drops the manager
\* (reload.go:45-47, runtime.go:54): from then on all that holds is that each
\* attempt was reported to some manager of the process, one that was replaced or
\* the one there is (metrics.go:131-137, 169; reverseproxy.go:61-63, 141-150).
CountedAttemptsWereReported ==
    scrape.pc = "shown" =>
        \A p \in Pool :
            LET heard == IF runtime = 0 THEN known[p] ELSE told[p]
            IN  /\ Counted(p, Faults) <= heard.bad
                /\ Counted(p, {"success"}) <= heard.good
=============================================================================
