------------------------------- MODULE Reload -------------------------------
(***************************************************************************)
(* internal/app: SIGHUP, the goroutine of Run that reloads, and the         *)
(* ReloadingHandler whose two atomic values the request goroutines and the  *)
(* metrics listener read. Each successful NewRuntime is a generation with a *)
(* health manager of its own, of which this module keeps the counters and   *)
(* the pools out of rotation, without the clock (that is HealthManager).    *)
(***************************************************************************)
EXTENDS Naturals, Sequences

CONSTANTS
    Req,            \* request goroutines
    Contents,       \* what router.json may contain
    Config,         \* the contents LoadFile accepts, with their pools
    Secrets,        \* what the referenced secrets may resolve to
    NoSecret,       \* an unset variable, a missing or empty file
    NoPool,         \* a request that has not been sent to a pool
    Threshold,      \* failure_threshold, the same for all pools
    Start,          \* the contents at start-up, loaded by NewReloadingHandler
    StartSecret,
    MaxEdits,       \* bound on changes to the files
    MaxSignals      \* bound on SIGHUPs

Valid == DOMAIN Config

ASSUME ConfigAssumption == Valid \subseteq Contents
ASSUME StartAssumption == Start \in Valid /\ StartSecret \in Secrets
ASSUME SecretAssumption == NoSecret \notin Secrets
ASSUME BoundAssumption == MaxEdits \in Nat /\ MaxSignals \in Nat
ASSUME ThresholdAssumption == Threshold \in Nat \ {0}

VARIABLES
    file,           \* router.json on disk
    secret,         \* the secrets in the environment and on disk
    edits, signals, \* how often they changed and SIGHUP was sent
    signalled,      \* whether SIGHUP was sent since the last change
    hupCh,          \* whether hupCh, of capacity one, holds a signal
    loader,         \* the goroutine that reloads
    gens,           \* the runtimes built so far
    current,        \* ReloadingHandler.current: the generation that serves
    currentHealth,  \* ReloadingHandler.currentHealth: the one that is scraped
    req             \* the request goroutines, each pinned to a generation

disk == <<file, secret, edits, signalled>>
vars == <<disk, signals, hupCh, loader, gens, current, currentHealth, req>>

Ids(config) == {p.id : p \in Config[config]}
Pools(g) == Config[gens[g].config]
PoolIds == UNION {Ids(c) : c \in Valid}

\* A runtime with the manager it starts with. The field "own" is history: the
\* failures in a row, per pool, of the requests this runtime serves.
Runtime(config, resolved) ==
    [config |-> config, secret |-> resolved, out |-> {},
     failures |-> [id \in PoolIds |-> 0], own |-> [id \in PoolIds |-> 0]]

TypeOK ==
    /\ file \in Contents
    /\ secret \in Secrets \cup {NoSecret}
    /\ edits \in 0..MaxEdits /\ signals \in 0..MaxSignals
    /\ signalled \in BOOLEAN /\ hupCh \in BOOLEAN
    /\ loader \in [pc : {"idle", "load", "resolve", "store", "storeHealth"},
                   config : Valid]
    /\ gens \in Seq([config : Valid, secret : Secrets, out : SUBSET PoolIds,
                     failures : [PoolIds -> 0..Threshold],
                     own : [PoolIds -> 0..Threshold]])
    /\ current \in DOMAIN gens /\ currentHealth \in DOMAIN gens
    /\ req \in [Req -> [gen : {0} \cup DOMAIN gens, pool : PoolIds \cup {NoPool}]]

Unserved == [gen |-> 0, pool |-> NoPool]

Init ==
    /\ file = Start /\ secret = StartSecret
    /\ edits = 0 /\ signals = 0
    /\ signalled = FALSE /\ hupCh = FALSE
    /\ loader = [pc |-> "idle", config |-> Start]
    /\ gens = << Runtime(Start, StartSecret) >>
    /\ current = 1 /\ currentHealth = 1
    /\ req = [r \in Req |-> Unserved]

-----------------------------------------------------------------------------
\* The operator.

Edit ==
    /\ edits < MaxEdits
    /\ edits' = edits + 1
    /\ \/ file' \in Contents \ {file} /\ UNCHANGED secret
       \/ secret' \in (Secrets \cup {NoSecret}) \ {secret} /\ UNCHANGED file
    /\ signalled' = FALSE
    /\ UNCHANGED <<signals, hupCh, loader, gens, current, currentHealth, req>>

\* Mutant: a channel without a buffer takes a signal only from a goroutine
\* that waits for it.
SighupUnbuffered ==
    /\ signals < MaxSignals
    /\ signals' = signals + 1
    /\ hupCh' = (hupCh \/ loader.pc = "idle")
    /\ signalled' = TRUE
    /\ UNCHANGED <<file, secret, edits, loader, gens, current, currentHealth, req>>

\* os/signal sends without waiting: a signal that finds the channel full is
\* dropped.
Sighup ==
    /\ signals < MaxSignals
    /\ signals' = signals + 1
    /\ hupCh' = TRUE
    /\ signalled' = TRUE
    /\ UNCHANGED <<file, secret, edits, loader, gens, current, currentHealth, req>>

-----------------------------------------------------------------------------
\* The goroutine that reloads.

ReceiveHup ==
    /\ loader.pc = "idle"
    /\ hupCh
    /\ hupCh' = FALSE
    /\ loader' = [loader EXCEPT !.pc = "load"]
    /\ UNCHANGED <<disk, signals, gens, current, currentHealth, req>>

\* Mutant: the configuration is decoded and not validated.
LoadConfigUnchecked ==
    /\ loader.pc = "load"
    /\ loader' = [pc |-> "resolve", config |-> file]
    /\ UNCHANGED <<disk, signals, hupCh, gens, current, currentHealth, req>>

\* LoadFile: an unreadable or invalid file ends the reload.
LoadConfig ==
    /\ loader.pc = "load"
    /\ loader' = IF file \in Valid THEN [pc |-> "resolve", config |-> file]
                                   ELSE [loader EXCEPT !.pc = "idle"]
    /\ UNCHANGED <<disk, signals, hupCh, gens, current, currentHealth, req>>

\* Mutant: the secrets of the runtime that serves are kept.
ResolveOldSecret ==
    /\ loader.pc = "resolve"
    /\ loader' = [loader EXCEPT !.pc = "store"]
    /\ gens' = Append(gens, Runtime(loader.config, gens[current].secret))
    /\ UNCHANGED <<disk, signals, hupCh, current, currentHealth, req>>

\* NewPolicy, NewCredentialStore and resolveUpstreamIdentity: so does a secret
\* that does not resolve. Then the runtime is complete, with a fresh manager.
ResolveSecrets ==
    /\ loader.pc = "resolve"
    /\ IF secret = NoSecret
       THEN loader' = [loader EXCEPT !.pc = "idle"] /\ UNCHANGED gens
       ELSE /\ loader' = [loader EXCEPT !.pc = "store"]
            /\ gens' = Append(gens, Runtime(loader.config, secret))
    /\ UNCHANGED <<disk, signals, hupCh, current, currentHealth, req>>

StoreHandler ==
    /\ loader.pc = "store"
    /\ current' = Len(gens)
    /\ loader' = [loader EXCEPT !.pc = "storeHealth"]
    /\ UNCHANGED <<disk, signals, hupCh, gens, currentHealth, req>>

\* Mutant: the metrics listener keeps the manager it was started with.
StoreHealthForgotten ==
    /\ loader.pc = "storeHealth"
    /\ loader' = [loader EXCEPT !.pc = "idle"]
    /\ UNCHANGED <<disk, signals, hupCh, gens, current, currentHealth, req>>

StoreHealth ==
    /\ loader.pc = "storeHealth"
    /\ currentHealth' = Len(gens)
    /\ loader' = [loader EXCEPT !.pc = "idle"]
    /\ UNCHANGED <<disk, signals, hupCh, gens, current, req>>

Loader == ReceiveHup \/ LoadConfig \/ ResolveSecrets \/ StoreHandler \/ StoreHealth

-----------------------------------------------------------------------------
\* The manager of a runtime.

CountUp(n) == IF n < Threshold THEN n + 1 ELSE n

\* Manager.ReportFailure: unknown pools are ignored. From the threshold on a
\* counter says no more than that it is there.
Struck(runtime, id) ==
    IF id \notin Ids(runtime.config) THEN runtime
    ELSE [runtime EXCEPT
            !.failures[id] = CountUp(@),
            !.out = IF runtime.failures[id] + 1 >= Threshold THEN @ \cup {id} ELSE @]

\* Manager.ReportSuccess: so are they here, and so is a pool in its cooldown.
\* Otherwise the row of failures is over.
Acquitted(runtime, id) ==
    IF id \notin Ids(runtime.config) \/ id \in runtime.out THEN runtime
    ELSE [runtime EXCEPT !.failures[id] = 0, !.own[id] = 0]

\* Manager.Snapshot: the pools whose cooldown is over start a new row.
Forgiven(runtime) ==
    LET Cleared(count) ==
            [id \in PoolIds |->
                IF id \notin runtime.out /\ runtime.failures[id] = Threshold
                THEN 0 ELSE count[id]]
    IN  [runtime EXCEPT !.failures = Cleared(@), !.own = Cleared(@)]

\* The history of a runtime one of whose requests failed.
Blamed(runtime, id) == [runtime EXCEPT !.own[id] = CountUp(@)]

\* A cooldown ends; the counter is left as it is.
Recover(g) ==
    /\ \E id \in gens[g].out : gens' = [gens EXCEPT ![g].out = @ \ {id}]
    /\ UNCHANGED <<disk, signals, hupCh, loader, current, currentHealth, req>>

\* The metrics listener asks the manager it finds.
Scrape ==
    /\ gens' = [gens EXCEPT ![currentHealth] = Forgiven(@)]
    /\ UNCHANGED <<disk, signals, hupCh, loader, current, currentHealth, req>>

-----------------------------------------------------------------------------
\* Requests: ServeHTTP loads the handler once, and the request keeps to its
\* configuration and its manager to the end, whatever is loaded meanwhile.

Serve(r) ==
    /\ req[r] = Unserved
    /\ req' = [req EXCEPT ![r].gen = current]
    /\ UNCHANGED <<disk, signals, hupCh, loader, gens, current, currentHealth>>

\* The request is sent to a pool of its configuration: a new session to one in
\* rotation, what belongs to a session wherever that is.
Forward(r) ==
    /\ req[r].gen # 0 /\ req[r].pool = NoPool
    /\ \E id \in Ids(gens[req[r].gen].config) : req' = [req EXCEPT ![r].pool = id]
    /\ UNCHANGED <<disk, signals, hupCh, loader, gens, current, currentHealth>>

\* It ends without a report: refused, not routed, or answered with a client
\* error.
Finish(r) ==
    /\ req[r] # Unserved
    /\ req' = [req EXCEPT ![r] = Unserved]
    /\ UNCHANGED <<disk, signals, hupCh, loader, gens, current, currentHealth>>

\* Or it asked for /metrics: the manager of its own runtime is scraped.
ScrapeOwn(r) ==
    /\ req[r].gen # 0 /\ req[r].pool = NoPool
    /\ gens' = [gens EXCEPT ![req[r].gen] = Forgiven(@)]
    /\ req' = [req EXCEPT ![r] = Unserved]
    /\ UNCHANGED <<disk, signals, hupCh, loader, current, currentHealth>>

Succeed(r) ==
    /\ req[r].pool # NoPool
    /\ gens' = [gens EXCEPT ![req[r].gen] = Acquitted(@, req[r].pool)]
    /\ req' = [req EXCEPT ![r] = Unserved]
    /\ UNCHANGED <<disk, signals, hupCh, loader, current, currentHealth>>

\* Mutant: the failure goes to the manager that is current when it happens.
FailCurrent(r) ==
    /\ req[r].pool # NoPool
    /\ gens' = [gens EXCEPT ![req[r].gen] = Blamed(@, req[r].pool),
                            ![current] = Struck(@, req[r].pool)]
    /\ req' = [req EXCEPT ![r] = Unserved]
    /\ UNCHANGED <<disk, signals, hupCh, loader, current, currentHealth>>

Fail(r) ==
    /\ req[r].pool # NoPool
    /\ gens' = [gens EXCEPT ![req[r].gen] = Struck(Blamed(@, req[r].pool), req[r].pool)]
    /\ req' = [req EXCEPT ![r] = Unserved]
    /\ UNCHANGED <<disk, signals, hupCh, loader, current, currentHealth>>

Next ==
    \/ Edit
    \/ Sighup
    \/ ReceiveHup
    \/ LoadConfig
    \/ ResolveSecrets
    \/ StoreHandler
    \/ StoreHealth
    \/ \E r \in Req : Serve(r) \/ Forward(r) \/ Finish(r)
    \/ \E r \in Req : ScrapeOwn(r) \/ Succeed(r) \/ Fail(r)
    \/ \E g \in DOMAIN gens : Recover(g)
    \/ Scrape

Spec == Init /\ [][Next]_vars /\ WF_vars(Loader)

-----------------------------------------------------------------------------

\* When the loader rests and no signal waits, the files that were signalled are
\* the files that serve: signals that arrive during a reload, and are merged
\* into one, lose no change (server.go:54-69). What does not load changes
\* nothing, so only loadable files are promised.
SignalledFilesServe ==
    /\ loader.pc = "idle" /\ ~hupCh
    /\ signalled
    /\ file \in Valid /\ secret # NoSecret
    => gens[current].config = file /\ gens[current].secret = secret

\* Loadable files that were signalled, and are left alone, come to serve, and
\* to be what the metrics listener shows.
ReloadTakesEffect ==
    []( /\ signalled /\ file \in Valid /\ secret # NoSecret
        => <>( \/ ~signalled
               \/ /\ gens[current].config = file /\ gens[current].secret = secret
                  /\ currentHealth = current ) )

\* The handler that serves and the manager that is scraped are of one
\* generation whenever no reload is under way, and the scraped one is never the
\* newer (reload.go:46-47).
ScrapeLagsOneReload ==
    /\ loader.pc # "storeHealth" => currentHealth = current
    /\ currentHealth <= current

\* A pool is out of rotation in a generation only after Threshold failures in a
\* row of requests which that generation serves: what requests that outlive a
\* reload report is charged to the manager of the runtime they started with, on
\* the pools both runtimes have as on those only one has, and never helps to
\* eject a pool of the runtime that serves now (reload.go:29-36,
\* runtime.go:51-57, health.go:97-107).
EjectionsStayInTheirGeneration ==
    \A g \in DOMAIN gens :
        \A id \in gens[g].out : gens[g].own[id] >= Threshold

-----------------------------------------------------------------------------
\* What the documentation says and the code does not do.

\* docs/reload-sighup.adoc:32: "Pools that survive the reload unchanged keep
\* their failure counter and cooldown state".
SurvivorsKeepCooldown ==
    [][\A p \in Pools(current) :
         (current' # current /\ p \in Pools(current)' /\ p.id \in gens[current].out)
           => p.id \in gens'[current'].out]_vars
=============================================================================
