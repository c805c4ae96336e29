-------------------------------- MODULE Proxy --------------------------------
(***************************************************************************)
(* internal/proxy: one Handler serving HTTP requests, each in a goroutine   *)
(* of its own. It composes the selector and the health manager of the same  *)
(* Runtime with the clients, who learn session ids and use them, and the    *)
(* backends, who keep the sessions. Selecting a pool, sending the upstream  *)
(* request, reading its answer and reporting on it are separate steps: what *)
(* other requests report in between is what the next step finds.            *)
(***************************************************************************)
EXTENDS Integers, Sequences, FiniteSets, Matching

CONSTANTS
    Req,                                            \* HTTP requests, one handler run each
    Pools, Catalog, NoRegion, NoPool, MaxInt,       \* of Selector
    Policy, DefaultCooldown, Unset, NoTime,         \* of HealthManager
    MaxTime, MaxFailures,
    WebDriverRequests,  \* request lists POST /session may parse to
    PlaywrightRequests, \* those /playwright/<browser>/<version> may parse to
    WebDriverIds,       \* session ids a backend may choose
    MintedIds,          \* ids the router may mint for Playwright, pw_<32-hex>
    PwIds,              \* the ids whose text begins with pw_
    NoId,
    Kinds               \* the kinds of requests clients send

ASSUME IdsAssumption ==
    /\ MintedIds \subseteq PwIds
    /\ WebDriverIds \cap MintedIds = {}
    /\ NoId \notin WebDriverIds \cup MintedIds

\* What Selector and HealthManager assume of their constants.
ASSUME PoolsAssumption ==
    /\ MaxInt \in Nat
    /\ Pools \in Seq({Pools[k] : k \in DOMAIN Pools})
    /\ \A k \in DOMAIN Pools : Pools[k].weight \in 1..MaxInt /\ Pools[k].region # NoRegion
    /\ \A k, l \in DOMAIN Pools : Pools[k].id = Pools[l].id => k = l
    /\ NoPool \notin {Pools[k].id : k \in DOMAIN Pools}

ASSUME RequestsAssumption ==
    \A rs \in WebDriverRequests \cup PlaywrightRequests :
        rs \in Seq({rs[k] : k \in DOMAIN rs}) /\ rs # <<>>

ASSUME HealthAssumption ==
    /\ Unset \notin Int /\ NoTime \notin Int
    /\ DefaultCooldown \in Nat \ {0}
    /\ MaxTime \in Nat /\ MaxFailures \in Nat

\* Every request fails its pool at most once: the bound of the counters is never met.
ASSUME BoundAssumption == IsFiniteSet(Req) /\ Cardinality(Req) <= MaxFailures

ASSUME KindsAssumption ==
    Kinds \subseteq {"create", "playwright", "session", "side", "settings"}

VARIABLES
    now, failures, unhealthyUntil,                  \* of HealthManager
    call,                                           \* of Selector
    req                                             \* the state of each request

PoolIds == {Pools[k].id : k \in DOMAIN Pools}

H == INSTANCE HealthManager WITH Pool <- PoolIds, Stranger <- {}

\* The selector asks the manager, which reads its clock when asked.
S == INSTANCE Selector WITH
        Caller <- Req,
        RequestLists <- WebDriverRequests \cup PlaywrightRequests,
        avail <- {id \in PoolIds : H!Available(id)}

\* Sane weights: a draw that panics ends the goroutine before anything is sent.
ASSUME WeightsAssumption == S!Weight(PoolIds) <= MaxInt

ASSUME PolicyAssumption == Policy \in [PoolIds -> H!HealthPolicies]

health == <<now, failures, unhealthyUntil>>
vars == <<health, call, req>>

-----------------------------------------------------------------------------
\* Session ids. The public id carries the pool's route token and the id the
\* session has upstream; tokens are distinct (NewHandler refuses a collision),
\* so a token stands for its pool.

PublicId(pool, upstream) == [token |-> pool, upstream |-> upstream]

PublicIds == [token : PoolIds, upstream : WebDriverIds \cup MintedIds]

Ids == WebDriverIds \cup MintedIds
Stages == {"new", "selecting", "scanning", "sent", "rewriting", "switching", "tunnel", "done"}
Replies == {"none", "pending", "ok", "upgrade", "unusable", "other", "unhealthy", "client_error"}
Verdicts == Seq({"success", "failure"})
Outcomes == {"success", "failure", "client_error", "error"}
Records == Seq(Outcomes)
\* "session" is a new session whose id the client has, "unread" one whose id was
\* written to a connection nobody reads.
Answers == {"none", "session", "unread", "relayed", "400", "502", "503"}

ReqType ==
    [kind : Kinds \cup {"none"},
     pc : Stages,
     at : Nat \ {0},                \* how far defaultBackend has scanned
     pool : PoolIds \cup {NoPool},  \* where the request goes
     upstream : Ids \cup {NoId},    \* session it creates
     key : {NoId} \cup Ids \cup PublicIds, \* session it addresses upstream
     target : {NoId} \cup PublicIds,\* public id the client put on the path
     stored : BOOLEAN,              \* whether the backend keeps its session
     wire : Replies,                \* the answer that has come from upstream
     client : {"there", "late", "gone"}, \* past WriteTimeout, or hung up
     verdicts : Verdicts,           \* reports to the manager
     blame : {"none", "upstream", "client"},  \* who caused a failure
     records : Records,
     answer : Answers]

NewRequest ==
    [kind |-> "none", pc |-> "new", at |-> 1, pool |-> NoPool, upstream |-> NoId,
     key |-> NoId, target |-> NoId, stored |-> FALSE, wire |-> "none",
     client |-> "there", verdicts |-> <<>>, blame |-> "none", records |-> <<>>,
     answer |-> "none"]

TypeOK ==
    /\ H!TypeOK
    /\ req \in [Req -> ReqType]
    /\ \A r \in Req : req[r].pc = "sent" => req[r].pool \in PoolIds /\ req[r].wire # "none"

Init ==
    /\ H!Init
    /\ S!Init
    /\ req = [r \in Req |-> NewRequest]

\* The id under which the pool keeps the session r created: selenwright takes
\* the public id for Playwright, because the router sends it along.
KeyOf(r) ==
    IF req[r].kind = "create" THEN req[r].upstream
    ELSE PublicId(req[r].pool, req[r].upstream)

Stored(pool, key) == \E r \in Req : req[r].stored /\ req[r].pool = pool /\ KeyOf(r) = key

\* The public ids clients were given.
Known == {PublicId(req[r].pool, req[r].upstream) :
            r \in {q \in Req : req[q].answer = "session"}}

Becomes(r, state) == req' = [req EXCEPT ![r] = state]

-----------------------------------------------------------------------------
\* Clients and backends. Neither is this program: they do what its code allows
\* for.

\* Mutant: the selection starts with the pools and skips the catalog.
ArriveUnchecked(r, kind, requests) ==
    /\ req[r].pc = "new"
    /\ call' = [call EXCEPT ![r] = [S!Idle EXCEPT !.pc = "scan", !.requests = requests]]
    /\ Becomes(r, [req[r] EXCEPT !.kind = kind, !.pc = "selecting"])
    /\ UNCHANGED health

Arrive(r, kind, requests) ==
    /\ req[r].pc = "new"
    /\ S!Begin(r, requests)
    /\ Becomes(r, [req[r] EXCEPT !.kind = kind, !.pc = "selecting"])
    /\ UNCHANGED health

Hangup(r) ==
    /\ req[r].pc \in {"selecting", "scanning", "sent", "rewriting", "switching"}
    /\ req[r].client # "gone"
    /\ Becomes(r, [req[r] EXCEPT !.client = "gone"])
    /\ UNCHANGED <<health, call>>

\* The server's WriteTimeout has passed: what the handler writes from now on is
\* not sent, though nobody tells it. Only createSession has something to lose; a
\* connection that is upgraded is freed from its deadlines.
Expire(r) ==
    /\ req[r].kind = "create"
    /\ req[r].pc \in {"sent", "rewriting"}
    /\ req[r].client = "there"
    /\ Becomes(r, [req[r] EXCEPT !.client = "late"])
    /\ UNCHANGED <<health, call>>

\* The backend takes the request and answers, in time or not. Creating a
\* session it may keep the session and still answer 5xx or something unusable,
\* while a 3xx or 4xx says there is none; for any other request it has to know
\* the session the path names. A new session is asked for with a client that
\* follows redirects: all its hops are one exchange here, and the last one
\* speaks for all. "other" is a 2xx or 3xx that brings neither a session nor an
\* upgrade; for a new session, a 3xx that leads nowhere.
BackendCreates(r) ==
    /\ req[r].kind = "create"
    /\ req[r].wire = "pending"
    /\ \E id \in WebDriverIds, answer \in {"ok", "unusable", "unhealthy"} :
         /\ \A q \in Req : req[q].upstream # id
         /\ Becomes(r, [req[r] EXCEPT !.upstream = id, !.stored = TRUE, !.wire = answer])
    /\ UNCHANGED <<health, call>>

\* A 101. It starts a Playwright session; any other request that goes through
\* the reverse proxy may be upgraded as well (/vnc, /devtools, /logs).
BackendUpgrades(r) ==
    /\ req[r].kind # "create"
    /\ req[r].wire = "pending"
    /\ \/ req[r].kind = "playwright"
       \/ req[r].key = NoId
       \/ Stored(req[r].pool, req[r].key)
    /\ Becomes(r, [req[r] EXCEPT !.stored = (req[r].kind = "playwright"), !.wire = "upgrade"])
    /\ UNCHANGED <<health, call>>

BackendServes(r) ==
    /\ req[r].kind \in {"session", "side", "settings"}
    /\ req[r].wire = "pending"
    /\ req[r].key # NoId => Stored(req[r].pool, req[r].key)
    /\ Becomes(r, [req[r] EXCEPT !.wire = "ok"])
    /\ UNCHANGED <<health, call>>

BackendRefuses(r) ==
    /\ req[r].wire = "pending"
    /\ \E answer \in {"other", "unhealthy", "client_error"} :
         Becomes(r, [req[r] EXCEPT !.wire = answer])
    /\ UNCHANGED <<health, call>>

-----------------------------------------------------------------------------
\* Choosing where a request goes.

Select(r) == S!Step(r) /\ UNCHANGED <<health, req>>

\* createSession and proxyPlaywright when the selector returns an error.
Refuse(r) ==
    /\ req[r].pc = "selecting"
    /\ call[r].pc = "failed"
    /\ S!Return(r)
    /\ Becomes(r, [req[r] EXCEPT !.pc = "done", !.answer = "400"])
    /\ UNCHANGED health

ForwardCreate(r) ==
    /\ req[r].kind = "create"
    /\ req[r].pc = "selecting"
    /\ call[r].pc = "done"
    /\ S!Return(r)
    /\ Becomes(r, [req[r] EXCEPT !.pc = "sent", !.pool = call[r].chosen, !.wire = "pending"])
    /\ UNCHANGED health

\* proxyPlaywright mints the upstream id and sends the public id made of it.
ForwardUpgrade(r) ==
    /\ req[r].kind = "playwright"
    /\ req[r].pc = "selecting"
    /\ call[r].pc = "done"
    /\ S!Return(r)
    /\ \E id \in MintedIds :
         /\ \A q \in Req : req[q].upstream # id
         /\ Becomes(r, [req[r] EXCEPT !.pc = "sent", !.pool = call[r].chosen,
                                      !.upstream = id,
                                      !.key = PublicId(call[r].chosen, id),
                                      !.wire = "pending"])
    /\ UNCHANGED health

\* proxyWebDriverSession: the token picks the pool, whatever its health; the
\* path gets the upstream id.
ForwardSession(r, id) ==
    /\ req[r].pc = "new"
    /\ Becomes(r, [req[r] EXCEPT !.kind = "session", !.pc = "sent", !.target = id,
                                 !.pool = id.token, !.key = id.upstream,
                                 !.wire = "pending"])
    /\ UNCHANGED <<health, call>>

\* Mutant of SideKey: the path gets the upstream id whatever the session.
SideKeyDecoded(id) == id.upstream

\* proxySideEndpoint tells a Playwright session by the prefix of its upstream
\* id and leaves the public id on its path.
SideKey(id) == IF id.upstream \in PwIds THEN id ELSE id.upstream

ForwardSide(r, id) ==
    /\ req[r].pc = "new"
    /\ Becomes(r, [req[r] EXCEPT !.kind = "side", !.pc = "sent", !.target = id,
                                 !.pool = id.token, !.key = SideKey(id),
                                 !.wire = "pending"])
    /\ UNCHANGED <<health, call>>

\* Requests that name no session go to the first pool that is up when asked.
ArriveSettings(r) ==
    /\ req[r].pc = "new"
    /\ Becomes(r, [req[r] EXCEPT !.kind = "settings", !.pc = "scanning"])
    /\ UNCHANGED <<health, call>>

\* Mutant: the error of defaultBackend is not looked at.
DefaultBackendUnchecked(r) ==
    /\ req[r].pc = "scanning"
    /\ IF req[r].at > Len(Pools)
       THEN Becomes(r, [req[r] EXCEPT !.pc = "sent", !.wire = "pending"])
       ELSE LET id == Pools[req[r].at].id
            IN  Becomes(r, IF H!Available(id)
                           THEN [req[r] EXCEPT !.pc = "sent", !.pool = id, !.wire = "pending"]
                           ELSE [req[r] EXCEPT !.at = @ + 1])
    /\ UNCHANGED <<health, call>>

DefaultBackend(r) ==
    /\ req[r].pc = "scanning"
    /\ IF req[r].at > Len(Pools)
       THEN Becomes(r, [req[r] EXCEPT !.pc = "done", !.answer = "503"])
       ELSE LET id == Pools[req[r].at].id
            IN  Becomes(r, IF H!Available(id)
                           THEN [req[r] EXCEPT !.pc = "sent", !.pool = id, !.wire = "pending"]
                           ELSE [req[r] EXCEPT !.at = @ + 1])
    /\ UNCHANGED <<health, call>>

-----------------------------------------------------------------------------
\* What becomes of the upstream request.

Fault(r) == IF req[r].client = "gone" THEN "client" ELSE "upstream"

Failed(state, fault) ==
    [state EXCEPT !.verdicts = Append(@, "failure"), !.blame = fault]

Recorded(state, outcome) == [state EXCEPT !.records = Append(@, outcome)]

Answered(state, answer) == [state EXCEPT !.pc = "done", !.answer = answer]

ReplyArrived(r) == req[r].wire \notin {"none", "pending"}

\* Mutant: only the creation of a session has a time limit.
LoseCreate(r) ==
    /\ req[r].pc = "sent"
    /\ req[r].kind = "create"
    /\ H!ReportFailure(req[r].pool)
    /\ Becomes(r, Answered(Recorded(Failed(req[r], Fault(r)), "error"), "502"))
    /\ UNCHANGED call

\* No answer in time, a transport error, or a client that hung up, whatever the
\* backend did: client.Do fails in createSession, the round trip in the reverse
\* proxy, and both report the pool.
Lose(r) ==
    /\ req[r].pc = "sent"
    /\ H!ReportFailure(req[r].pool)
    /\ Becomes(r, Answered(Recorded(Failed(req[r], Fault(r)), "error"), "502"))
    /\ UNCHANGED call

\* createSession could not read the reply to its end.
Truncate(r) ==
    /\ req[r].kind = "create"
    /\ req[r].pc = "sent"
    /\ ReplyArrived(r)
    /\ H!ReportFailure(req[r].pool)
    /\ Becomes(r, Answered(Failed(req[r], Fault(r)), "502"))
    /\ UNCHANGED call

\* classifyAndRecord on an answer that is no success; it is passed on.
Deny(r) ==
    /\ req[r].pc = "sent"
    /\ \/ /\ req[r].wire = "unhealthy"
          /\ H!ReportFailure(req[r].pool)
          /\ Becomes(r, Answered(Recorded(Failed(req[r], "upstream"), "failure"), "relayed"))
       \/ /\ req[r].wire = "client_error"
          /\ Becomes(r, Answered(Recorded(req[r], "client_error"), "relayed"))
          /\ UNCHANGED health
    /\ UNCHANGED call

\* classifyAndRecord on a success, which any 2xx, 3xx or 101 is: createSession
\* has yet to read the session id out of a 2xx, a 101 has yet to be carried out,
\* the rest is passed on.
Accept(r) ==
    /\ req[r].pc = "sent"
    /\ req[r].wire \in {"ok", "upgrade", "unusable", "other"}
    /\ H!ReportSuccess(req[r].pool)
    /\ LET state == Recorded([req[r] EXCEPT !.verdicts = Append(@, "success")], "success")
       IN  \/ /\ req[r].kind = "create" /\ req[r].wire # "other"
              /\ Becomes(r, [state EXCEPT !.pc = "rewriting"])
           \/ /\ req[r].wire = "upgrade"
              /\ Becomes(r, [state EXCEPT !.pc = "switching"])
           \/ /\ req[r].wire = "other" \/ (req[r].wire = "ok" /\ req[r].kind # "create")
              /\ Becomes(r, Answered(state, "relayed"))
    /\ UNCHANGED call

\* What the handler writes reaches a client that is there; createSession does
\* not look at the error of its write, and has reported the success before.
Reaches(r, writable) == IF req[r].client \in writable THEN "session" ELSE "unread"

RewriteSession(r) ==
    /\ req[r].pc = "rewriting"
    /\ req[r].wire = "ok"
    /\ Becomes(r, Answered(req[r], Reaches(r, {"there"})))
    /\ UNCHANGED <<health, call>>

\* Mutant: a session nobody can name is nobody's failure.
RewriteFailsUnreported(r) ==
    /\ req[r].pc = "rewriting"
    /\ req[r].wire = "unusable"
    /\ Becomes(r, Answered(req[r], "502"))
    /\ UNCHANGED <<health, call>>

\* No session id, two of them, or no JSON: rewriteNewSessionResponse fails.
RewriteFails(r) ==
    /\ req[r].pc = "rewriting"
    /\ req[r].wire = "unusable"
    /\ H!ReportFailure(req[r].pool)
    /\ Becomes(r, Answered(Failed(req[r], "upstream"), "502"))
    /\ UNCHANGED call

\* The 101 is written to the hijacked connection, which has no deadline any
\* more; a write to a client that just left may succeed all the same.
Switch(r) ==
    /\ req[r].pc = "switching"
    /\ Becomes(r, [req[r] EXCEPT
                     !.pc = "tunnel",
                     !.answer = IF req[r].kind = "playwright"
                                THEN Reaches(r, {"there", "late"}) ELSE "relayed"])
    /\ UNCHANGED <<health, call>>

\* Mutant: an upgrade that fails is reported and not counted.
SwitchFailsUncounted(r) ==
    /\ req[r].pc = "switching"
    /\ H!ReportFailure(req[r].pool)
    /\ Becomes(r, Answered(Failed(req[r], Fault(r)), "502"))
    /\ UNCHANGED call

\* The reverse proxy calls ErrorHandler when the upgrade fails after the 101.
SwitchFails(r) ==
    /\ req[r].pc = "switching"
    /\ H!ReportFailure(req[r].pool)
    /\ Becomes(r, Answered(Recorded(Failed(req[r], Fault(r)), "error"), "502"))
    /\ UNCHANGED call

TunnelEnds(r) ==
    /\ req[r].pc = "tunnel"
    /\ Becomes(r, [req[r] EXCEPT !.pc = "done"])
    /\ UNCHANGED <<health, call>>

\* Mutant: a scrape clears the pools whose cooldown is not over, too.
ScrapeForgives ==
    /\ failures' = [p \in PoolIds |-> 0]
    /\ unhealthyUntil' = [p \in PoolIds |-> NoTime]
    /\ UNCHANGED <<now, call, req>>

Scrape == H!Snapshot /\ UNCHANGED <<call, req>>
Tick == H!Tick /\ UNCHANGED <<call, req>>

-----------------------------------------------------------------------------

Outside(r) ==
    \/ "create" \in Kinds /\ \E rs \in WebDriverRequests : Arrive(r, "create", rs)
    \/ "playwright" \in Kinds /\ \E rs \in PlaywrightRequests : Arrive(r, "playwright", rs)
    \/ "session" \in Kinds /\ \E id \in Known : ForwardSession(r, id)
    \/ "side" \in Kinds /\ \E id \in Known : ForwardSide(r, id)
    \/ "settings" \in Kinds /\ ArriveSettings(r)
    \/ Hangup(r)
    \/ Expire(r)
    \/ BackendCreates(r)
    \/ BackendUpgrades(r)
    \/ BackendServes(r)
    \/ BackendRefuses(r)

Router(r) ==
    \/ Select(r)
    \/ Refuse(r)
    \/ ForwardCreate(r)
    \/ ForwardUpgrade(r)
    \/ DefaultBackend(r)
    \/ Lose(r)
    \/ Truncate(r)
    \/ Deny(r)
    \/ Accept(r)
    \/ RewriteSession(r)
    \/ RewriteFails(r)
    \/ Switch(r)
    \/ SwitchFails(r)

Next ==
    \/ \E r \in Req : Outside(r)
    \/ \E r \in Req : Router(r)
    \/ \E r \in Req : TunnelEnds(r)
    \/ Scrape
    \/ Tick

Safety == Init /\ [][Next]_vars

\* The goroutine of a request runs, and its timeouts fire: Lose is among the
\* steps of Router. Clients, backends, scrapes and the clock owe nothing.
Spec == Safety /\ \A r \in Req : WF_vars(Router(r))

-----------------------------------------------------------------------------

\* A backend session whose id no client has, after its request is over, has cost
\* its pool a failure, whether the answer came late, broken off, or unusable
\* (session.go:66, 77, 97; reverseproxy.go:62), with one exception: the reply
\* was good and the client no longer there to take it. Then the success has been
\* reported, the write to nobody is not looked at (session.go:81, 107-108), and
\* the session is lost free of charge.
LostSessionsAreCharged ==
    \A r \in Req :
        /\ req[r].stored
        /\ req[r].pc = "done"
        /\ req[r].answer # "session"
        /\ req[r].client = "there" \/ req[r].answer # "unread"
        => \E k \in DOMAIN req[r].verdicts : req[r].verdicts[k] = "failure"

\* A request that names a session goes to the pool that keeps it and names it
\* there by the id that pool knows, both for WebDriver and for the side
\* endpoints of Playwright sessions, out of rotation or not
\* (session.go:136-146, side.go:61-77). The side endpoints of a WebDriver session
\* whose backend chose an id like the router's own, pw_..., are the exception:
\* they are taken for those of a Playwright session.
SessionsAreReached ==
    \A r, q \in Req :
        /\ req[r].target # NoId
        /\ req[q].answer = "session"
        /\ req[r].target = PublicId(req[q].pool, req[q].upstream)
        /\ req[r].kind = "session" => req[q].kind = "create"
        /\ req[r].kind = "side" => req[q].kind = "playwright" \/ req[q].upstream \notin PwIds
        => /\ req[r].pool = req[q].pool
           /\ req[r].key = KeyOf(q)
           /\ Stored(req[r].pool, req[r].key)

Occurrences(s, values) == Cardinality({k \in DOMAIN s : s[k] \in values})

\* What gridlane_proxy_requests_total says of an attempt agrees with what the
\* health manager was told of it, success for success and failure for failure,
\* along every path of the two handlers. The one failure the counter may miss
\* is that of a new session whose reply breaks off or names no session
\* (session.go:66-97, reverseproxy.go:52-63).
MetricsMatchReports ==
    \A r \in Req :
        LET missed == Occurrences(req[r].verdicts, {"failure"})
                        - Occurrences(req[r].records, {"failure", "error"})
        IN  /\ Occurrences(req[r].records, {"success"}) = Occurrences(req[r].verdicts, {"success"})
            /\ missed \in {0, 1}
            /\ missed = 1 => req[r].kind = "create" /\ ReplyArrived(r) /\ req[r].answer = "502"

\* Every request is answered, or upgraded to a tunnel, though backends may say
\* nothing and pools may flap while it is placed (session.go:54,
\* proxy.go:158, 184).
RequestsEnd ==
    \A r \in Req : req[r].pc # "new" ~> req[r].pc \in {"done", "tunnel"}

\* The parts of this composition are the parts specified alone.
UsesHealthManager == H!Spec
UsesSelector == S!Safety

-----------------------------------------------------------------------------
\* What the documentation says and the code does not do.

\* README.md:192: a pool is marked unhealthy after "failed proxy attempts (5xx,
\* 408/425/429, 401/403 from upstream)", so a pool is out of rotation only if
\* some attempt failed upstream. A client that hangs up is charged to the pool.
EjectedOnlyByUpstream ==
    \A p \in PoolIds :
        H!Ejected(p) => \E r \in Req : req[r].pool = p /\ req[r].blame = "upstream"

AttemptsOn(p) == {r \in Req : req[r].pool = p}

EndedInFailure(r) ==
    /\ req[r].pc = "done"
    /\ req[r].verdicts # <<>>
    /\ req[r].verdicts[Len(req[r].verdicts)] = "failure"

\* README.md:192: "A pool is marked unhealthy after failure_threshold
\* consecutive failed proxy attempts": if no attempt on a pool ended but in
\* failure, and there were as many as its threshold, it has a deadline (before
\* the first tick, so that none can have passed). An attempt that fails on the
\* body of a 2xx reports a success first.
FailedAttemptsEject ==
    \A p \in PoolIds :
        /\ now = 0
        /\ \A r \in AttemptsOn(p) : EndedInFailure(r)
        /\ Cardinality(AttemptsOn(p)) >= H!Threshold(p)
        => unhealthyUntil[p] # NoTime
=============================================================================
