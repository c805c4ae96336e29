------------------------------- MODULE Gateway -------------------------------
(***************************************************************************)
(* From a file to a backend: internal/app loads router.json and the secrets *)
(* into a runtime, a request is pinned to the runtime that serves when it   *)
(* arrives, and keeps to it while the next one is loaded. One request is    *)
(* followed at a time, since requests share nothing but the runtimes; which *)
(* pool the selector takes of those that serve, and how sessions are        *)
(* encoded, is told in Selector and SessionPaths.                           *)
(***************************************************************************)
EXTENDS Access, Capabilities, Matching, FiniteSets

CONSTANTS
    Files,          \* decoded contents of router.json
    Stores,         \* what the environment and the secret files hold
    Requests,       \* what may arrive: [method, pattern, headers, payload, segments]
    MaxLoads        \* bound on successful loads

ASSUME LoadsAssumption == MaxLoads \in Nat \ {0}
ASSUME FilesAssumption ==
    \A file \in Files :
        /\ file.users \in Seq(User)
        /\ file.pools \in Seq(BackendPool)
        /\ file.adminRef \in SecretRefs
        /\ file.identity \in {None} \cup UpstreamIdentityConfig
ASSUME StoresAssumption ==
    \A store \in Stores :
        /\ \A key \in DOMAIN store.env : store.env[key] \in Text
        /\ \A key \in DOMAIN store.file : store.file[key] \in Text
ASSUME RequestsAssumption ==
    \A asked \in Requests :
        LET c == asked.payload.capabilities
        IN  c # NoObject /\ c.firstMatch # NoArray => c.firstMatch \in Seq(ToSet(c.firstMatch))

VARIABLES
    gens,           \* the runtimes built so far; the last one serves
    request         \* the request that is followed

vars == <<gens, request>>

Loadable == {file \in Files : Validate(file)}

NoRequest == [pc |-> "none"]

Answered(status) == [pc |-> "answered", status |-> status]

\* NewReloadingHandler: without a runtime the router does not start.
Init ==
    /\ gens \in {<<NewRuntime(file, store)>> : file \in Loadable, store \in Stores} \ {<<None>>}
    /\ request = NoRequest

-----------------------------------------------------------------------------

\* ReloadingHandler.Reload; one that fails changes nothing.
Reload ==
    /\ Len(gens) < MaxLoads
    /\ \E file \in Loadable, store \in Stores :
         /\ NewRuntime(file, store) # None
         /\ gens' = Append(gens, NewRuntime(file, store))
    /\ UNCHANGED request

\* The mux and the middleware, up to the handler of the route.
Verdict(asked, who) ==
    CASE RouteScope(asked.pattern) = "none" -> "404"
      [] asked.pattern \in OwnEndpoints /\ asked.method \notin {"GET", "HEAD"} -> "405"
      [] OTHER -> IF who.allowed THEN "200" ELSE "401"

\* ReloadingHandler.ServeHTTP: the runtime that serves is looked up once. What
\* the router answers itself is answered at once.
Arrive(asked) ==
    /\ request = NoRequest
    /\ LET gen == Len(gens)
           headers == Without(asked.headers, StripHeaders(gens[gen].identity))
           who == Authorize(gens[gen].policy, headers, RouteScope(asked.pattern))
           verdict == Verdict(asked, who)
       IN  request' =
             IF verdict = "200" /\ asked.pattern \notin OwnEndpoints
             THEN [pc |-> "admitted", gen |-> gen, asked |-> asked, headers |-> headers, who |-> who]
             ELSE Answered(verdict)
    /\ UNCHANGED gens

\* The routes that are placed by what is asked for, not by a session id.
Placed == NewSessionPatterns \cup {"/playwright/"}

Candidates(asked) ==
    CASE asked.pattern \in NewSessionPatterns -> ParseWebDriverNewSession(asked.payload)
      [] asked.pattern = "/playwright/" -> ParsePlaywrightPath(asked.segments)
      [] OTHER -> <<>>

Serves(rt, asked, pool) ==
    asked.pattern \in Placed =>
        \E req \in ToSet(Candidates(asked)) :
            CatalogSupports(ToSet(rt.config.browsers), req) /\ PoolServes(pool, req)

\* Mutant: the runtime is looked up again when the request is passed on.
ForwardByCurrent(pool) ==
    /\ request.pc = "admitted"
    /\ LET rt == gens[Len(gens)]
       IN  /\ pool \in ToSet(rt.config.pools)
           /\ request.asked.pattern # "/host/"
           /\ request.asked.pattern \in NewSessionPatterns => request.asked.method = "POST"
           /\ Serves(rt, request.asked, pool)
           /\ request' = [pc |-> "sent", gen |-> request.gen, asked |-> request.asked, pool |-> pool,
                          candidates |-> Candidates(request.asked),
                          seen |-> UpstreamHeaders(request.asked.pattern, request.headers, rt, request.who, pool.id)]
    /\ UNCHANGED gens

\* createSession, proxyWebDriverSession, proxyPlaywright and proxySideEndpoint.
Forward(pool) ==
    /\ request.pc = "admitted"
    /\ LET rt == gens[request.gen]
       IN  /\ pool \in ToSet(rt.config.pools)
           /\ request.asked.pattern # "/host/"
           /\ request.asked.pattern \in NewSessionPatterns => request.asked.method = "POST"
           /\ Serves(rt, request.asked, pool)
           /\ request' = [pc |-> "sent", gen |-> request.gen, asked |-> request.asked, pool |-> pool,
                          candidates |-> Candidates(request.asked),
                          seen |-> UpstreamHeaders(request.asked.pattern, request.headers, rt, request.who, pool.id)]
    /\ UNCHANGED gens

\* The same handlers and hostInfo, without a backend: no such session, no pool
\* in rotation, a method or a body they do not take, or the host itself.
Answer ==
    /\ request.pc = "admitted"
    /\ \E status \in {"400", "404", "405", "413", "503"}
                     \cup (IF request.asked.pattern = "/host/" THEN {"200"} ELSE {}) :
         request' = Answered(status)
    /\ UNCHANGED gens

Finish ==
    /\ request.pc \in {"sent", "answered"}
    /\ request' = NoRequest
    /\ UNCHANGED gens

AllPools == UNION {ToSet(file.pools) : file \in Loadable}

Next ==
    \/ Reload
    \/ \E asked \in Requests : Arrive(asked)
    \/ \E pool \in AllPools : Forward(pool)
    \/ Answer
    \/ Finish

Spec == Init /\ [][Next]_vars

-----------------------------------------------------------------------------
\* internal/catalog: what GET /config and GET /quota show of a configuration.

SanitizedConfig(cfg) ==
    [users |-> [i \in DOMAIN cfg.users |->
                   [name |-> cfg.users[i].name, quota |-> cfg.users[i].quota,
                    passwordConfigured |-> cfg.users[i].passwordRef # NoRef]],
     guest |-> cfg.guest,
     browsers |-> cfg.browsers,
     pools |-> [i \in DOMAIN cfg.pools |->
                   [id |-> cfg.pools[i].id, endpoint |-> cfg.pools[i].endpoint,
                    region |-> cfg.pools[i].region, weight |-> cfg.pools[i].weight,
                    protocols |-> cfg.pools[i].protocols, health |-> cfg.pools[i].health,
                    credentialsConfigured |-> cfg.pools[i].credentials # None]],
     tokenConfigured |-> cfg.adminRef # NoRef]

Quota(cfg) ==
    [users |-> [i \in DOMAIN cfg.users |-> [name |-> cfg.users[i].name, quota |-> cfg.users[i].quota]],
     guest |-> cfg.guest]

-----------------------------------------------------------------------------

UsersGetIn(rt) ==
    \A i \in DOMAIN rt.config.users :
        LET u == rt.config.users[i]
            secret == Resolve(u.passwordRef, rt.store)
        IN  /\ secret \notin {None, <<>>}
            /\ Colon \notin ToSet(u.name) =>
                  Authorize(rt.policy, With(<<>>, "Authorization", Basic(u.name, secret)), "side")
                      = Admitted(u.name)

PoolsAreReached(rt) ==
    /\ Cardinality({p.id : p \in ToSet(rt.config.pools)}) = Len(rt.config.pools)
    /\ \A p \in ToSet(rt.config.pools) :
         /\ p.weight > 0 /\ p.protocols # {}
         /\ p.credentials # None =>
              /\ rt.credentials[p.id] = << Resolve(p.credentials.usernameRef, rt.store),
                                           Resolve(p.credentials.passwordRef, rt.store) >>
              /\ <<>> \notin ToSet(rt.credentials[p.id])

ViewsTellTheRuntime(rt) ==
    LET view == SanitizedConfig(rt.config)
    IN  /\ {u.name : u \in ToSet(view.users)} = DOMAIN rt.policy.users
        /\ {u.name : u \in ToSet(Quota(rt.config).users)} = DOMAIN rt.policy.users
        /\ Len(view.users) = Cardinality(DOMAIN rt.policy.users)
        /\ {p.id : p \in {q \in ToSet(view.pools) : q.credentialsConfigured}} = DOMAIN rt.credentials
        /\ view.tokenConfigured <=> rt.policy.admin # None

\* Whatever the file and the secrets were, a runtime that came to serve can be
\* used: each user it lists gets in with the secret its reference names, and
\* somebody does; each pool can be told apart and drawn, and is presented with
\* its own credentials; no secret is empty; a block that asks for identities to
\* be passed on is obeyed; and the views of the configuration show what the
\* policy and the credential store really hold (config.go:139-350,
\* auth.go:78-102, credentials.go:25-45, runtime.go:31-76, catalog.go:35-96).
ServedConfigsAreUsable ==
    \A gen \in DOMAIN gens :
        LET rt == gens[gen]
        IN  /\ UsersGetIn(rt)
            /\ DOMAIN rt.policy.users # {} \/ rt.policy.guest
            /\ PoolsAreReached(rt)
            /\ \A b \in ToSet(rt.config.browsers) : \E protocol \in b.protocols :
                  CatalogSupports(ToSet(rt.config.browsers),
                      [protocol |-> protocol, browser |-> b.name, version |-> <<>>, platform |-> <<>>])
            /\ rt.policy.admin # <<>>
            /\ rt.config.identity # None => Enabled(rt.identity)
            /\ rt.config.identity # None /\ rt.config.identity.secretRef # NoRef
                  => rt.identity.routerSecret # <<>>
            /\ ViewsTellTheRuntime(rt)

\* The users of a runtime whose name and secret a client presented.
Proven(rt, headers) ==
    {u \in ToSet(rt.config.users) :
        BasicAuth(headers) = <<u.name, Resolve(u.passwordRef, rt.store)>>}

Seen(header) == Lookup(request.seen, header)

\* Headers that net/http and httputil write, or drop, whatever was set.
Reserved == HopHeaders \cup {"Host", "Content-Length", "User-Agent", "X-Forwarded-For"}

\* The headers of a block are apart from each other, from the two that the
\* router writes anyway and from the reserved ones; Validate does not ask for it
\* (config.go:165-175).
Apart(ui) ==
    LET others == {"Authorization", RouterSecretHeader} \cup Reserved
    IN  ui # None => ui.userHeader \notin others /\ ui.adminHeader \notin others \cup {ui.userHeader}

\* What a ReverseProxy drops at the client's word: nothing, for a new session.
Dropped(asked) == IF asked.pattern \in NewSessionPatterns THEN {} ELSE Nominated(asked.headers)

\* A backend hears from the router who is asking, in terms of the runtime that
\* admitted the request, whatever is loaded before it is passed on: the user who
\* proved it, or else the guest, where that runtime has one and the route allows
\* one; its router secret; the credentials of the pool, and never those of the
\* client; and never anything the client wrote in the place of one of these. The
\* most a client achieves is that one of them is missing: where a ReverseProxy
\* passes the request on, the headers that the client nominates in Connection
\* are dropped, the stamped ones as well. It takes an identity block whose
\* headers are apart; nobody gets in without (reverseproxy.go:35-49, 79-81,
\* 86-115, 264-275; middleware.go:24-46, 70-88; auth.go:123-150).
BackendSeesItsCaller ==
    request.pc = "sent" =>
        LET rt == gens[request.gen]
            ui == rt.config.identity
            proven == Proven(rt, request.asked.headers)
            guest == rt.config.guest # None /\ RouteScope(request.asked.pattern) = "user"
            dropped == Dropped(request.asked)
        IN  /\ proven = {} => guest
            /\ Apart(ui) =>
                 /\ IF request.pool.credentials # None /\ "Authorization" \notin dropped
                    THEN /\ "Authorization" \in DOMAIN request.seen
                         /\ request.seen["Authorization"] =
                                Basic(Resolve(request.pool.credentials.usernameRef, rt.store),
                                      Resolve(request.pool.credentials.passwordRef, rt.store))
                    ELSE "Authorization" \notin DOMAIN request.seen
                 /\ ui # None =>
                      /\ IF ui.userHeader \in dropped THEN Seen(ui.userHeader) = <<>>
                         ELSE Seen(ui.userHeader) \in
                                  (IF proven = {} THEN {<<"guest">>} ELSE {u.name : u \in proven})
                      /\ ui.adminHeader # Empty => Seen(ui.adminHeader) = <<>>
                      /\ IF ui.secretRef = NoRef \/ RouterSecretHeader \in dropped
                         THEN Seen(RouterSecretHeader) = <<>>
                         ELSE Seen(RouterSecretHeader) = Resolve(ui.secretRef, rt.store)

\* The alternatives of a new session are tried in the order of firstMatch, each
\* written over alwaysMatch key by key, the ones that name no browser left out,
\* and a pool is asked for one of them only (request.go:37-60, 91-129, 166-180).
CandidatesAreMerged ==
    /\ request.pc = "sent"
    /\ request.asked.pattern \in NewSessionPatterns
    /\ request.asked.payload.capabilities # NoObject
    /\ request.asked.payload.capabilities.firstMatch \notin {NoArray, <<>>}
    => IsReferenceMerge(request.asked.payload.capabilities, request.candidates)
=============================================================================
