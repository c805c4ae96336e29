------------------------------- MODULE Access -------------------------------
(***************************************************************************)
(* Who may do what, and as whom it reaches a backend: the secrets a runtime *)
(* is built from, internal/auth, the scopes of app.NewHandler and the       *)
(* headers of internal/proxy. Headers are a function from their names to    *)
(* texts; Authorization is a scheme and a text, Connection the names it     *)
(* lists.                                                                   *)
(***************************************************************************)
EXTENDS Config, FiniteSetsExt

Newline == "\n"
Colon == ":"
Space == " "

ASSUME CharAssumption == {Newline, Colon, Space} \subseteq Char

-----------------------------------------------------------------------------
\* auth.EnvFileResolver. A store is what the environment and the files hold.

TrimRight(text) ==
    LET kept == CHOOSE n \in 0..Len(text) :
                    /\ n > 0 => text[n] # Newline
                    /\ \A i \in (n + 1)..Len(text) : text[i] = Newline
    IN  SubSeq(text, 1, kept)

Lookup(values, key) == IF key \in DOMAIN values THEN values[key] ELSE <<>>

\* Mutant: a file that holds nothing but a newline is not empty.
ResolveBlank(ref, store) ==
    CASE ref.scheme = "env" /\ Lookup(store.env, ref.key) # <<>> -> Lookup(store.env, ref.key)
      [] ref.scheme = "file" /\ ref.form = "clean" /\ Lookup(store.file, ref.key) # <<>> ->
             TrimRight(Lookup(store.file, ref.key))
      [] OTHER -> None

\* Unset, unreadable and empty are one error. Only files are trimmed.
Resolve(ref, store) ==
    LET value ==
            CASE ref.scheme = "env" -> Lookup(store.env, ref.key)
              [] ref.scheme = "file" /\ ref.form = "clean" -> TrimRight(Lookup(store.file, ref.key))
              [] OTHER -> <<>>
    IN  IF value = <<>> THEN None ELSE value

\* A map filled key by key, in the order of their indices: of equal keys the
\* last one stays.
Keyed(keys, values) ==
    LET last(k) == CHOOSE i \in DOMAIN keys :
                       keys[i] = k /\ \A j \in DOMAIN keys : keys[j] = k => j <= i
    IN  [k \in {keys[i] : i \in DOMAIN keys} |-> values[last(k)]]

\* auth.NewPolicy.
NewPolicy(cfg, store) ==
    LET password(u) == Resolve(u.passwordRef, store)
        token == Resolve(cfg.adminRef, store)
    IN  IF \/ \E i \in DOMAIN cfg.users : password(cfg.users[i]) = None
           \/ cfg.adminRef # NoRef /\ token = None
        THEN None
        ELSE [users |-> Keyed([i \in DOMAIN cfg.users |-> cfg.users[i].name],
                             [i \in DOMAIN cfg.users |-> password(cfg.users[i])]),
              guest |-> cfg.guest # None,
              admin |-> token]

\* proxy.NewCredentialStore.
NewCredentialStore(pools, store) ==
    LET holders == {i \in DOMAIN pools : pools[i].credentials # None}
        username(i) == Resolve(pools[i].credentials.usernameRef, store)
        password(i) == Resolve(pools[i].credentials.passwordRef, store)
    IN  IF \E i \in holders : None \in {username(i), password(i)} THEN None
        ELSE Keyed([i \in holders |-> pools[i].id],
                   [i \in holders |-> <<username(i), password(i)>>])

\* The zero value of proxy.UpstreamIdentity: nothing is propagated.
NoIdentity == [userHeader |-> Empty, adminHeader |-> Empty, routerSecret |-> <<>>]

ResolveUpstreamIdentity(ui, store) ==
    IF ui = None THEN NoIdentity
    ELSE IF ui.secretRef # NoRef /\ Resolve(ui.secretRef, store) = None THEN None
    ELSE [userHeader |-> ui.userHeader, adminHeader |-> ui.adminHeader,
          routerSecret |-> IF ui.secretRef = NoRef THEN <<>> ELSE Resolve(ui.secretRef, store)]

\* app.NewRuntime: one secret that does not resolve, and there is no runtime.
NewRuntime(cfg, store) ==
    LET policy == NewPolicy(cfg, store)
        credentials == NewCredentialStore(cfg.pools, store)
        identity == ResolveUpstreamIdentity(cfg.identity, store)
    IN  IF policy = None \/ credentials = None \/ identity = None THEN None
        ELSE [config |-> cfg, store |-> store,
              policy |-> policy, credentials |-> credentials, identity |-> identity]

-----------------------------------------------------------------------------
\* auth.Policy.

AdminTokenHeader == "X-Gridlane-Admin-Token"
RouterSecretHeader == "X-Router-Secret"

Basic(user, password) == [scheme |-> "Basic", text |-> user \o <<Colon>> \o password]
Bearer(token) == [scheme |-> "Bearer", text |-> token]

\* http.Request.BasicAuth: the name ends at the first colon.
BasicAuth(headers) ==
    IF "Authorization" \notin DOMAIN headers THEN None
    ELSE LET text == headers["Authorization"].text
             first == CHOOSE i \in DOMAIN text :
                          text[i] = Colon /\ \A j \in 1..(i - 1) : text[j] # Colon
         IN  IF headers["Authorization"].scheme # "Basic" \/ \A i \in DOMAIN text : text[i] # Colon
             THEN None
             ELSE <<SubSeq(text, 1, first - 1), SubSeq(text, first + 1, Len(text))>>

AuthenticateBasic(policy, pair) ==
    pair # None /\ pair[1] \in DOMAIN policy.users /\ policy.users[pair[1]] = pair[2]

TrimSpace(text) ==
    LET kept == {i \in DOMAIN text : text[i] # Space}
    IN  IF kept = {} THEN <<>> ELSE SubSeq(text, Min(kept), Max(kept))

AdminTokenFromRequest(headers) ==
    IF Lookup(headers, AdminTokenHeader) # <<>> THEN headers[AdminTokenHeader]
    ELSE IF "Authorization" \in DOMAIN headers /\ headers["Authorization"].scheme = "Bearer"
    THEN TrimSpace(headers["Authorization"].text)
    ELSE <<>>

AuthenticateAdminToken(policy, token) ==
    policy.admin # None /\ token # <<>> /\ token = policy.admin

Denied == [allowed |-> FALSE, subject |-> <<>>, admin |-> FALSE]
Admitted(subject) == [Denied EXCEPT !.allowed = TRUE, !.subject = subject]

\* Policy.Authorize.
Authorize(policy, headers, scope) ==
    LET pair == BasicAuth(headers)
    IN  CASE scope = "public" -> Admitted(<<>>)
          [] scope \in {"user", "side"} /\ AuthenticateBasic(policy, pair) -> Admitted(pair[1])
          [] scope = "user" /\ ~AuthenticateBasic(policy, pair) /\ policy.guest -> Admitted(<<"guest">>)
          [] scope = "admin" /\ AuthenticateAdminToken(policy, AdminTokenFromRequest(headers)) ->
                 [Admitted(<<"admin">>) EXCEPT !.admin = TRUE]
          [] OTHER -> Denied

\* The patterns of app.NewHandler.
OwnEndpoints == {"/ping", "/status", "/config", "/quota", "/metrics"}
NewSessionPatterns == {"/session", "/wd/hub/session"}
SidePatterns == {"/vnc/", "/devtools/", "/video/", "/logs/", "/download/", "/downloads/",
                 "/clipboard/", "/history/settings", "/history/settings/"}

RouteScope(pattern) ==
    CASE pattern \in {"/ping", "/status"} -> "public"
      [] pattern \in {"/config", "/metrics"} -> "admin"
      [] pattern \in {"/quota", "/session/", "/wd/hub/session/", "/playwright/"}
                     \cup NewSessionPatterns -> "user"
      [] pattern \in {"/host/"} \cup SidePatterns -> "side"
      [] OTHER -> "none"

-----------------------------------------------------------------------------
\* Headers.

Without(headers, names) == [h \in DOMAIN headers \ names |-> headers[h]]

\* http.Header.Set, which overwrites.
With(headers, name, value) ==
    [h \in DOMAIN headers \cup {name} |-> IF h = name THEN value ELSE headers[h]]

\* UpstreamIdentity.Enabled and StripHeaders.
Enabled(identity) == identity.userHeader # Empty

StripHeaders(identity) ==
    IF Enabled(identity)
    THEN {identity.userHeader, identity.adminHeader, RouterSecretHeader} \ {Empty}
    ELSE {}

ApplyBackendCredentials(headers, credentials, id) ==
    IF id \in DOMAIN credentials
    THEN With(headers, "Authorization", Basic(credentials[id][1], credentials[id][2]))
    ELSE headers

ApplyUpstreamIdentity(headers, identity, who) ==
    LET stripped == Without(headers, StripHeaders(identity))
        stamped(when, before, name, value) == IF when THEN With(before, name, value) ELSE before
        user == stamped(who.subject # <<>>, stripped, identity.userHeader, who.subject)
        admin == stamped(who.admin /\ identity.adminHeader # Empty, user, identity.adminHeader, <<"true">>)
    IN  IF Enabled(identity) /\ who.allowed
        THEN stamped(identity.routerSecret # <<>>, admin, RouterSecretHeader, identity.routerSecret)
        ELSE stripped

\* What the Director and newUpstreamRequest have in common.
Stamped(headers, rt, who, id) ==
    ApplyUpstreamIdentity(
        ApplyBackendCredentials(Without(headers, {"Authorization"}), rt.credentials, id),
        rt.identity, who)

\* isHopHeader, and the same in net/http/httputil.
HopHeaders ==
    {"Connection", "Proxy-Connection", "Keep-Alive", "Proxy-Authenticate", "Proxy-Authorization",
     "Te", "Trailer", "Transfer-Encoding", "Upgrade"}

\* The headers that Connection declares to be for the next hop only.
Nominated(headers) == IF "Connection" \in DOMAIN headers THEN headers["Connection"] ELSE {}

\* A new session is asked for by a request of the router's own. Everything else
\* goes through a ReverseProxy, which removes the headers for one hop, with those
\* the client nominated, after the Director is done. (What it adds then, to tell
\* of the client's address and to ask for an upgrade again, is left out.)
UpstreamHeaders(pattern, headers, rt, who, id) ==
    IF pattern \in NewSessionPatterns
    THEN Stamped(Without(headers, HopHeaders), rt, who, id)
    ELSE LET stamped == Stamped(headers, rt, who, id)
         IN  Without(stamped, HopHeaders \cup Nominated(stamped))
=============================================================================
