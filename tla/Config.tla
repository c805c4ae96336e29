------------------------------- MODULE Config -------------------------------
(***************************************************************************)
(* internal/config/config.go after decoding: which contents of router.json  *)
(* Validate accepts. Absent blocks are None. Texts that are read further on *)
(* (names, versions, platforms) are sequences of characters, where a whole  *)
(* word may count as one. A secret reference is its scheme, the form of its *)
(* name, which is all that is validated, and the name.                      *)
(***************************************************************************)
EXTENDS Integers, Sequences

CONSTANTS
    None,           \* an absent block, and every error
    Char            \* what texts are made of

Text == Seq(Char)

ASSUME NoneAssumption == None \notin Text /\ None \notin Text \X Text

Empty == ""     \* the zero value of a string

Protocols == {"webdriver", "playwright"}

\* Forms of a name: "clean" is an absolute path with nothing to clean away.
SecretRef(scheme, form, key) == [scheme |-> scheme, form |-> form, key |-> key]

NoRef == SecretRef(Empty, Empty, Empty)

\* What decoding yields, before anything is validated.
SecretRefs == [scheme : STRING, form : STRING, key : STRING]

User == [name : Text, passwordRef : SecretRefs, quota : Int]

BackendPool ==
    [id : STRING, endpoint : [scheme : STRING, host : STRING, userinfo : BOOLEAN],
     region : STRING, weight : Int, protocols : SUBSET STRING,
     credentials : {None} \cup [usernameRef : SecretRefs, passwordRef : SecretRefs],
     health : [enabled : BOOLEAN, failureThreshold : Int, cooldown : STRING]]

UpstreamIdentityConfig == [userHeader : STRING, adminHeader : STRING, secretRef : SecretRefs]

ValidateSecretRef(ref) ==
    \/ ref.scheme = "env" /\ ref.form # Empty
    \/ ref.scheme = "file" /\ ref.form = "clean"

\* A value under each index, none of them twice.
AllDiffer(values) == \A i, j \in DOMAIN values : values[i] = values[j] => i = j

ValidateQuota(quota) == quota > 0

ValidateUsers(users) ==
    /\ AllDiffer([i \in DOMAIN users |-> users[i].name])
    /\ \A i \in DOMAIN users :
         /\ users[i].name # <<>>
         /\ ValidateSecretRef(users[i].passwordRef)
         /\ ValidateQuota(users[i].quota)

ValidateProtocols(protocols) == protocols # {} /\ protocols \subseteq Protocols

ValidateCatalog(browsers) ==
    /\ browsers # <<>>
    /\ AllDiffer([i \in DOMAIN browsers |-> browsers[i].name])
    /\ \A i \in DOMAIN browsers :
         /\ browsers[i].name # <<>>
         /\ browsers[i].versions # {}
         /\ <<>> \notin browsers[i].versions \cup browsers[i].platforms
         /\ ValidateProtocols(browsers[i].protocols)

\* An endpoint is a scheme, a host and perhaps user info.
ValidateEndpoint(url) == url.scheme \in {"http", "https"} /\ url.host # Empty /\ ~url.userinfo

\* "bad" stands for every text that is no duration.
ValidateHealth(health) == health.failureThreshold >= 0 /\ health.cooldown # "bad"

ValidateCredentials(c) ==
    c # None => ValidateSecretRef(c.usernameRef) /\ ValidateSecretRef(c.passwordRef)

ValidatePool(pool) ==
    /\ pool.id # Empty
    /\ ValidateEndpoint(pool.endpoint)
    /\ pool.region # Empty
    /\ pool.weight > 0
    /\ ValidateProtocols(pool.protocols)
    /\ ValidateCredentials(pool.credentials)
    /\ ValidateHealth(pool.health)

ValidateBackendPools(pools) ==
    /\ pools # <<>>
    /\ AllDiffer([i \in DOMAIN pools |-> pools[i].id])
    /\ \A i \in DOMAIN pools : ValidatePool(pools[i])

ValidateUpstreamIdentity(ui) ==
    ui # None => ui.userHeader # Empty /\ (ui.secretRef # NoRef => ValidateSecretRef(ui.secretRef))

Validate(cfg) ==
    /\ cfg.version = 1
    /\ cfg.users # <<>> \/ cfg.guest # None
    /\ ValidateUsers(cfg.users)
    /\ cfg.guest # None => ValidateQuota(cfg.guest)
    /\ ValidateCatalog(cfg.browsers)
    /\ ValidateBackendPools(cfg.pools)
    /\ cfg.adminRef # NoRef => ValidateSecretRef(cfg.adminRef)
    /\ ValidateUpstreamIdentity(cfg.identity)
=============================================================================
