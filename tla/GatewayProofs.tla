---------------------------- MODULE GatewayProofs ----------------------------
(***************************************************************************)
(* Runtimes are usable and backends hear who is asking, for every set of    *)
(* files, of secrets and of requests.                                       *)
(***************************************************************************)
EXTENDS Gateway, SetLemmas

\* The runtimes that a reload may build.
Runtimes == {NewRuntime(file, store) : file \in Loadable, store \in Stores} \ {None}

-----------------------------------------------------------------------------
\* Operators.

\* A secret that resolves is a text that is not empty.
LEMMA ResolveLemma ==
    ASSUME NEW ref, NEW store \in Stores
    PROVE  Resolve(ref, store) # None => Resolve(ref, store) \in Text \ {<<>>}
<1>1. ASSUME NEW text \in Text
      PROVE  TrimRight(text) \in Text
  <2> DEFINE Good(n) == /\ n > 0 => text[n] # Newline
                        /\ \A i \in (n + 1)..Len(text) : text[i] = Newline
             Blank(n) == \A i \in (n + 1)..Len(text) : text[i] = Newline
             tails == {n \in 0..Len(text) : Blank(n)}
  <2>1. Len(text) \in Nat
    BY DEF Text
  <2>2. Min(tails) \in tails /\ \A n \in tails : Min(tails) <= n
    <3>1. Len(text) \in tails /\ tails \in SUBSET Nat
      BY <2>1
    <3> HIDE DEF tails
    <3> QED BY <3>1, MinLemma
  <2>3. PICK m \in tails : \A n \in tails : m <= n
    BY <2>2
  <2>4. ASSUME m > 0, text[m] = Newline
        PROVE  FALSE
    <3>1. m - 1 \in 0..Len(text) /\ m \in 0..Len(text)
      BY <2>1, <2>3, <2>4
    <3>2. ASSUME NEW i \in ((m - 1) + 1)..Len(text)
          PROVE  text[i] = Newline
      <4>1. i = m \/ i \in (m + 1)..Len(text)
        BY <3>1, <2>1
      <4> QED BY <4>1, <2>3, <2>4
    <3>3. m - 1 \in tails
      BY <3>1, <3>2
    <3>4. ~(m <= m - 1)
      BY <3>1
    <3> QED BY <3>3, <3>4, <2>3
  <2>5. m \in 0..Len(text) /\ Good(m)
    BY <2>3, <2>4
  <2> DEFINE kept == CHOOSE n \in 0..Len(text) : Good(n)
  <2>6. kept \in 0..Len(text)
    <3> HIDE DEF Good
    <3> QED BY <2>5
  <2>7. TrimRight(text) = SubSeq(text, 1, kept)
    BY DEF TrimRight
  <2> HIDE DEF kept
  <2>8. SubSeq(text, 1, kept) \in Text
    BY <2>1, <2>6 DEF Text
  <2> QED BY <2>7, <2>8
<1>2. <<>> \in Text
  BY DEF Text
<1>3. \A key : Lookup(store.env, key) \in Text /\ Lookup(store.file, key) \in Text
  BY <1>2, StoresAssumption DEF Lookup
<1> DEFINE value == CASE ref.scheme = "env" -> Lookup(store.env, ref.key)
                      [] ref.scheme = "file" /\ ref.form = "clean" -> TrimRight(Lookup(store.file, ref.key))
                      [] OTHER -> <<>>
<1>4. value \in Text
  <2>1. TrimRight(Lookup(store.file, ref.key)) \in Text
    BY <1>1, <1>3
  <2>2. CASE ref.scheme = "env"
    BY <2>2, <1>3
  <2>3. CASE ref.scheme = "file" /\ ref.form = "clean"
    BY <2>3, <2>1
  <2>4. CASE ~(ref.scheme = "env") /\ ~(ref.scheme = "file" /\ ref.form = "clean")
    BY <2>4, <1>2
  <2> QED BY <2>2, <2>3, <2>4
<1>5. Resolve(ref, store) = IF value = <<>> THEN None ELSE value
  BY DEF Resolve
<1> HIDE DEF value
<1> QED BY <1>4, <1>5

\* A map whose keys are all different has each value under its key.
LEMMA KeyedLemma ==
    ASSUME NEW keys, DOMAIN keys \subseteq Nat, NEW values, AllDiffer(keys)
    PROVE  /\ DOMAIN Keyed(keys, values) = {keys[i] : i \in DOMAIN keys}
           /\ \A i \in DOMAIN keys : Keyed(keys, values)[keys[i]] = values[i]
<1> DEFINE last(k) == CHOOSE i \in DOMAIN keys :
                          keys[i] = k /\ \A j \in DOMAIN keys : keys[j] = k => j <= i
<1>1. ASSUME NEW i \in DOMAIN keys
      PROVE  last(keys[i]) = i
  <2>1. i \in Nat /\ \A j \in DOMAIN keys : keys[j] = keys[i] <=> j = i
    BY DEF AllDiffer
  <2>2. i <= i
    BY <2>1
  <2> QED BY <2>1, <2>2
<1>2. Keyed(keys, values) = [k \in {keys[i] : i \in DOMAIN keys} |-> values[last(k)]]
  BY DEF Keyed
<1> HIDE DEF last
<1> QED BY <1>1, <1>2

\* A name without a colon is read back as it was presented.
LEMMA BasicAuthOfBasic ==
    ASSUME NEW user \in Text, NEW password \in Text, Colon \notin ToSet(user),
           NEW headers, "Authorization" \in DOMAIN headers,
           headers["Authorization"] = Basic(user, password)
    PROVE  BasicAuth(headers) = <<user, password>>
<1> DEFINE text == user \o <<Colon>> \o password
           n == Len(user) + 1
           IsFirst(i) == text[i] = Colon /\ \A j \in 1..(i - 1) : text[j] # Colon
           first == CHOOSE i \in DOMAIN text : IsFirst(i)
<1>1. user \in Seq(Char) /\ password \in Seq(Char) /\ Colon \in Char
  BY CharAssumption DEF Text
<1>2. text \in Seq(Char) /\ Len(text) = n + Len(password) /\ n \in Nat \ {0}
  BY <1>1
<1>3. text[n] = Colon /\ n \in DOMAIN text
  BY <1>1, <1>2
<1>4. \A i \in 1..(n - 1) : text[i] = user[i] /\ text[i] # Colon
  BY <1>1, <1>2 DEF ToSet
<1>5. SubSeq(text, 1, n - 1) = user
  BY <1>1, <1>2, <1>4
<1>6. SubSeq(text, n + 1, Len(text)) = password
  BY <1>1, <1>2
<1>7. first = n
  <2>1. IsFirst(n)
    BY <1>3, <1>4
  <2>2. ASSUME NEW i \in DOMAIN text, IsFirst(i)
        PROVE  i = n
    <3>1. i \in Nat /\ i >= 1
      BY <1>2
    <3>2. ~(i < n)
      BY <3>1, <1>2, <1>4, <2>2
    <3>3. ~(n < i)
      BY <3>1, <1>2, <1>3, <2>2
    <3> QED BY <3>1, <3>2, <3>3, <1>2
  <2> HIDE DEF IsFirst, text, n
  <2> QED BY <2>1, <2>2, <1>3
<1>8. headers["Authorization"] = [scheme |-> "Basic", text |-> text]
  BY DEF Basic
<1>9. BasicAuth(headers) = IF \A i \in DOMAIN text : text[i] # Colon THEN None
                           ELSE <<SubSeq(text, 1, first - 1), SubSeq(text, first + 1, Len(text))>>
  <2> HIDE DEF text
  <2> QED BY <1>8 DEF BasicAuth
<1> HIDE DEF text, n, first
<1> QED BY <1>3, <1>5, <1>6, <1>7, <1>9

-----------------------------------------------------------------------------
\* Runtimes.

LEMMA RuntimeParts ==
    ASSUME NEW rt \in Runtimes
    PROVE  /\ rt.config \in Files /\ Validate(rt.config) /\ rt.store \in Stores
           /\ rt.policy # None /\ rt.policy = NewPolicy(rt.config, rt.store)
           /\ rt.credentials # None /\ rt.credentials = NewCredentialStore(rt.config.pools, rt.store)
           /\ rt.identity # None /\ rt.identity = ResolveUpstreamIdentity(rt.config.identity, rt.store)
<1>1. PICK file \in Loadable, store \in Stores : rt = NewRuntime(file, store)
  BY DEF Runtimes
<1>2. rt # None
  BY DEF Runtimes
<1> QED BY <1>1, <1>2 DEF NewRuntime, Loadable

\* The policy knows the users of the configuration by their secrets.
LEMMA PolicyLemma ==
    ASSUME NEW rt \in Runtimes
    PROVE  /\ DOMAIN rt.policy.users = {u.name : u \in ToSet(rt.config.users)}
           /\ \A u \in ToSet(rt.config.users) :
                /\ u.name \in Text \ {<<>>}
                /\ Resolve(u.passwordRef, rt.store) \in Text \ {<<>>}
                /\ rt.policy.users[u.name] = Resolve(u.passwordRef, rt.store)
           /\ rt.policy.guest = (rt.config.guest # None)
           /\ rt.policy.admin = Resolve(rt.config.adminRef, rt.store)
           /\ rt.config.adminRef = NoRef <=> rt.policy.admin = None
<1> DEFINE users == rt.config.users
           password(u) == Resolve(u.passwordRef, rt.store)
           names == [i \in DOMAIN users |-> users[i].name]
           secrets == [i \in DOMAIN users |-> password(users[i])]
<1>1. /\ rt.config \in Files /\ Validate(rt.config) /\ rt.store \in Stores
      /\ rt.policy # None /\ rt.policy = NewPolicy(rt.config, rt.store)
  BY RuntimeParts
<1>2. /\ \A i \in DOMAIN users : password(users[i]) # None
      /\ ~(rt.config.adminRef # NoRef /\ Resolve(rt.config.adminRef, rt.store) = None)
      /\ rt.policy = [users |-> Keyed(names, secrets), guest |-> rt.config.guest # None,
                      admin |-> Resolve(rt.config.adminRef, rt.store)]
  BY <1>1 DEF NewPolicy
<1>3. Resolve(NoRef, rt.store) = None
  <2>1. NoRef.scheme = Empty
    BY DEF NoRef, SecretRef
  <2>2. Empty # "env" /\ Empty # "file"
    BY DEF Empty
  <2> QED BY <2>1, <2>2 DEF Resolve
<1>4. users \in Seq(User) /\ DOMAIN users \subseteq Nat
  BY <1>1, FilesAssumption
<1>5. AllDiffer(names) /\ \A i \in DOMAIN users : users[i].name # <<>> /\ users[i].name \in Text
  <2>1. ValidateUsers(users)
    BY <1>1 DEF Validate
  <2>2. \A i \in DOMAIN users : users[i] \in User
    BY <1>4
  <2>3. \A i \in DOMAIN users : users[i].name \in Text
    BY <2>2 DEF User
  <2> QED BY <2>1, <2>3 DEF ValidateUsers
<1>6. /\ DOMAIN Keyed(names, secrets) = {names[i] : i \in DOMAIN names}
      /\ \A i \in DOMAIN names : Keyed(names, secrets)[names[i]] = secrets[i]
  <2> DOMAIN names \subseteq Nat
    BY <1>4
  <2> HIDE DEF names, secrets
  <2> QED BY <1>5, KeyedLemma
<1>7. \A i \in DOMAIN users : password(users[i]) \in Text \ {<<>>}
  BY <1>1, <1>2, ResolveLemma
<1>8. DOMAIN names = DOMAIN users /\ \A i \in DOMAIN users : names[i] = users[i].name /\ secrets[i] = password(users[i])
  OBVIOUS
<1>9. \A u \in ToSet(users) : \E i \in DOMAIN users : u = users[i]
  BY DEF ToSet
<1>10. DOMAIN rt.policy.users = {u.name : u \in ToSet(users)}
  <2> HIDE DEF names, secrets
  <2> QED BY <1>2, <1>6, <1>8 DEF ToSet
<1>11. ASSUME NEW u \in ToSet(users)
       PROVE  /\ u.name \in Text \ {<<>>} /\ password(u) \in Text \ {<<>>}
              /\ rt.policy.users[u.name] = password(u)
  <2>1. PICK i \in DOMAIN users : u = users[i]
    BY <1>9
  <2>2. rt.policy.users = Keyed(names, secrets)
    BY <1>2
  <2>3. Keyed(names, secrets)[names[i]] = secrets[i]
    BY <1>6, <1>8
  <2> HIDE DEF names, secrets
  <2> QED BY <2>1, <2>2, <2>3, <1>5, <1>7, <1>8
<1>12. rt.policy.guest = (rt.config.guest # None) /\ rt.policy.admin = Resolve(rt.config.adminRef, rt.store)
  BY <1>2
<1> QED BY <1>2, <1>3, <1>10, <1>11, <1>12

\* The credential store knows the pools that have credentials, by their ids.
LEMMA CredentialsLemma ==
    ASSUME NEW rt \in Runtimes
    PROVE  /\ \A p, q \in ToSet(rt.config.pools) : p.id = q.id => p = q
           /\ DOMAIN rt.credentials = {p.id : p \in {q \in ToSet(rt.config.pools) : q.credentials # None}}
           /\ \A p \in ToSet(rt.config.pools) :
                p.credentials # None =>
                  /\ rt.credentials[p.id] = << Resolve(p.credentials.usernameRef, rt.store),
                                               Resolve(p.credentials.passwordRef, rt.store) >>
                  /\ Resolve(p.credentials.usernameRef, rt.store) \in Text \ {<<>>}
                  /\ Resolve(p.credentials.passwordRef, rt.store) \in Text \ {<<>>}
<1> DEFINE pools == rt.config.pools
           holders == {i \in DOMAIN pools : pools[i].credentials # None}
           username(i) == Resolve(pools[i].credentials.usernameRef, rt.store)
           password(i) == Resolve(pools[i].credentials.passwordRef, rt.store)
           ids == [i \in holders |-> pools[i].id]
           pairs == [i \in holders |-> <<username(i), password(i)>>]
<1>1. /\ rt.config \in Files /\ Validate(rt.config) /\ rt.store \in Stores
      /\ rt.credentials # None /\ rt.credentials = NewCredentialStore(pools, rt.store)
  BY RuntimeParts
<1>2. /\ \A i \in holders : username(i) # None /\ password(i) # None
      /\ rt.credentials = Keyed(ids, pairs)
  BY <1>1 DEF NewCredentialStore
<1>3. DOMAIN pools \subseteq Nat
  BY <1>1, FilesAssumption
<1>4. AllDiffer([i \in DOMAIN pools |-> pools[i].id])
  BY <1>1 DEF Validate, ValidateBackendPools
<1>5. DOMAIN ids = holders /\ DOMAIN pairs = holders /\ holders \subseteq DOMAIN pools
  OBVIOUS
<1>6. AllDiffer(ids)
  BY <1>4, <1>5 DEF AllDiffer
<1>7. /\ DOMAIN Keyed(ids, pairs) = {ids[i] : i \in DOMAIN ids}
      /\ \A i \in DOMAIN ids : Keyed(ids, pairs)[ids[i]] = pairs[i]
  <2> DOMAIN ids \subseteq Nat
    BY <1>3
  <2> HIDE DEF ids, pairs
  <2> QED BY <1>6, KeyedLemma
<1>8. \A i \in holders : username(i) \in Text \ {<<>>} /\ password(i) \in Text \ {<<>>}
  BY <1>1, <1>2, ResolveLemma
<1>9. \A p, q \in ToSet(pools) : p.id = q.id => p = q
  BY <1>4 DEF AllDiffer, ToSet
<1>10. \A p \in ToSet(pools) : p.credentials # None => \E i \in holders : p = pools[i]
  BY DEF ToSet
<1>11. DOMAIN rt.credentials = {p.id : p \in {q \in ToSet(pools) : q.credentials # None}}
  <2>1. \A i \in holders : pools[i] \in ToSet(pools) /\ ids[i] = pools[i].id
    BY DEF ToSet
  <2> HIDE DEF ids, pairs
  <2>2. DOMAIN rt.credentials = {ids[i] : i \in holders}
    BY <1>2, <1>5, <1>7
  <2>3. \A i \in holders : pools[i].credentials # None
    OBVIOUS
  <2> HIDE DEF holders
  <2> QED BY <2>1, <2>2, <2>3, <1>10
<1>12. ASSUME NEW p \in ToSet(pools), p.credentials # None
       PROVE  /\ rt.credentials[p.id] = << Resolve(p.credentials.usernameRef, rt.store),
                                           Resolve(p.credentials.passwordRef, rt.store) >>
              /\ Resolve(p.credentials.usernameRef, rt.store) \in Text \ {<<>>}
              /\ Resolve(p.credentials.passwordRef, rt.store) \in Text \ {<<>>}
  <2>1. PICK i \in holders : p = pools[i]
    BY <1>10, <1>12
  <2>2. rt.credentials[ids[i]] = pairs[i]
    BY <1>2, <1>5, <1>7
  <2>3. ids[i] = p.id /\ pairs[i] = <<username(i), password(i)>>
    BY <2>1
  <2> QED BY <2>1, <2>2, <2>3, <1>8
<1> QED BY <1>9, <1>11, <1>12

\* The headers that are stripped and stamped are those of the configuration.
LEMMA IdentityLemma ==
    ASSUME NEW rt \in Runtimes
    PROVE  /\ rt.config.identity = None => ~Enabled(rt.identity)
           /\ rt.config.identity # None =>
                /\ Enabled(rt.identity)
                /\ rt.identity.userHeader = rt.config.identity.userHeader
                /\ rt.identity.adminHeader = rt.config.identity.adminHeader
                /\ rt.config.identity.secretRef = NoRef => rt.identity.routerSecret = <<>>
                /\ rt.config.identity.secretRef # NoRef =>
                     /\ rt.identity.routerSecret = Resolve(rt.config.identity.secretRef, rt.store)
                     /\ rt.identity.routerSecret # <<>>
<1> DEFINE ui == rt.config.identity
<1>1. /\ rt.config \in Files /\ Validate(rt.config) /\ rt.store \in Stores
      /\ rt.identity # None /\ rt.identity = ResolveUpstreamIdentity(ui, rt.store)
  BY RuntimeParts
<1>2. CASE ui = None
  <2>1. rt.identity = NoIdentity
    BY <1>1, <1>2 DEF ResolveUpstreamIdentity
  <2>2. rt.identity.userHeader = Empty
    BY <2>1 DEF NoIdentity
  <2> QED BY <1>2, <2>2 DEF Enabled
<1>3. CASE ui # None
  <2>1. ui.userHeader # Empty
    BY <1>1, <1>3 DEF Validate, ValidateUpstreamIdentity
  <2>2. ~(ui.secretRef # NoRef /\ Resolve(ui.secretRef, rt.store) = None)
    BY <1>1, <1>3 DEF ResolveUpstreamIdentity
  <2>3. rt.identity = [userHeader |-> ui.userHeader, adminHeader |-> ui.adminHeader,
                       routerSecret |-> IF ui.secretRef = NoRef THEN <<>>
                                        ELSE Resolve(ui.secretRef, rt.store)]
    BY <1>1, <1>3, <2>2 DEF ResolveUpstreamIdentity
  <2>4. ui.secretRef # NoRef => Resolve(ui.secretRef, rt.store) \in Text \ {<<>>}
    BY <1>1, <2>2, ResolveLemma
  <2>5. /\ rt.identity.userHeader = ui.userHeader /\ rt.identity.adminHeader = ui.adminHeader
        /\ rt.identity.routerSecret = IF ui.secretRef = NoRef THEN <<>> ELSE Resolve(ui.secretRef, rt.store)
    BY <2>3
  <2>6. Enabled(rt.identity)
    BY <2>1, <2>5 DEF Enabled
  <2> QED BY <1>3, <2>4, <2>5, <2>6
<1> QED BY <1>2, <1>3

-----------------------------------------------------------------------------
\* Requests.

\* BasicAuth is accepted exactly if it proves somebody.
LEMMA ProvenLemma ==
    ASSUME NEW rt \in Runtimes, NEW headers
    PROVE  /\ AuthenticateBasic(rt.policy, BasicAuth(headers)) <=> Proven(rt, headers) # {}
           /\ AuthenticateBasic(rt.policy, BasicAuth(headers)) =>
                /\ BasicAuth(headers)[1] \in {u.name : u \in Proven(rt, headers)}
                /\ BasicAuth(headers)[1] # <<>>
<1> DEFINE pair == BasicAuth(headers)
           secret(u) == Resolve(u.passwordRef, rt.store)
<1>1. /\ DOMAIN rt.policy.users = {u.name : u \in ToSet(rt.config.users)}
      /\ \A u \in ToSet(rt.config.users) :
           /\ u.name \in Text \ {<<>>} /\ secret(u) \in Text
           /\ rt.policy.users[u.name] = secret(u)
  BY PolicyLemma
<1>2. pair = None \/ pair = <<pair[1], pair[2]>>
  <2> DEFINE text == headers["Authorization"].text
             first == CHOOSE i \in DOMAIN text :
                          text[i] = Colon /\ \A j \in 1..(i - 1) : text[j] # Colon
             name == SubSeq(text, 1, first - 1)
             password == SubSeq(text, first + 1, Len(text))
  <2>1. pair = None \/ pair = <<name, password>>
    BY Zenon DEF BasicAuth
  <2> HIDE DEF pair, name, password
  <2> QED BY <2>1
<1>3. Proven(rt, headers) = {u \in ToSet(rt.config.users) : pair = <<u.name, secret(u)>>}
  BY DEF Proven
<1> HIDE DEF pair, secret
<1>4. \A u \in ToSet(rt.config.users) : <<u.name, secret(u)>> # None
  BY <1>1, NoneAssumption
<1>5. ASSUME AuthenticateBasic(rt.policy, pair)
      PROVE  pair[1] \in {u.name : u \in Proven(rt, headers)} /\ pair[1] # <<>>
  <2>1. pair # None /\ pair[1] \in DOMAIN rt.policy.users /\ rt.policy.users[pair[1]] = pair[2]
    BY <1>5 DEF AuthenticateBasic
  <2>2. PICK u \in ToSet(rt.config.users) : pair[1] = u.name
    BY <2>1, <1>1
  <2>3. pair = <<u.name, secret(u)>>
    BY <2>1, <2>2, <1>1, <1>2
  <2> QED BY <2>2, <2>3, <1>1, <1>3
<1>6. ASSUME NEW u \in Proven(rt, headers)
      PROVE  AuthenticateBasic(rt.policy, pair)
  <2>1. u \in ToSet(rt.config.users) /\ pair = <<u.name, secret(u)>>
    BY <1>3
  <2> QED BY <2>1, <1>1, <1>4 DEF AuthenticateBasic
<1> QED BY <1>5, <1>6 DEF pair

\* Whoever is admitted to a route of users is one who proved it, or the guest.
LEMMA CallerLemma ==
    ASSUME NEW rt \in Runtimes, NEW headers, NEW scope \in {"user", "side"},
           Authorize(rt.policy, headers, scope).allowed
    PROVE  LET who == Authorize(rt.policy, headers, scope)
               proven == Proven(rt, headers)
           IN  /\ ~who.admin /\ who.subject # <<>>
               /\ proven # {} => who.subject \in {u.name : u \in proven}
               /\ proven = {} => /\ who.subject = <<"guest">>
                                 /\ scope = "user" /\ rt.config.guest # None
<1> DEFINE who == Authorize(rt.policy, headers, scope)
           proven == Proven(rt, headers)
           pair == BasicAuth(headers)
<1>1. /\ AuthenticateBasic(rt.policy, pair) <=> proven # {}
      /\ AuthenticateBasic(rt.policy, pair) =>
           pair[1] \in {u.name : u \in proven} /\ pair[1] # <<>>
  BY ProvenLemma
<1>2. \A name : /\ Admitted(name).subject = name
                /\ ~Admitted(name).admin
  BY DEF Admitted, Denied
<1>3. CASE AuthenticateBasic(rt.policy, pair)
  <2>1. who = Admitted(pair[1])
    BY <1>3 DEF Authorize
  <2> HIDE DEF who, proven, pair
  <2>2. ~who.admin /\ who.subject # <<>> /\ who.subject \in {u.name : u \in proven} /\ proven # {}
    BY <2>1, <1>1, <1>2, <1>3
  <2> QED BY <2>2 DEF who, proven
<1>4. CASE ~AuthenticateBasic(rt.policy, pair)
  <2>1. scope = "user" /\ rt.policy.guest /\ who = Admitted(<<"guest">>)
    <3>1. ~Denied.allowed
      BY DEF Denied
    <3>2. ~(scope = "user" /\ rt.policy.guest) => who = Denied
      BY <1>4 DEF Authorize
    <3>3. who.allowed
      OBVIOUS
    <3>4. scope = "user" /\ rt.policy.guest
      <4> HIDE DEF who
      <4> QED BY <3>1, <3>2, <3>3
    <3> QED BY <3>4, <1>4 DEF Authorize
  <2>2. rt.config.guest # None
    BY <2>1, PolicyLemma
  <2> HIDE DEF who, proven, pair
  <2>3. ~who.admin /\ who.subject = <<"guest">> /\ who.subject # <<>> /\ proven = {}
    BY <2>1, <1>1, <1>2, <1>4
  <2> QED BY <2>1, <2>2, <2>3 DEF who, proven
<1> QED BY <1>3, <1>4

\* What the router stamps for a caller who was admitted as one who is no admin.
\* It leaves alone which headers the client nominated.
LEMMA StampedLemma ==
    ASSUME NEW rt \in Runtimes, NEW headers, NEW pool \in ToSet(rt.config.pools),
           NEW who, who.allowed, ~who.admin, who.subject # <<>>,
           Apart(rt.config.identity)
    PROVE  LET seen == Stamped(headers, rt, who, pool.id)
               ui == rt.config.identity
           IN  /\ IF pool.credentials # None
                  THEN /\ "Authorization" \in DOMAIN seen
                       /\ seen["Authorization"] = Basic(Resolve(pool.credentials.usernameRef, rt.store),
                                                        Resolve(pool.credentials.passwordRef, rt.store))
                  ELSE "Authorization" \notin DOMAIN seen
               /\ ui # None =>
                    /\ Lookup(seen, ui.userHeader) = who.subject
                    /\ ui.adminHeader # Empty => Lookup(seen, ui.adminHeader) = <<>>
                    /\ IF ui.secretRef = NoRef THEN Lookup(seen, RouterSecretHeader) = <<>>
                       ELSE Lookup(seen, RouterSecretHeader) = Resolve(ui.secretRef, rt.store)
               /\ Nominated(seen) = Nominated(headers)
<1> DEFINE ui == rt.config.identity
           identity == rt.identity
           bare == Without(headers, {"Authorization"})
           own == ApplyBackendCredentials(bare, rt.credentials, pool.id)
           stripped == Without(own, StripHeaders(identity))
           user == With(stripped, identity.userHeader, who.subject)
           full == IF identity.routerSecret # <<>>
                   THEN With(user, RouterSecretHeader, identity.routerSecret) ELSE user
           seen == Stamped(headers, rt, who, pool.id)
           login == Basic(Resolve(pool.credentials.usernameRef, rt.store),
                          Resolve(pool.credentials.passwordRef, rt.store))
<1>1. seen = IF Enabled(identity) THEN full ELSE stripped
  BY DEF Stamped, ApplyUpstreamIdentity
<1>2. /\ "Authorization" \notin DOMAIN bare
      /\ "Connection" \in DOMAIN bare <=> "Connection" \in DOMAIN headers
      /\ "Connection" \in DOMAIN bare => bare["Connection"] = headers["Connection"]
  BY DEF Without
<1>3. /\ IF pool.credentials # None
         THEN "Authorization" \in DOMAIN own /\ own["Authorization"] = login
         ELSE "Authorization" \notin DOMAIN own
      /\ "Connection" \in DOMAIN own <=> "Connection" \in DOMAIN headers
      /\ "Connection" \in DOMAIN own => own["Connection"] = headers["Connection"]
  <2>1. pool.id \in DOMAIN rt.credentials <=> pool.credentials # None
    BY CredentialsLemma
  <2>2. CASE pool.credentials # None
    <3>1. rt.credentials[pool.id] = << Resolve(pool.credentials.usernameRef, rt.store),
                                       Resolve(pool.credentials.passwordRef, rt.store) >>
      BY <2>2, CredentialsLemma
    <3>2. own = With(bare, "Authorization", login)
      BY <2>1, <2>2, <3>1 DEF ApplyBackendCredentials
    <3> HIDE DEF own, bare, login
    <3> QED BY <2>2, <3>2, <1>2 DEF With
  <2>3. CASE pool.credentials = None
    <3>1. own = bare
      BY <2>1, <2>3 DEF ApplyBackendCredentials
    <3> HIDE DEF own, bare, login
    <3> QED BY <2>3, <3>1, <1>2
  <2> QED BY <2>2, <2>3
<1>4. CASE ui = None
  <2>1. ~Enabled(identity)
    BY <1>4, IdentityLemma
  <2>2. StripHeaders(identity) = {}
    BY <2>1 DEF StripHeaders
  <2>3. seen = stripped
    BY <1>1, <2>1
  <2> HIDE DEF own, seen, login
  <2>4. DOMAIN stripped = DOMAIN own /\ \A h \in DOMAIN own : stripped[h] = own[h]
    BY <2>2 DEF Without
  <2> HIDE DEF stripped
  <2>5. IF pool.credentials # None
        THEN "Authorization" \in DOMAIN seen /\ seen["Authorization"] = login
        ELSE "Authorization" \notin DOMAIN seen
    BY <1>3, <2>3, <2>4
  <2>6. Nominated(seen) = Nominated(headers)
    BY <1>3, <2>3, <2>4 DEF Nominated
  <2> QED BY <1>4, <2>5, <2>6 DEF seen, login
<1>5. CASE ui # None
  <2>1. /\ Enabled(identity)
        /\ identity.userHeader = ui.userHeader /\ identity.adminHeader = ui.adminHeader
        /\ ui.secretRef = NoRef => identity.routerSecret = <<>>
        /\ ui.secretRef # NoRef =>
             /\ identity.routerSecret = Resolve(ui.secretRef, rt.store)
             /\ identity.routerSecret # <<>>
    BY <1>5, IdentityLemma
  <2>2. /\ ui.userHeader \notin {"Authorization", RouterSecretHeader}
        /\ ui.adminHeader \notin {"Authorization", RouterSecretHeader, ui.userHeader}
    BY <1>5 DEF Apart
  <2>13. "Connection" \notin {ui.userHeader, ui.adminHeader, RouterSecretHeader}
    BY <1>5 DEF Apart, Reserved, HopHeaders, RouterSecretHeader
  <2>3. StripHeaders(identity) = {ui.userHeader, ui.adminHeader, RouterSecretHeader} \ {Empty}
    BY <2>1 DEF StripHeaders
  <2>4. seen = full
    BY <1>1, <2>1
  <2>5. "Authorization" # RouterSecretHeader /\ RouterSecretHeader # Empty
    BY DEF RouterSecretHeader, Empty
  <2> HIDE DEF own, seen, login
  <2>6. /\ DOMAIN stripped = DOMAIN own \ ({ui.userHeader, ui.adminHeader, RouterSecretHeader} \ {Empty})
        /\ \A h \in DOMAIN stripped : stripped[h] = own[h]
    BY <2>3 DEF Without
  <2> HIDE DEF stripped
  <2>7. /\ DOMAIN user = DOMAIN stripped \cup {ui.userHeader}
        /\ user[ui.userHeader] = who.subject
        /\ \A h \in DOMAIN stripped : h # ui.userHeader => user[h] = stripped[h]
    BY <2>1 DEF With
  <2> HIDE DEF user
  <2>8. /\ DOMAIN full = DOMAIN user \cup (IF ui.secretRef = NoRef THEN {} ELSE {RouterSecretHeader})
        /\ ui.secretRef # NoRef => full[RouterSecretHeader] = Resolve(ui.secretRef, rt.store)
        /\ \A h \in DOMAIN user : h # RouterSecretHeader => full[h] = user[h]
    <3>1. CASE ui.secretRef = NoRef
      <4>1. full = user
        BY <2>1, <3>1
      <4> HIDE DEF full
      <4> QED BY <3>1, <4>1
    <3>2. CASE ui.secretRef # NoRef
      <4>1. full = With(user, RouterSecretHeader, Resolve(ui.secretRef, rt.store))
        BY <2>1, <3>2
      <4> HIDE DEF full
      <4> QED BY <3>2, <4>1 DEF With
    <3> QED BY <3>1, <3>2
  <2> HIDE DEF full, ui
  <2>9. IF pool.credentials # None
        THEN "Authorization" \in DOMAIN seen /\ seen["Authorization"] = login
        ELSE "Authorization" \notin DOMAIN seen
    BY <1>3, <2>2, <2>4, <2>5, <2>6, <2>7, <2>8
  <2>10. Lookup(seen, ui.userHeader) = who.subject
    BY <2>2, <2>4, <2>7, <2>8 DEF Lookup
  <2>11. ui.adminHeader # Empty => Lookup(seen, ui.adminHeader) = <<>>
    BY <2>2, <2>4, <2>6, <2>7, <2>8 DEF Lookup
  <2>12. IF ui.secretRef = NoRef THEN Lookup(seen, RouterSecretHeader) = <<>>
         ELSE Lookup(seen, RouterSecretHeader) = Resolve(ui.secretRef, rt.store)
    BY <2>2, <2>4, <2>5, <2>6, <2>7, <2>8 DEF Lookup
  <2>14. Nominated(seen) = Nominated(headers)
    BY <1>3, <2>4, <2>6, <2>7, <2>8, <2>13 DEF Nominated
  <2> QED BY <2>9, <2>10, <2>11, <2>12, <2>14 DEF seen, login, ui
<1> QED BY <1>4, <1>5

\* What of it a backend sees: all, but for what a ReverseProxy drops.
LEMMA HeadersLemma ==
    ASSUME NEW rt \in Runtimes, NEW headers, NEW pool \in ToSet(rt.config.pools), NEW asked,
           NEW who, who.allowed, ~who.admin, who.subject # <<>>,
           Apart(rt.config.identity), Nominated(headers) = Nominated(asked.headers)
    PROVE  LET seen == UpstreamHeaders(asked.pattern, headers, rt, who, pool.id)
               ui == rt.config.identity
               dropped == Dropped(asked)
           IN  /\ IF pool.credentials # None /\ "Authorization" \notin dropped
                  THEN /\ "Authorization" \in DOMAIN seen
                       /\ seen["Authorization"] = Basic(Resolve(pool.credentials.usernameRef, rt.store),
                                                        Resolve(pool.credentials.passwordRef, rt.store))
                  ELSE "Authorization" \notin DOMAIN seen
               /\ ui # None =>
                    /\ Lookup(seen, ui.userHeader) = (IF ui.userHeader \in dropped THEN <<>> ELSE who.subject)
                    /\ ui.adminHeader # Empty => Lookup(seen, ui.adminHeader) = <<>>
                    /\ IF ui.secretRef = NoRef \/ RouterSecretHeader \in dropped
                       THEN Lookup(seen, RouterSecretHeader) = <<>>
                       ELSE Lookup(seen, RouterSecretHeader) = Resolve(ui.secretRef, rt.store)
<1> DEFINE ui == rt.config.identity
           dropped == Dropped(asked)
           seen == UpstreamHeaders(asked.pattern, headers, rt, who, pool.id)
           login == Basic(Resolve(pool.credentials.usernameRef, rt.store),
                          Resolve(pool.credentials.passwordRef, rt.store))
<1>1. CASE asked.pattern \in NewSessionPatterns
  <2> DEFINE bare == Without(headers, HopHeaders)
             stamped == Stamped(bare, rt, who, pool.id)
  <2>1. seen = stamped /\ dropped = {}
    BY <1>1 DEF UpstreamHeaders, Dropped
  <2> HIDE DEF seen, dropped, bare
  <2>2. /\ IF pool.credentials # None
           THEN "Authorization" \in DOMAIN stamped /\ stamped["Authorization"] = login
           ELSE "Authorization" \notin DOMAIN stamped
        /\ ui # None =>
             /\ Lookup(stamped, ui.userHeader) = who.subject
             /\ ui.adminHeader # Empty => Lookup(stamped, ui.adminHeader) = <<>>
             /\ IF ui.secretRef = NoRef THEN Lookup(stamped, RouterSecretHeader) = <<>>
                ELSE Lookup(stamped, RouterSecretHeader) = Resolve(ui.secretRef, rt.store)
    BY StampedLemma
  <2> HIDE DEF stamped, login, ui
  <2>3. /\ IF pool.credentials # None /\ "Authorization" \notin dropped
           THEN "Authorization" \in DOMAIN seen /\ seen["Authorization"] = login
           ELSE "Authorization" \notin DOMAIN seen
        /\ ui # None =>
             /\ Lookup(seen, ui.userHeader) = (IF ui.userHeader \in dropped THEN <<>> ELSE who.subject)
             /\ ui.adminHeader # Empty => Lookup(seen, ui.adminHeader) = <<>>
             /\ IF ui.secretRef = NoRef \/ RouterSecretHeader \in dropped
                THEN Lookup(seen, RouterSecretHeader) = <<>>
                ELSE Lookup(seen, RouterSecretHeader) = Resolve(ui.secretRef, rt.store)
    BY <2>1, <2>2
  <2> QED BY <2>3 DEF seen, dropped, login, ui
<1>2. CASE asked.pattern \notin NewSessionPatterns
  <2> DEFINE stamped == Stamped(headers, rt, who, pool.id)
  <2>1. /\ IF pool.credentials # None
           THEN "Authorization" \in DOMAIN stamped /\ stamped["Authorization"] = login
           ELSE "Authorization" \notin DOMAIN stamped
        /\ ui # None =>
             /\ Lookup(stamped, ui.userHeader) = who.subject
             /\ ui.adminHeader # Empty => Lookup(stamped, ui.adminHeader) = <<>>
             /\ IF ui.secretRef = NoRef THEN Lookup(stamped, RouterSecretHeader) = <<>>
                ELSE Lookup(stamped, RouterSecretHeader) = Resolve(ui.secretRef, rt.store)
        /\ Nominated(stamped) = Nominated(headers)
    BY StampedLemma
  <2>2. seen = Without(stamped, HopHeaders \cup Nominated(stamped)) /\ dropped = Nominated(headers)
    BY <1>2 DEF UpstreamHeaders, Dropped
  <2> HIDE DEF seen, dropped, stamped, login
  <2>3. /\ DOMAIN seen = DOMAIN stamped \ (HopHeaders \cup dropped)
        /\ \A h \in DOMAIN seen : seen[h] = stamped[h]
    BY <2>1, <2>2 DEF Without
  <2>4. "Authorization" \notin HopHeaders /\ RouterSecretHeader \notin HopHeaders
    BY DEF HopHeaders, RouterSecretHeader
  <2>5. ui # None => ui.userHeader \notin HopHeaders /\ ui.adminHeader \notin HopHeaders
    BY DEF Apart, Reserved
  <2> HIDE DEF ui
  <2>6. \A h : h \notin HopHeaders =>
          Lookup(seen, h) = IF h \in dropped THEN <<>> ELSE Lookup(stamped, h)
    BY <2>3 DEF Lookup
  <2>7. IF pool.credentials # None /\ "Authorization" \notin dropped
        THEN "Authorization" \in DOMAIN seen /\ seen["Authorization"] = login
        ELSE "Authorization" \notin DOMAIN seen
    BY <2>1, <2>3, <2>4
  <2>8. ui # None =>
          /\ Lookup(seen, ui.userHeader) = (IF ui.userHeader \in dropped THEN <<>> ELSE who.subject)
          /\ ui.adminHeader # Empty => Lookup(seen, ui.adminHeader) = <<>>
          /\ IF ui.secretRef = NoRef \/ RouterSecretHeader \in dropped
             THEN Lookup(seen, RouterSecretHeader) = <<>>
             ELSE Lookup(seen, RouterSecretHeader) = Resolve(ui.secretRef, rt.store)
    BY <2>1, <2>4, <2>5, <2>6
  <2> QED BY <2>7, <2>8 DEF seen, dropped, login, ui
<1> QED BY <1>1, <1>2

\* Without some of its headers a request proves the same, or nobody.
LEMMA StrippedProven ==
    ASSUME NEW rt \in Runtimes, NEW headers, NEW names
    PROVE  /\ Proven(rt, Without(headers, names)) \in {{}, Proven(rt, headers)}
           /\ "Authorization" \notin names =>
                Proven(rt, Without(headers, names)) = Proven(rt, headers)
<1> DEFINE left == Without(headers, names)
           secret(u) == Resolve(u.passwordRef, rt.store)
<1>1. DOMAIN left = DOMAIN headers \ names /\ \A h \in DOMAIN left : left[h] = headers[h]
  BY DEF Without
<1> HIDE DEF left
<1>2. CASE "Authorization" \in DOMAIN left
  <2>1. "Authorization" \in DOMAIN headers /\ left["Authorization"] = headers["Authorization"]
    BY <1>1, <1>2
  <2>2. BasicAuth(left) = BasicAuth(headers)
    BY <1>2, <2>1 DEF BasicAuth
  <2> QED BY <2>2 DEF Proven, left
<1>3. CASE "Authorization" \notin DOMAIN left
  <2>1. BasicAuth(left) = None
    BY <1>3 DEF BasicAuth
  <2>2. \A u \in ToSet(rt.config.users) : <<u.name, secret(u)>> # None
    BY PolicyLemma, NoneAssumption
  <2>3. Proven(rt, left) = {}
    BY <2>1, <2>2 DEF Proven
  <2>4. "Authorization" \notin names => "Authorization" \notin DOMAIN headers
    BY <1>1, <1>3
  <2>5. "Authorization" \notin names => BasicAuth(headers) = None
    BY <2>4 DEF BasicAuth
  <2>6. "Authorization" \notin names => Proven(rt, headers) = {}
    BY <2>2, <2>5 DEF Proven
  <2> QED BY <2>3, <2>6 DEF left
<1> QED BY <1>2, <1>3

-----------------------------------------------------------------------------
\* The invariant: every runtime was built from a file that Validate accepts, and
\* what is known of an admitted request is what the policy of its runtime said.

RuntimesAreBuilt == gens \in Seq(Runtimes) /\ gens # <<>>

RequestIsPinned == request.pc \in {"admitted", "sent"} => request.gen \in DOMAIN gens

AdmittedByPolicy ==
    request.pc = "admitted" =>
        LET rt == gens[request.gen]
            scope == RouteScope(request.asked.pattern)
        IN  /\ scope \in {"user", "side"}
            /\ request.headers = Without(request.asked.headers, StripHeaders(rt.identity))
            /\ request.who = Authorize(rt.policy, request.headers, scope)
            /\ request.who.allowed

Inv ==
    /\ RuntimesAreBuilt
    /\ RequestIsPinned
    /\ AdmittedByPolicy
    /\ BackendSeesItsCaller

LEMMA InitHolds == Init => Inv
<1> SUFFICES ASSUME Init PROVE Inv
  OBVIOUS
<1>1. PICK file \in Loadable, store \in Stores :
        gens = <<NewRuntime(file, store)>> /\ gens # <<None>>
  BY DEF Init
<1>2. NewRuntime(file, store) \in Runtimes
  BY <1>1 DEF Runtimes
<1>3. RuntimesAreBuilt
  BY <1>1, <1>2 DEF RuntimesAreBuilt
<1>4. request.pc = "none"
  BY DEF Init, NoRequest
<1> QED BY <1>3, <1>4 DEF Inv, RequestIsPinned, AdmittedByPolicy, BackendSeesItsCaller

\* A request keeps to its runtime: it knows nothing of the ones built later.
LEMMA ReloadStep == Inv /\ Reload => Inv'
<1> SUFFICES ASSUME Inv, Reload PROVE Inv'
  OBVIOUS
<1>1. PICK file \in Loadable, store \in Stores :
        NewRuntime(file, store) # None /\ gens' = Append(gens, NewRuntime(file, store))
  BY DEF Reload
<1>2. NewRuntime(file, store) \in Runtimes
  BY <1>1 DEF Runtimes
<1>3. gens \in Seq(Runtimes)
  BY DEF Inv, RuntimesAreBuilt
<1>4. /\ gens' \in Seq(Runtimes) /\ gens' # <<>> /\ DOMAIN gens \subseteq DOMAIN gens'
      /\ \A g \in DOMAIN gens : gens'[g] = gens[g]
  BY <1>1, <1>2, <1>3
<1>5. request' = request
  BY DEF Reload
<1>6. RequestIsPinned /\ RequestIsPinned'
  BY <1>4, <1>5 DEF Inv, RequestIsPinned
<1>7. request.pc \in {"admitted", "sent"} => gens'[request.gen] = gens[request.gen]
  BY <1>4, <1>6 DEF RequestIsPinned
<1>8. AdmittedByPolicy'
  BY <1>5, <1>7 DEF Inv, AdmittedByPolicy
<1>9. BackendSeesItsCaller'
  BY <1>5, <1>7 DEF Inv, BackendSeesItsCaller, Seen
<1> QED BY <1>4, <1>6, <1>8, <1>9 DEF Inv, RuntimesAreBuilt

LEMMA ArriveStep ==
    ASSUME Inv, NEW asked \in Requests, Arrive(asked)
    PROVE  Inv'
<1> DEFINE gen == Len(gens)
           rt == gens[gen]
           headers == Without(asked.headers, StripHeaders(rt.identity))
           scope == RouteScope(asked.pattern)
           who == Authorize(rt.policy, headers, scope)
           verdict == Verdict(asked, who)
<1>1. gens' = gens
  BY DEF Arrive
<1>2. gens \in Seq(Runtimes) /\ gens # <<>>
  BY DEF Inv, RuntimesAreBuilt
<1>3. CASE verdict = "200" /\ asked.pattern \notin OwnEndpoints
  <2>1. request' = [pc |-> "admitted", gen |-> gen, asked |-> asked, headers |-> headers, who |-> who]
    BY <1>3 DEF Arrive
  <2>2. scope # "none" /\ who.allowed
    BY <1>3 DEF Verdict
  <2>3. scope \in {"user", "side"}
    BY <1>3, <2>2 DEF RouteScope, OwnEndpoints
  <2>4. gen \in DOMAIN gens
    BY <1>2
  <2> HIDE DEF gen, headers, who, verdict
  <2>5. RequestIsPinned'
    BY <1>1, <2>1, <2>4 DEF RequestIsPinned
  <2>6. AdmittedByPolicy'
    BY <1>1, <2>1, <2>2, <2>3 DEF AdmittedByPolicy, headers, who
  <2>7. BackendSeesItsCaller'
    BY <2>1 DEF BackendSeesItsCaller
  <2> QED BY <1>1, <1>2, <2>5, <2>6, <2>7 DEF Inv, RuntimesAreBuilt
<1>4. CASE ~(verdict = "200" /\ asked.pattern \notin OwnEndpoints)
  <2>1. request' = Answered(verdict)
    BY <1>4 DEF Arrive
  <2>2. request'.pc = "answered"
    BY <2>1 DEF Answered
  <2> QED BY <1>1, <1>2, <2>2
          DEF Inv, RuntimesAreBuilt, RequestIsPinned, AdmittedByPolicy, BackendSeesItsCaller
<1> QED BY <1>3, <1>4

\* The step the property is about: the upstream request is made.
LEMMA ForwardStep ==
    ASSUME Inv, NEW pool, Forward(pool)
    PROVE  Inv'
<1> DEFINE rt == gens[request.gen]
           asked == request.asked
           headers == request.headers
           scope == RouteScope(asked.pattern)
           ui == rt.config.identity
           who == request.who
           proven == Proven(rt, asked.headers)
           left == Proven(rt, headers)
           seen == UpstreamHeaders(asked.pattern, headers, rt, who, pool.id)
           dropped == Dropped(asked)
<1>1. /\ request.pc = "admitted" /\ pool \in ToSet(rt.config.pools) /\ gens' = gens
      /\ request' = [pc |-> "sent", gen |-> request.gen, asked |-> asked, pool |-> pool,
                     candidates |-> Candidates(asked), seen |-> seen]
  BY DEF Forward
<1>2. request.gen \in DOMAIN gens /\ gens \in Seq(Runtimes) /\ rt \in Runtimes
  BY <1>1 DEF Inv, RuntimesAreBuilt, RequestIsPinned
<1>3. /\ scope \in {"user", "side"}
      /\ request.headers = Without(asked.headers, StripHeaders(rt.identity))
      /\ who = Authorize(rt.policy, request.headers, scope)
      /\ who.allowed
  BY <1>1 DEF Inv, AdmittedByPolicy
<1>4. /\ ~who.admin /\ who.subject # <<>>
      /\ left # {} => who.subject \in {u.name : u \in left}
      /\ left = {} => who.subject = <<"guest">> /\ scope = "user" /\ rt.config.guest # None
  <2> DEFINE he == Authorize(rt.policy, headers, scope)
  <2>1. he.allowed /\ who = he
    BY <1>3
  <2> HIDE DEF rt, scope, headers, who
  <2>2. /\ ~he.admin /\ he.subject # <<>>
        /\ Proven(rt, headers) # {} => he.subject \in {u.name : u \in Proven(rt, headers)}
        /\ Proven(rt, headers) = {} =>
             he.subject = <<"guest">> /\ scope = "user" /\ rt.config.guest # None
    BY <1>2, <1>3, <2>1, CallerLemma
  <2> HIDE DEF he
  <2> QED BY <2>1, <2>2
<1>5. /\ left \in {{}, proven}
      /\ "Authorization" \notin StripHeaders(rt.identity) => left = proven
  <2> HIDE DEF rt
  <2> QED BY <1>2, <1>3, StrippedProven
<1>6. Apart(ui) => left = proven
  <2> SUFFICES ASSUME Apart(ui) PROVE "Authorization" \notin StripHeaders(rt.identity)
    BY <1>5
  <2>1. CASE ui = None
    BY <2>1, <1>2, IdentityLemma DEF StripHeaders
  <2>2. CASE ui # None
    <3>1. rt.identity.userHeader = ui.userHeader /\ rt.identity.adminHeader = ui.adminHeader
      BY <2>2, <1>2, IdentityLemma
    <3>2. "Authorization" \notin {ui.userHeader, ui.adminHeader, RouterSecretHeader}
      BY <2>2 DEF Apart, RouterSecretHeader
    <3> QED BY <3>1, <3>2 DEF StripHeaders
  <2> QED BY <2>1, <2>2
<1>7. Apart(ui) =>
        /\ IF pool.credentials # None /\ "Authorization" \notin dropped
           THEN /\ "Authorization" \in DOMAIN seen
                /\ seen["Authorization"] = Basic(Resolve(pool.credentials.usernameRef, rt.store),
                                                 Resolve(pool.credentials.passwordRef, rt.store))
           ELSE "Authorization" \notin DOMAIN seen
        /\ ui # None =>
             /\ Lookup(seen, ui.userHeader) = (IF ui.userHeader \in dropped THEN <<>> ELSE who.subject)
             /\ ui.adminHeader # Empty => Lookup(seen, ui.adminHeader) = <<>>
             /\ IF ui.secretRef = NoRef \/ RouterSecretHeader \in dropped
                THEN Lookup(seen, RouterSecretHeader) = <<>>
                ELSE Lookup(seen, RouterSecretHeader) = Resolve(ui.secretRef, rt.store)
  <2> SUFFICES ASSUME Apart(ui)
               PROVE  /\ IF pool.credentials # None /\ "Authorization" \notin dropped
                         THEN /\ "Authorization" \in DOMAIN seen
                              /\ seen["Authorization"] =
                                    Basic(Resolve(pool.credentials.usernameRef, rt.store),
                                          Resolve(pool.credentials.passwordRef, rt.store))
                         ELSE "Authorization" \notin DOMAIN seen
                      /\ ui # None =>
                           /\ Lookup(seen, ui.userHeader) =
                                (IF ui.userHeader \in dropped THEN <<>> ELSE who.subject)
                           /\ ui.adminHeader # Empty => Lookup(seen, ui.adminHeader) = <<>>
                           /\ IF ui.secretRef = NoRef \/ RouterSecretHeader \in dropped
                              THEN Lookup(seen, RouterSecretHeader) = <<>>
                              ELSE Lookup(seen, RouterSecretHeader) = Resolve(ui.secretRef, rt.store)
    OBVIOUS
  <2>1. /\ rt \in Runtimes /\ pool \in ToSet(rt.config.pools)
        /\ who.allowed /\ ~who.admin /\ who.subject # <<>>
    BY <1>1, <1>2, <1>3, <1>4
  <2>2. "Connection" \notin StripHeaders(rt.identity)
    <3>1. CASE ui = None
      BY <3>1, <1>2, IdentityLemma DEF StripHeaders
    <3>2. CASE ui # None
      <4>1. rt.identity.userHeader = ui.userHeader /\ rt.identity.adminHeader = ui.adminHeader
        BY <3>2, <1>2, IdentityLemma
      <4>2. "Connection" \notin {ui.userHeader, ui.adminHeader, RouterSecretHeader}
        BY <3>2 DEF Apart, Reserved, HopHeaders, RouterSecretHeader
      <4> QED BY <4>1, <4>2 DEF StripHeaders
    <3> QED BY <3>1, <3>2
  <2>3. Nominated(headers) = Nominated(asked.headers)
    BY <1>3, <2>2 DEF Nominated, Without
  <2> HIDE DEF rt, who, asked, headers
  <2> QED BY <2>1, <2>3, HeadersLemma
<1>8. Apart(ui) => who.subject \in (IF proven = {} THEN {<<"guest">>} ELSE {u.name : u \in proven})
  <2> HIDE DEF proven, left, who, ui
  <2> QED BY <1>4, <1>6
<1>9. proven = {} => rt.config.guest # None /\ scope = "user"
  <2> HIDE DEF proven, left, rt, scope
  <2> QED BY <1>4, <1>5
<1>10. BackendSeesItsCaller'
  <2>1. /\ gens'[request'.gen] = rt /\ request'.asked = asked /\ request'.pool = pool
        /\ request'.seen = seen /\ request'.pc = "sent"
    BY <1>1
  <2>3. Dropped(request'.asked) = dropped
    BY <2>1
  <2> HIDE DEF seen, dropped
  <2>2. \A header : Seen(header)' = Lookup(seen, header)
    BY <2>1 DEF Seen
  <2> HIDE DEF rt, asked, who
  <2> QED BY <1>7, <1>8, <1>9, <2>1, <2>2, <2>3 DEF BackendSeesItsCaller
<1>11. RequestIsPinned' /\ AdmittedByPolicy'
  BY <1>1, <1>2 DEF RequestIsPinned, AdmittedByPolicy
<1> QED BY <1>1, <1>10, <1>11 DEF Inv, RuntimesAreBuilt

LEMMA InvHolds == Spec => []Inv
<1>1. Init => Inv
  BY InitHolds
<1>2. Inv /\ [Next]_vars => Inv'
  <2> SUFFICES ASSUME Inv, [Next]_vars PROVE Inv'
    OBVIOUS
  <2>1. CASE Reload
    BY <2>1, ReloadStep
  <2>2. ASSUME NEW asked \in Requests, Arrive(asked)
        PROVE  Inv'
    BY <2>2, ArriveStep
  <2>3. ASSUME NEW pool, Forward(pool)
        PROVE  Inv'
    BY <2>3, ForwardStep
  <2>4. CASE Answer \/ Finish
    <3>1. gens' = gens /\ request'.pc \in {"answered", "none"}
      BY <2>4 DEF Answer, Finish, Answered, NoRequest
    <3> QED BY <3>1
            DEF Inv, RuntimesAreBuilt, RequestIsPinned, AdmittedByPolicy, BackendSeesItsCaller
  <2>5. CASE UNCHANGED vars
    BY <2>5 DEF vars, Inv, RuntimesAreBuilt, RequestIsPinned, AdmittedByPolicy,
                BackendSeesItsCaller, Seen
  <2> QED BY <2>1, <2>2, <2>3, <2>4, <2>5 DEF Next
<1> QED BY <1>1, <1>2, PTL DEF Spec

\* A backend hears from the router who is asking, and gets the secrets of the
\* runtime that admitted the request: for every set of files, secrets, requests
\* and every number of reloads in between (reverseproxy.go:35-45, 86-115).
THEOREM CallersAreKnown == Spec => []BackendSeesItsCaller
<1>1. Inv => BackendSeesItsCaller
  BY DEF Inv
<1> QED BY <1>1, InvHolds, PTL

-----------------------------------------------------------------------------
\* One more value than before, and all of a function's values if they differ.
LEMMA CountOneMore ==
    ASSUME NEW S, NEW x, IsFiniteSet(S), x \notin S, NEW T, T = S \cup {x}
    PROVE  IsFiniteSet(T) /\ Cardinality(T) = Cardinality(S) + 1
BY FS_AddElement

FirstOf(f, n) == {f[i] : i \in 1..n}

LEMMA CountDistinct ==
    ASSUME NEW n \in Nat, NEW f, \A i, j \in 1..n : f[i] = f[j] => i = j
    PROVE  Cardinality(FirstOf(f, n)) = n
<1> DEFINE First(k) == {f[i] : i \in 1..k}
           Good == {k \in Nat : k <= n => IsFiniteSet(First(k)) /\ Cardinality(First(k)) = k}
<1>1. 0 \in Good
  <2>1. First(0) = {}
    OBVIOUS
  <2> HIDE DEF First
  <2> QED BY <2>1, FS_EmptySet
<1>2. ASSUME NEW k \in Nat, k \in Good
      PROVE  k + 1 \in Good
  <2> SUFFICES ASSUME k + 1 <= n
               PROVE  IsFiniteSet(First(k + 1)) /\ Cardinality(First(k + 1)) = k + 1
    OBVIOUS
  <2>1. IsFiniteSet(First(k)) /\ Cardinality(First(k)) = k
    BY <1>2
  <2>2. First(k + 1) = First(k) \cup {f[k + 1]}
    <3>1. 1..(k + 1) = 1..k \cup {k + 1}
      OBVIOUS
    <3> QED BY <3>1
  <2>3. f[k + 1] \notin First(k)
    OBVIOUS
  <2> HIDE DEF First
  <2>4. IsFiniteSet(First(k + 1)) /\ Cardinality(First(k + 1)) = Cardinality(First(k)) + 1
    BY <2>1, <2>2, <2>3, CountOneMore
  <2> QED BY <2>1, <2>4
<1>3. n \in Good
  <2> HIDE DEF Good
  <2> QED BY <1>1, <1>2, NatSetInduction
<1> QED BY <1>3 DEF FirstOf

\* What makes a runtime usable, one part after the other.

LEMMA UsersGetInLemma ==
    ASSUME NEW rt \in Runtimes
    PROVE  UsersGetIn(rt)
<1> SUFFICES ASSUME NEW i \in DOMAIN rt.config.users
             PROVE  LET u == rt.config.users[i]
                        secret == Resolve(u.passwordRef, rt.store)
                    IN  /\ secret \notin {None, <<>>}
                        /\ Colon \notin ToSet(u.name) =>
                             Authorize(rt.policy, With(<<>>, "Authorization", Basic(u.name, secret)), "side")
                                 = Admitted(u.name)
  BY DEF UsersGetIn
<1> DEFINE u == rt.config.users[i]
           secret == Resolve(u.passwordRef, rt.store)
           headers == With(<<>>, "Authorization", Basic(u.name, secret))
<1>1. u \in ToSet(rt.config.users)
  BY DEF ToSet
<1>2. /\ u.name \in Text /\ secret \in Text \ {<<>>}
      /\ u.name \in DOMAIN rt.policy.users /\ rt.policy.users[u.name] = secret
  BY <1>1, PolicyLemma
<1>3. secret \notin {None, <<>>}
  BY <1>2, NoneAssumption
<1>4. ASSUME Colon \notin ToSet(u.name)
      PROVE  Authorize(rt.policy, headers, "side") = Admitted(u.name)
  <2>1. "Authorization" \in DOMAIN headers /\ headers["Authorization"] = Basic(u.name, secret)
    BY DEF With
  <2> DEFINE name == u.name
             pair == <<name, secret>>
  <2> HIDE DEF headers, secret, u
  <2>2. BasicAuth(headers) = pair
    <3> HIDE DEF name
    <3> QED BY <2>1, <1>2, <1>4, BasicAuthOfBasic DEF name
  <2>3. pair # None
    BY <1>2, NoneAssumption
  <2>4. AuthenticateBasic(rt.policy, pair)
    BY <1>2, <2>3 DEF AuthenticateBasic
  <2>5. Authorize(rt.policy, headers, "side") = Admitted(pair[1])
    <3> HIDE DEF pair
    <3> QED BY <2>2, <2>4 DEF Authorize
  <2> QED BY <2>5
<1> QED BY <1>3, <1>4

LEMMA PoolsAreReachedLemma ==
    ASSUME NEW rt \in Runtimes
    PROVE  PoolsAreReached(rt)
<1> DEFINE pools == rt.config.pools
           ids == [i \in DOMAIN pools |-> pools[i].id]
<1>1. rt.config \in Files /\ ValidateBackendPools(pools)
  BY RuntimeParts DEF Validate
<1>2. pools \in Seq(BackendPool) /\ Len(pools) \in Nat /\ DOMAIN pools = 1..Len(pools)
  BY <1>1, FilesAssumption
<1>3. Cardinality({p.id : p \in ToSet(pools)}) = Len(pools)
  <2>1. \A i, j \in 1..Len(pools) : ids[i] = ids[j] => i = j
    BY <1>1, <1>2 DEF ValidateBackendPools, AllDiffer
  <2>2. {p.id : p \in ToSet(pools)} = FirstOf(ids, Len(pools))
    BY <1>2 DEF ToSet, FirstOf
  <2>3. Cardinality(FirstOf(ids, Len(pools))) = Len(pools)
    <3> HIDE DEF ids
    <3> QED BY <1>2, <2>1, CountDistinct
  <2> QED BY <2>2, <2>3
<1>4. ASSUME NEW p \in ToSet(pools)
      PROVE  /\ p.weight > 0 /\ p.protocols # {}
             /\ p.credentials # None =>
                  /\ rt.credentials[p.id] = << Resolve(p.credentials.usernameRef, rt.store),
                                               Resolve(p.credentials.passwordRef, rt.store) >>
                  /\ <<>> \notin ToSet(rt.credentials[p.id])
  <2>1. p.weight > 0 /\ p.protocols # {}
    BY <1>1 DEF ValidateBackendPools, ValidatePool, ValidateProtocols, ToSet
  <2>2. ASSUME p.credentials # None
        PROVE  /\ rt.credentials[p.id] = << Resolve(p.credentials.usernameRef, rt.store),
                                            Resolve(p.credentials.passwordRef, rt.store) >>
               /\ <<>> \notin ToSet(rt.credentials[p.id])
    <3> DEFINE username == Resolve(p.credentials.usernameRef, rt.store)
               password == Resolve(p.credentials.passwordRef, rt.store)
    <3>1. rt.credentials[p.id] = <<username, password>> /\ username # <<>> /\ password # <<>>
      BY <2>2, CredentialsLemma
    <3> HIDE DEF username, password
    <3>2. ToSet(<<username, password>>) = {username, password}
      BY DEF ToSet
    <3>3. <<>> \notin ToSet(rt.credentials[p.id])
      BY <3>1, <3>2
    <3> QED BY <3>1, <3>3 DEF username, password
  <2> QED BY <2>1, <2>2
<1> QED BY <1>3, <1>4 DEF PoolsAreReached

LEMMA ViewsTellTheRuntimeLemma ==
    ASSUME NEW rt \in Runtimes
    PROVE  ViewsTellTheRuntime(rt)
<1> DEFINE users == rt.config.users
           pools == rt.config.pools
           names == [i \in DOMAIN users |-> users[i].name]
           view == SanitizedConfig(rt.config)
           quota == Quota(rt.config)
<1>1. rt.config \in Files /\ ValidateUsers(users)
  BY RuntimeParts DEF Validate
<1>2. users \in Seq(User) /\ Len(users) \in Nat /\ DOMAIN users = 1..Len(users)
  BY <1>1, FilesAssumption
<1>3. DOMAIN rt.policy.users = {u.name : u \in ToSet(users)}
  BY PolicyLemma
<1>4. Cardinality(DOMAIN rt.policy.users) = Len(users)
  <2>1. \A i, j \in 1..Len(users) : names[i] = names[j] => i = j
    BY <1>1, <1>2 DEF ValidateUsers, AllDiffer
  <2>2. {u.name : u \in ToSet(users)} = FirstOf(names, Len(users))
    BY <1>2 DEF ToSet, FirstOf
  <2>3. Cardinality(FirstOf(names, Len(users))) = Len(users)
    <3> HIDE DEF names
    <3> QED BY <1>2, <2>1, CountDistinct
  <2> QED BY <1>3, <2>2, <2>3
<1>5. /\ {u.name : u \in ToSet(view.users)} = {u.name : u \in ToSet(users)}
      /\ Len(view.users) = Len(users)
  <2>1. /\ DOMAIN view.users = DOMAIN users
        /\ \A i \in DOMAIN users : view.users[i].name = users[i].name
    BY DEF SanitizedConfig
  <2> DEFINE shown == [i \in DOMAIN users |->
                          [name |-> users[i].name, quota |-> users[i].quota,
                           passwordConfigured |-> users[i].passwordRef # NoRef]]
  <2>2. view.users = shown
    BY DEF SanitizedConfig
  <2>3. Len(shown) = Len(users)
    BY <1>2
  <2> HIDE DEF view, shown
  <2> QED BY <2>1, <2>2, <2>3 DEF ToSet
<1>6. {u.name : u \in ToSet(quota.users)} = {u.name : u \in ToSet(users)}
  <2>1. /\ DOMAIN quota.users = DOMAIN users
        /\ \A i \in DOMAIN users : quota.users[i].name = users[i].name
    BY DEF Quota
  <2> HIDE DEF quota
  <2> QED BY <2>1 DEF ToSet
<1>7. {p.id : p \in {q \in ToSet(view.pools) : q.credentialsConfigured}} = DOMAIN rt.credentials
  <2>1. /\ DOMAIN view.pools = DOMAIN pools
        /\ \A i \in DOMAIN pools :
             /\ view.pools[i].id = pools[i].id
             /\ view.pools[i].credentialsConfigured = (pools[i].credentials # None)
    BY DEF SanitizedConfig
  <2> HIDE DEF view, pools
  <2> DEFINE shown == {p.id : p \in {q \in ToSet(view.pools) : q.credentialsConfigured}}
             known == {p.id : p \in {q \in ToSet(pools) : q.credentials # None}}
             holders == {i \in DOMAIN pools : pools[i].credentials # None}
  <2>2. \A x : x \in shown <=> \E i \in holders : x = pools[i].id
    BY <2>1 DEF ToSet
  <2>3. \A x : x \in known <=> \E i \in holders : x = pools[i].id
    BY DEF ToSet
  <2>4. shown = known
    <3> HIDE DEF shown, known, holders
    <3> QED BY <2>2, <2>3
  <2> QED BY <2>4, CredentialsLemma DEF pools
<1>8. view.tokenConfigured <=> rt.policy.admin # None
  BY PolicyLemma DEF SanitizedConfig
<1> QED BY <1>3, <1>4, <1>5, <1>6, <1>7, <1>8 DEF ViewsTellTheRuntime

\* Every runtime that came to serve can be used, whatever the files and the
\* secrets were: a file that Validate refuses, or a secret that does not resolve,
\* never gets that far (config.go:139-350, runtime.go:31-76).
THEOREM RuntimesAreUsable == Spec => []ServedConfigsAreUsable
<1>1. ASSUME NEW rt \in Runtimes
      PROVE  /\ DOMAIN rt.policy.users # {} \/ rt.policy.guest
             /\ \A b \in ToSet(rt.config.browsers) : \E protocol \in b.protocols :
                   CatalogSupports(ToSet(rt.config.browsers),
                       [protocol |-> protocol, browser |-> b.name, version |-> <<>>, platform |-> <<>>])
             /\ rt.policy.admin # <<>>
             /\ rt.config.identity # None => Enabled(rt.identity)
             /\ rt.config.identity # None /\ rt.config.identity.secretRef # NoRef
                   => rt.identity.routerSecret # <<>>
  <2>1. rt.config \in Files /\ Validate(rt.config) /\ rt.store \in Stores
    BY RuntimeParts
  <2>2. DOMAIN rt.policy.users # {} \/ rt.policy.guest
    <3>1. CASE rt.config.users # <<>>
      <4> DEFINE users == rt.config.users
      <4>0. users \in Seq(User) /\ users # <<>>
        BY <2>1, <3>1, FilesAssumption
      <4>1. Len(users) \in Nat /\ DOMAIN users = 1..Len(users) /\ Len(users) # 0
        BY <4>0
      <4> DEFINE i == 1
      <4>5. i \in DOMAIN users
        BY <4>1
      <4>2. rt.config.users[i] \in ToSet(rt.config.users)
        BY <4>5 DEF ToSet
      <4>3. rt.config.users[i].name \in DOMAIN rt.policy.users
        BY <4>2, PolicyLemma
      <4> QED BY <4>3
    <3>2. CASE rt.config.guest # None
      BY <3>2, PolicyLemma
    <3> QED BY <2>1, <3>1, <3>2 DEF Validate
  <2>3. ASSUME NEW b \in ToSet(rt.config.browsers)
        PROVE  \E protocol \in b.protocols :
                  CatalogSupports(ToSet(rt.config.browsers),
                      [protocol |-> protocol, browser |-> b.name, version |-> <<>>, platform |-> <<>>])
    <3>1. b.protocols # {}
      BY <2>1 DEF Validate, ValidateCatalog, ValidateProtocols, ToSet
    <3>2. PICK protocol \in b.protocols : TRUE
      BY <3>1
    <3> DEFINE req == [protocol |-> protocol, browser |-> b.name, version |-> <<>>, platform |-> <<>>]
    <3>3. BrowserServes(b, req)
      BY DEF BrowserServes
    <3> HIDE DEF req
    <3>4. CatalogSupports(ToSet(rt.config.browsers), req)
      BY <3>3 DEF CatalogSupports
    <3> QED BY <3>4 DEF req
  <2>4. rt.policy.admin # <<>>
    <3>1. <<>> \in Text
      BY DEF Text
    <3>2. None # <<>>
      BY <3>1, NoneAssumption
    <3> QED BY <2>1, <3>2, ResolveLemma, PolicyLemma
  <2> QED BY <2>2, <2>3, <2>4, IdentityLemma
<1>2. Inv => ServedConfigsAreUsable
  <2> SUFFICES ASSUME Inv, NEW gen \in DOMAIN gens
               PROVE  LET rt == gens[gen]
                      IN  /\ UsersGetIn(rt)
                          /\ DOMAIN rt.policy.users # {} \/ rt.policy.guest
                          /\ PoolsAreReached(rt)
                          /\ \A b \in ToSet(rt.config.browsers) : \E protocol \in b.protocols :
                                CatalogSupports(ToSet(rt.config.browsers),
                                    [protocol |-> protocol, browser |-> b.name,
                                     version |-> <<>>, platform |-> <<>>])
                          /\ rt.policy.admin # <<>>
                          /\ rt.config.identity # None => Enabled(rt.identity)
                          /\ rt.config.identity # None /\ rt.config.identity.secretRef # NoRef
                                => rt.identity.routerSecret # <<>>
                          /\ ViewsTellTheRuntime(rt)
    BY DEF ServedConfigsAreUsable
  <2> DEFINE rt == gens[gen]
  <2>1. rt \in Runtimes
    BY DEF Inv, RuntimesAreBuilt
  <2> HIDE DEF rt
  <2>2. UsersGetIn(rt) /\ PoolsAreReached(rt) /\ ViewsTellTheRuntime(rt)
    BY <2>1, UsersGetInLemma, PoolsAreReachedLemma, ViewsTellTheRuntimeLemma
  <2> QED BY <1>1, <2>1, <2>2 DEF rt
<1> QED BY <1>2, InvHolds, PTL
-----------------------------------------------------------------------------
\* The indices of s under which p has its elements, in order.
Lists(ix, p, s, indices) ==
    /\ Len(p) \in Nat
    /\ DOMAIN p = 1..Len(p)
    /\ ix \in [1..Len(p) -> indices]
    /\ \A x \in indices : \E i \in 1..Len(p) : ix[i] = x
    /\ \A i, j \in 1..Len(p) : i < j => ix[i] < ix[j]
    /\ \A i \in 1..Len(p) : p[i] = s[ix[i]]

Listed(p, s, indices) == \E ix : Lists(ix, p, s, indices)

IsUpTo(f, s, n, indices) ==
    f = [m \in 0..n |->
            IF m = 0 THEN <<>>
            ELSE IF m \in indices THEN Append(f[m - 1], s[m]) ELSE f[m - 1]]

LEMMA UpToExists ==
    ASSUME NEW s, NEW indices, NEW n \in Nat
    PROVE  \E f : IsUpTo(f, s, n, indices)
<1> DEFINE Good == {m \in Nat : \E f : IsUpTo(f, s, m, indices)}
<1>1. 0 \in Good
  <2> DEFINE f == [m \in 0..0 |-> <<>>]
  <2>1. IsUpTo(f, s, 0, indices)
    BY DEF IsUpTo
  <2> HIDE DEF f
  <2> QED BY <2>1
<1>2. ASSUME NEW m \in Nat, m \in Good
      PROVE  m + 1 \in Good
  <2>1. PICK f : IsUpTo(f, s, m, indices)
    BY <1>2
  <2> DEFINE last == IF m + 1 \in indices THEN Append(f[m], s[m + 1]) ELSE f[m]
             g == [k \in 0..(m + 1) |-> IF k = m + 1 THEN last ELSE f[k]]
             h == [k \in 0..(m + 1) |->
                      IF k = 0 THEN <<>>
                      ELSE IF k \in indices THEN Append(g[k - 1], s[k]) ELSE g[k - 1]]
  <2>2. ASSUME NEW k \in 0..(m + 1)
        PROVE  g[k] = h[k]
    <3>1. CASE k = m + 1
      <4>1. g[k - 1] = f[m] /\ g[k] = last
        BY <3>1
      <4> HIDE DEF g
      <4> QED BY <3>1, <4>1
    <3>2. CASE k \in 0..m
      <4>1. g[k] = f[k] /\ (k # 0 => g[k - 1] = f[k - 1])
        BY <3>2
      <4>2. f[k] = IF k = 0 THEN <<>>
                   ELSE IF k \in indices THEN Append(f[k - 1], s[k]) ELSE f[k - 1]
        BY <2>1, <3>2 DEF IsUpTo
      <4> HIDE DEF g
      <4> QED BY <4>1, <4>2
    <3> QED BY <3>1, <3>2
  <2>3. IsUpTo(g, s, m + 1, indices)
    <3>1. g = h
      <4> DEFINE D == 0..(m + 1)
      <4>1. \A k \in D : g[k] = h[k]
        BY <2>2
      <4>2. g = [k \in D |-> g[k]]
        OBVIOUS
      <4>3. h = [k \in D |-> h[k]]
        OBVIOUS
      <4> HIDE DEF g, h, D
      <4>4. [k \in D |-> g[k]] = [k \in D |-> h[k]]
        BY <4>1
      <4> QED BY <4>2, <4>3, <4>4
    <3> HIDE DEF g
    <3> QED BY <3>1 DEF IsUpTo
  <2> HIDE DEF g
  <2> QED BY <2>3
<1> HIDE DEF Good
<1>3. n \in Good
  BY <1>1, <1>2, NatSetInduction
<1> QED BY <1>3 DEF Good

\* What is picked are the elements under the indices, in their order.
LEMMA PickedLemma ==
    ASSUME NEW T, NEW s \in Seq(T), NEW indices \in SUBSET (1..Len(s))
    PROVE  Picked(s, indices) \in Seq(T) /\ Listed(Picked(s, indices), s, indices)
<1> DEFINE n == Len(s)
           upTo == CHOOSE f : IsUpTo(f, s, n, indices)
<1>1. n \in Nat /\ DOMAIN s = 1..n
  OBVIOUS
<1>2. Picked(s, indices) = upTo[n]
  BY DEF Picked, IsUpTo
<1>3. IsUpTo(upTo, s, n, indices)
  <2> HIDE DEF n
  <2> QED BY <1>1, UpToExists
<1> HIDE DEF upTo
<1>8. upTo[0] = <<>>
  BY <1>1, <1>3 DEF IsUpTo
<1>9. ASSUME NEW m \in Nat, m + 1 <= n
      PROVE  upTo[m + 1] = IF m + 1 \in indices THEN Append(upTo[m], s[m + 1]) ELSE upTo[m]
  <2>1. m + 1 \in 0..n /\ m + 1 # 0 /\ (m + 1) - 1 = m
    BY <1>1, <1>9
  <2> HIDE DEF n
  <2> QED BY <2>1, <1>3 DEF IsUpTo
<1> DEFINE Below(m) == indices \cap (1..m)
           Good == {m \in Nat : m <= n => /\ upTo[m] \in Seq(T)
                                          /\ Listed(upTo[m], s, Below(m))}
<1>4. 0 \in Good
  <2> DEFINE ix == [i \in {} |-> 0]
  <2>2. Lists(ix, <<>>, s, Below(0))
    BY DEF Lists
  <2> HIDE DEF ix, Below
  <2>3. Listed(upTo[0], s, Below(0))
    BY <1>8, <2>2 DEF Listed
  <2>4. upTo[0] \in Seq(T)
    BY <1>8
  <2> HIDE DEF n
  <2> QED BY <2>3, <2>4
<1>5. ASSUME NEW m \in Nat, m \in Good
      PROVE  m + 1 \in Good
  <2> SUFFICES ASSUME m + 1 <= n
               PROVE  /\ upTo[m + 1] \in Seq(T)
                      /\ Listed(upTo[m + 1], s, Below(m + 1))
    OBVIOUS
  <2>1. upTo[m] \in Seq(T)
    BY <1>1, <1>5
  <2>2. PICK ix : Lists(ix, upTo[m], s, Below(m))
    <3>1. Listed(upTo[m], s, Below(m))
      BY <1>1, <1>5
    <3> HIDE DEF Below
    <3> QED BY <3>1 DEF Listed
  <2>3. upTo[m + 1] = IF m + 1 \in indices THEN Append(upTo[m], s[m + 1]) ELSE upTo[m]
    BY <1>9
  <2>4. CASE m + 1 \notin indices
    <3>1. Below(m + 1) = Below(m)
      BY <2>4
    <3> HIDE DEF Below
    <3> QED BY <2>1, <2>2, <2>3, <2>4, <3>1 DEF Listed
  <2>5. CASE m + 1 \in indices
    <3> DEFINE before == upTo[m]
               p == Append(before, s[m + 1])
               jx == [i \in 1..(Len(before) + 1) |-> IF i = Len(before) + 1 THEN m + 1 ELSE ix[i]]
    <3>1. /\ Len(before) \in Nat /\ before \in Seq(T)
          /\ s[m + 1] \in T
      BY <1>1, <2>1
    <3>2. /\ Len(p) = Len(before) + 1 /\ p \in Seq(T)
          /\ p[Len(before) + 1] = s[m + 1]
          /\ \A i \in 1..Len(before) : p[i] = before[i]
      <4> HIDE DEF before
      <4> QED BY <3>1
    <3>3. /\ ix \in [1..Len(before) -> Below(m)]
          /\ \A x \in Below(m) : \E i \in 1..Len(before) : ix[i] = x
          /\ \A i, j \in 1..Len(before) : i < j => ix[i] < ix[j]
          /\ \A i \in 1..Len(before) : before[i] = s[ix[i]]
      BY <2>2 DEF Lists
    <3> HIDE DEF before
    <3>4. Below(m + 1) = Below(m) \cup {m + 1} /\ \A x \in Below(m) : x < m + 1 /\ x \in Nat
      BY <2>5
    <3>5. upTo[m + 1] = p
      BY <2>3, <2>5 DEF before
    <3> HIDE DEF Below, p
    <3>6. Lists(jx, p, s, Below(m + 1))
      <4>1. Len(p) \in Nat /\ DOMAIN p = 1..Len(p)
        BY <3>1, <3>2
      <4>2. jx \in [1..Len(p) -> Below(m + 1)]
        BY <3>1, <3>2, <3>3, <3>4
      <4>3. \A x \in Below(m + 1) : \E i \in 1..Len(p) : jx[i] = x
        <5> SUFFICES ASSUME NEW x \in Below(m + 1)
                     PROVE  \E i \in 1..Len(p) : jx[i] = x
          OBVIOUS
        <5>1. CASE x = m + 1
          <6>1. Len(before) + 1 \in 1..Len(p) /\ jx[Len(before) + 1] = x
            BY <5>1, <3>1, <3>2
          <6> QED BY <6>1
        <5>2. CASE x \in Below(m)
          <6>1. PICK i \in 1..Len(before) : ix[i] = x
            BY <5>2, <3>3
          <6>2. i \in 1..Len(p) /\ jx[i] = x
            BY <6>1, <3>1, <3>2
          <6> QED BY <6>2
        <5> QED BY <5>1, <5>2, <3>4
      <4>4. \A i, j \in 1..Len(p) : i < j => jx[i] < jx[j]
        BY <3>1, <3>2, <3>3, <3>4
      <4>5. \A i \in 1..Len(p) : p[i] = s[jx[i]]
        BY <3>1, <3>2, <3>3
      <4> HIDE DEF jx
      <4> QED BY <4>1, <4>2, <4>3, <4>4, <4>5 DEF Lists
    <3> HIDE DEF jx
    <3> QED BY <3>2, <3>5, <3>6 DEF Listed
  <2> QED BY <2>4, <2>5
<1>6. n \in Good
  <2> HIDE DEF Good, n
  <2> QED BY <1>1, <1>4, <1>5, NatSetInduction
<1>7. Below(n) = indices
  BY <1>1
<1>10. upTo[n] \in Seq(T) /\ Listed(upTo[n], s, Below(n))
  BY <1>1, <1>6
<1> QED BY <1>2, <1>7, <1>10

\* What a candidate has under a list of keys is what is wanted under them.
LEMMA FirstStringLemma ==
    ASSUME NEW keys, Len(keys) \in Nat, DOMAIN keys = 1..Len(keys), NEW caps, NEW c, NEW k,
           \A key : StringValue(caps, key) = Wanted(c, k, key)
    PROVE  FirstStringValue(caps, keys) = FirstWanted(c, k, keys)
<1> DEFINE given == {i \in DOMAIN keys : StringValue(caps, keys[i]) # <<>>}
           isLeast(i) == \A j \in given : i <= j
           least == CHOOSE i \in given : isLeast(i)
           isFirst(x) == /\ Wanted(c, k, keys[x]) # <<>>
                         /\ \A y \in 1..(x - 1) : Wanted(c, k, keys[y]) = <<>>
<1>1. FirstStringValue(caps, keys) = IF given = {} THEN <<>> ELSE StringValue(caps, keys[least])
  BY DEF FirstStringValue
<1>2. given = {x \in DOMAIN keys : Wanted(c, k, keys[x]) # <<>>}
  OBVIOUS
<1>3. CASE given = {}
  BY <1>1, <1>2, <1>3 DEF FirstWanted
<1>4. CASE given # {}
  <2>1. given \in SUBSET Nat
    BY DOMAIN keys = 1..Len(keys)
  <2>2. Min(given) \in given /\ isLeast(Min(given))
    <3> HIDE DEF given
    <3> QED BY <1>4, <2>1, MinLemma
  <2>3. least \in given /\ isLeast(least)
    <3> HIDE DEF given, isLeast
    <3> QED BY <2>2
  <2> HIDE DEF least
  <2>4. isFirst(least)
    <3> SUFFICES ASSUME NEW y \in 1..(least - 1)
                 PROVE  Wanted(c, k, keys[y]) = <<>>
      BY <1>2, <2>3
    <3>1. y \in DOMAIN keys /\ ~(least <= y)
      BY <2>1, <2>3
    <3> QED BY <3>1, <1>2, <2>3
  <2>5. ASSUME NEW x \in DOMAIN keys, isFirst(x)
        PROVE  x = least
    <3>1. x \in given /\ ~(least \in 1..(x - 1))
      BY <1>2, <2>3, <2>5
    <3>2. least <= x /\ least \in DOMAIN keys
      BY <2>3, <3>1
    <3> QED BY <3>1, <3>2
  <2>6. (CHOOSE x \in DOMAIN keys : isFirst(x)) = least
    <3>1. least \in DOMAIN keys
      BY <2>3
    <3> HIDE DEF isFirst, given
    <3> QED BY <3>1, <2>4, <2>5
  <2>7. FirstWanted(c, k, keys) = Wanted(c, k, keys[least])
    <3>1. ~ \A x \in DOMAIN keys : Wanted(c, k, keys[x]) = <<>>
      BY <2>3
    <3> QED BY <3>1, <2>6 DEF FirstWanted
  <2> QED BY <1>1, <1>4, <2>7
<1> QED BY <1>3, <1>4

\* A request as its k-th alternative is wanted.
WantedRequest(c, k) ==
    [protocol |-> "webdriver",
     browser |-> FirstWanted(c, k, BrowserKeys),
     version |-> FirstWanted(c, k, VersionKeys),
     platform |-> FirstWanted(c, k, PlatformKeys),
     region |-> FirstWanted(c, k, RegionKeys)]

LEMMA MergedIsWanted ==
    ASSUME NEW c, NEW k, k \in DOMAIN c.firstMatch
    PROVE  RequestFromCapabilities(Merged(Object(c.alwaysMatch), c.firstMatch[k])) = WantedRequest(c, k)
<1> DEFINE always == Object(c.alwaysMatch)
           entry == c.firstMatch[k]
           caps == Merged(always, entry)
<1>1. ASSUME NEW key
      PROVE  StringValue(caps, key) = Wanted(c, k, key)
  <2>1. /\ DOMAIN caps = DOMAIN always \cup DOMAIN entry
        /\ key \in DOMAIN entry => caps[key] = entry[key]
        /\ key \in DOMAIN always \ DOMAIN entry => caps[key] = always[key]
    BY DEF Merged
  <2>2. IF c.alwaysMatch = NoObject THEN DOMAIN always = {} ELSE always = c.alwaysMatch
    BY DEF Object
  <2> HIDE DEF caps, always
  <2>3. CASE key \in DOMAIN entry
    BY <2>1, <2>3 DEF StringValue, Wanted
  <2>4. CASE key \notin DOMAIN entry /\ c.alwaysMatch # NoObject
    BY <2>1, <2>2, <2>4 DEF StringValue, Wanted
  <2>5. CASE key \notin DOMAIN entry /\ c.alwaysMatch = NoObject
    BY <2>1, <2>2, <2>5 DEF StringValue, Wanted
  <2> QED BY <2>3, <2>4, <2>5
<1> HIDE DEF caps
<1>2. \A keys \in {BrowserKeys, VersionKeys, PlatformKeys, RegionKeys} :
         Len(keys) \in Nat /\ DOMAIN keys = 1..Len(keys)
  <2>1. Len(BrowserKeys) \in Nat /\ DOMAIN BrowserKeys = 1..Len(BrowserKeys)
    BY DEF BrowserKeys
  <2>2. Len(VersionKeys) \in Nat /\ DOMAIN VersionKeys = 1..Len(VersionKeys)
    BY DEF VersionKeys
  <2>3. Len(PlatformKeys) \in Nat /\ DOMAIN PlatformKeys = 1..Len(PlatformKeys)
    BY DEF PlatformKeys
  <2>4. Len(RegionKeys) \in Nat /\ DOMAIN RegionKeys = 1..Len(RegionKeys)
    BY DEF RegionKeys
  <2> QED BY <2>1, <2>2, <2>3, <2>4
<1>3. \A keys \in {BrowserKeys, VersionKeys, PlatformKeys, RegionKeys} :
         FirstStringValue(caps, keys) = FirstWanted(c, k, keys)
  BY <1>1, <1>2, FirstStringLemma
<1>4. RequestFromCapabilities(caps) = WantedRequest(c, k)
  BY <1>3 DEF RequestFromCapabilities, WantedRequest
<1> QED BY <1>4 DEF caps

\* A list that increases tells how many elements there are, and how many up to
\* each of them.
LEMMA RankLemma ==
    ASSUME NEW S \in SUBSET Nat, NEW n \in Nat, NEW g \in [1..n -> S],
           \A x \in S : \E i \in 1..n : g[i] = x,
           \A i, j \in 1..n : i < j => g[i] < g[j]
    PROVE  /\ Cardinality(S) = n
           /\ \A i \in 1..n : Cardinality({x \in S : x <= g[i]}) = i
<1>1. \A i, j \in 1..n : g[i] = g[j] => i = j
  <2> SUFFICES ASSUME NEW i \in 1..n, NEW j \in 1..n, g[i] = g[j], i # j
               PROVE  FALSE
    OBVIOUS
  <2>1. i < j \/ j < i
    OBVIOUS
  <2>2. g[i] \in Nat /\ g[j] \in Nat
    OBVIOUS
  <2> QED BY <2>1, <2>2
<1>2. S = FirstOf(g, n)
  BY DEF FirstOf
<1>3. ASSUME NEW i \in 1..n
      PROVE  Cardinality({x \in S : x <= g[i]}) = i
  <2>1. i \in Nat /\ \A j \in 1..i : j \in 1..n
    OBVIOUS
  <2>2. {x \in S : x <= g[i]} = FirstOf(g, i)
    <3>1. ASSUME NEW x \in S, x <= g[i]
          PROVE  x \in FirstOf(g, i)
      <4>1. PICK j \in 1..n : g[j] = x
        OBVIOUS
      <4>2. ~(i < j)
        <5>1. g[i] \in Nat /\ g[j] \in Nat
          OBVIOUS
        <5>2. g[j] <= g[i]
          BY <3>1, <4>1
        <5>3. i < j => g[i] < g[j]
          OBVIOUS
        <5> QED BY <5>1, <5>2, <5>3
      <4>3. j \in 1..i
        BY <4>2
      <4> QED BY <4>1, <4>3 DEF FirstOf
    <3>2. ASSUME NEW j \in 1..i
          PROVE  g[j] \in S /\ g[j] <= g[i]
      <4>1. j = i \/ j < i
        OBVIOUS
      <4>2. g[j] \in S /\ g[i] \in Nat /\ g[j] \in Nat
        BY <2>1
      <4> QED BY <4>1, <4>2, <2>1
    <3> QED BY <3>1, <3>2 DEF FirstOf
  <2>3. \A j, k \in 1..i : g[j] = g[k] => j = k
    BY <1>1, <2>1
  <2>4. Cardinality(FirstOf(g, i)) = i
    BY <2>1, <2>3, CountDistinct
  <2> QED BY <2>2, <2>4
<1>4. Cardinality(S) = n
  BY <1>1, <1>2, CountDistinct
<1> QED BY <1>3, <1>4

LEMMA CandidatesLemma ==
    ASSUME NEW payload, payload.capabilities # NoObject,
           payload.capabilities.firstMatch \notin {NoArray, <<>>},
           payload.capabilities.firstMatch \in Seq(ToSet(payload.capabilities.firstMatch))
    PROVE  IsReferenceMerge(payload.capabilities, ParseWebDriverNewSession(payload))
<1> DEFINE c == payload.capabilities
           first == c.firstMatch
           usable == {k \in DOMAIN first : first[k] # NoObject}
           entries == Picked(first, usable)
           candidates == CapabilityCandidates(payload)
           requests == [i \in DOMAIN candidates |-> RequestFromCapabilities(candidates[i])]
           named == {i \in DOMAIN requests : requests[i].browser # <<>>}
           result == Picked(requests, named)
<1>1. /\ Len(first) \in Nat /\ DOMAIN first = 1..Len(first)
      /\ usable \in SUBSET (1..Len(first))
  OBVIOUS
<1>2. PICK ix : Lists(ix, entries, first, usable)
  <2>1. Listed(entries, first, usable)
    <3> HIDE DEF usable
    <3> QED BY <1>1, PickedLemma
  <2> HIDE DEF entries, usable
  <2> QED BY <2>1 DEF Listed
<1>3. candidates = [i \in DOMAIN entries |-> Merged(Object(c.alwaysMatch), entries[i])]
  BY DEF CapabilityCandidates
<1> DEFINE m == Len(entries)
<1> HIDE DEF entries, candidates
<1>4. m \in Nat /\ DOMAIN entries = 1..m /\ DOMAIN requests = 1..m
  BY <1>2, <1>3 DEF Lists
<1>5. ASSUME NEW i \in 1..m
      PROVE  requests[i] = WantedRequest(c, ix[i]) /\ ix[i] \in usable
  <2>1. entries[i] = first[ix[i]] /\ ix[i] \in usable
    BY <1>2 DEF Lists
  <2>2. candidates[i] = Merged(Object(c.alwaysMatch), first[ix[i]]) /\ i \in DOMAIN candidates
    BY <1>3, <1>4, <2>1
  <2>3. requests[i] = RequestFromCapabilities(candidates[i])
    BY <2>2
  <2> HIDE DEF requests
  <2> QED BY <2>1, <2>2, <2>3, MergedIsWanted
<1> DEFINE T == {requests[i] : i \in 1..m}
<1>6. requests \in Seq(T) /\ Len(requests) = m /\ named \in SUBSET (1..m)
  BY <1>4
<1> HIDE DEF requests, T
<1>7. PICK jx : Lists(jx, result, requests, named)
  <2>1. Listed(result, requests, named)
    <3> HIDE DEF named
    <3> QED BY <1>6, PickedLemma
  <2> HIDE DEF result, named
  <2> QED BY <2>1 DEF Listed
<1>8. result = ParseWebDriverNewSession(payload)
  BY DEF ParseWebDriverNewSession, requests, candidates
<1> HIDE DEF result
<1> DEFINE n == Len(result)
           g == [i \in 1..n |-> ix[jx[i]]]
<1>9. n \in Nat
  BY <1>7 DEF Lists
<1>10. ASSUME NEW i \in 1..n
       PROVE  /\ jx[i] \in 1..m /\ g[i] = ix[jx[i]]
              /\ result[i] = WantedRequest(c, g[i])
              /\ g[i] \in Triable(c)
  <2>1. jx[i] \in named /\ result[i] = requests[jx[i]]
    BY <1>7 DEF Lists
  <2>2. jx[i] \in 1..m /\ g[i] = ix[jx[i]]
    BY <2>1, <1>4
  <2>3. requests[jx[i]] = WantedRequest(c, g[i]) /\ g[i] \in usable
    BY <2>2, <1>5
  <2>4. FirstWanted(c, g[i], BrowserKeys) # <<>>
    BY <2>1, <2>3 DEF WantedRequest
  <2> HIDE DEF g
  <2> QED BY <2>1, <2>2, <2>3, <2>4 DEF Triable
<1>11. ASSUME NEW k \in Triable(c)
       PROVE  \E i \in 1..n : g[i] = k
  <2>1. k \in usable /\ FirstWanted(c, k, BrowserKeys) # <<>>
    BY DEF Triable
  <2>2. PICK j \in 1..m : ix[j] = k
    BY <2>1, <1>2 DEF Lists
  <2>3. j \in named
    BY <2>1, <2>2, <1>4, <1>5 DEF WantedRequest
  <2>4. PICK i \in 1..n : jx[i] = j
    BY <2>3, <1>7 DEF Lists
  <2>5. g[i] = k
    BY <2>2, <2>4
  <2> HIDE DEF g
  <2> QED BY <2>4, <2>5
<1>12. ASSUME NEW i \in 1..n, NEW j \in 1..n, i < j
       PROVE  g[i] < g[j]
  <2>1. jx[i] < jx[j]
    BY <1>7, <1>12 DEF Lists
  <2>2. ix[jx[i]] < ix[jx[j]]
    BY <1>2, <1>10, <2>1 DEF Lists
  <2> QED BY <2>2
<1>13. g \in [1..n -> Triable(c)]
  BY <1>10
<1>14. Triable(c) \in SUBSET Nat
  BY <1>1 DEF Triable
<1> HIDE DEF g, n
<1>15. /\ Cardinality(Triable(c)) = n
       /\ \A i \in 1..n : Cardinality({x \in Triable(c) : x <= g[i]}) = i
  BY <1>9, <1>11, <1>12, <1>13, <1>14, RankLemma
<1>16. ASSUME NEW k \in Triable(c)
       PROVE  result[Cardinality({x \in Triable(c) : x <= k})] = WantedRequest(c, k)
  <2>1. PICK i \in 1..n : g[i] = k
    BY <1>11
  <2> QED BY <2>1, <1>10, <1>15
<1>17. ASSUME NEW k \in Triable(c)
       PROVE  LET tried == result[Cardinality({x \in Triable(c) : x <= k})]
              IN  /\ tried.browser = FirstWanted(c, k, BrowserKeys)
                  /\ tried.version = FirstWanted(c, k, VersionKeys)
                  /\ tried.platform = FirstWanted(c, k, PlatformKeys)
                  /\ tried.region = FirstWanted(c, k, RegionKeys)
  <2> HIDE DEF c
  <2> DEFINE tried == result[Cardinality({x \in Triable(c) : x <= k})]
  <2>1. tried = WantedRequest(c, k)
    BY <1>16
  <2> HIDE DEF tried
  <2>2. /\ tried.browser = FirstWanted(c, k, BrowserKeys)
        /\ tried.version = FirstWanted(c, k, VersionKeys)
        /\ tried.platform = FirstWanted(c, k, PlatformKeys)
        /\ tried.region = FirstWanted(c, k, RegionKeys)
    BY <2>1 DEF WantedRequest
  <2> QED BY <2>2 DEF tried
<1>18. Len(result) = Cardinality(Triable(c))
  BY <1>15 DEF n
<1>19. IsReferenceMerge(c, result)
  <2> HIDE DEF c
  <2> QED BY <1>17, <1>18 DEF IsReferenceMerge
<1> QED BY <1>8, <1>19

\* What is tried is what was parsed of what arrived.
Parsed ==
    /\ request.pc \in {"admitted", "sent"} => request.asked \in Requests
    /\ request.pc = "sent" => request.candidates = Candidates(request.asked)

\* The alternatives of a new session are tried as W3C tells, for every list of
\* any length and whatever its entries are (request.go:37-60, 95-129, 166-180).
THEOREM AlternativesAreMerged == Spec => []CandidatesAreMerged
<1>1. Init => Parsed
  BY DEF Init, NoRequest, Parsed
<1>2. Parsed /\ [Next]_vars => Parsed'
  <2> SUFFICES ASSUME Parsed, [Next]_vars PROVE Parsed'
    OBVIOUS
  <2>1. CASE Reload \/ UNCHANGED vars
    BY <2>1 DEF Reload, vars, Parsed
  <2>2. ASSUME NEW asked \in Requests, Arrive(asked)
        PROVE  Parsed'
    <3>1. \/ request'.pc = "admitted" /\ request'.asked = asked
          \/ request'.pc = "answered"
      BY <2>2 DEF Arrive, Answered
    <3> QED BY <3>1 DEF Parsed
  <2>3. ASSUME NEW pool, Forward(pool)
        PROVE  Parsed'
    <3>1. /\ request.pc = "admitted" /\ request'.asked = request.asked
          /\ request'.candidates = Candidates(request.asked)
      BY <2>3 DEF Forward
    <3> QED BY <3>1 DEF Parsed
  <2>4. CASE Answer \/ Finish
    <3>1. request'.pc \in {"answered", "none"}
      BY <2>4 DEF Answer, Finish, Answered, NoRequest
    <3> QED BY <3>1 DEF Parsed
  <2> QED BY <2>1, <2>2, <2>3, <2>4 DEF Next
<1>3. Parsed => CandidatesAreMerged
  <2> DEFINE asked == request.asked
             c == asked.payload.capabilities
  <2> SUFFICES ASSUME Parsed, request.pc = "sent", asked.pattern \in NewSessionPatterns,
                      c # NoObject, c.firstMatch \notin {NoArray, <<>>}
               PROVE  IsReferenceMerge(c, request.candidates)
    BY DEF CandidatesAreMerged
  <2>1. asked \in Requests /\ request.candidates = Candidates(asked)
    BY DEF Parsed
  <2>2. Candidates(asked) = ParseWebDriverNewSession(asked.payload)
    BY DEF Candidates, NewSessionPatterns
  <2>3. c.firstMatch \in Seq(ToSet(c.firstMatch))
    BY <2>1, RequestsAssumption
  <2> DEFINE payload == asked.payload
  <2>4. IsReferenceMerge(payload.capabilities, ParseWebDriverNewSession(payload))
    <3>1. /\ payload.capabilities # NoObject
          /\ payload.capabilities.firstMatch \notin {NoArray, <<>>}
          /\ payload.capabilities.firstMatch \in Seq(ToSet(payload.capabilities.firstMatch))
      BY <2>3
    <3> HIDE DEF payload
    <3> QED BY <3>1, CandidatesLemma
  <2> HIDE DEF asked
  <2> QED BY <2>1, <2>2, <2>4
<1> QED BY <1>1, <1>2, <1>3, PTL DEF Spec
=============================================================================
