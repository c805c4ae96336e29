------------------------------ MODULE AppProofs ------------------------------
(***************************************************************************)
(* The two goroutines of internal/app: the loader of reload.go and Run of   *)
(* server.go. What MCReload checks with one request, three edits and two    *)
(* signals holds for every set of requests, contents and secrets and any    *)
(* number of edits and signals; what MCLifecycle checks for two requests    *)
(* and three ticks holds for every set of requests and graceful period.     *)
(***************************************************************************)
EXTENDS Reload, Lifecycle, TLAPS

GenType ==
    [config : Valid, secret : Secrets, out : SUBSET PoolIds,
     failures : [PoolIds -> 0..Threshold], own : [PoolIds -> 0..Threshold]]
PinType == [gen : {0} \cup DOMAIN gens, pool : PoolIds \cup {NoPool}]
LoaderType ==
    [pc : {"idle", "load", "resolve", "store", "storeHealth"}, config : Valid]

\* The next generation to serve exists from ResolveSecrets on; the two atomic
\* values are stored one after the other (reload.go:36-47).
StoresInOrder ==
    /\ currentHealth <= current
    /\ loader.pc # "storeHealth" => currentHealth = current
    /\ loader.pc # "store" => current = Len(gens)

\* A request is pinned to a generation, and sent to a pool of its configuration.
Pinned ==
    \A r \in Req :
        req[r].pool # NoPool => /\ req[r].gen \in DOMAIN gens
                                /\ req[r].pool \in Ids(gens[req[r].gen].config)

\* A manager counts no failure its own requests did not have, and a pool that is
\* out has had its row of them.
Sound(runtime) ==
    /\ \A id \in PoolIds : runtime.failures[id] <= runtime.own[id]
    /\ \A id \in runtime.out : runtime.own[id] >= Threshold

Inv ==
    /\ TypeOK
    /\ StoresInOrder
    /\ Pinned
    /\ \A g \in DOMAIN gens : Sound(gens[g])

-----------------------------------------------------------------------------

LEMMA IdsArePoolIds ==
    ASSUME NEW c \in Valid
    PROVE  Ids(c) \subseteq PoolIds
  BY DEF Ids, PoolIds

\* What the manager and its history make of a failure of their own, a success,
\* a scrape and the end of a cooldown.
KeepsSound(runtime, next) ==
    /\ next \in GenType /\ Sound(next)
    /\ next.config = runtime.config /\ next.secret = runtime.secret

LEMMA FailureLemma ==
    ASSUME NEW runtime \in GenType, Sound(runtime),
           NEW id \in PoolIds, id \in Ids(runtime.config)
    PROVE  KeepsSound(runtime, Struck(Blamed(runtime, id), id))
<1> DEFINE blamed == Blamed(runtime, id)
           next == Struck(blamed, id)
<1>1. /\ runtime.failures \in [PoolIds -> 0..Threshold]
      /\ runtime.own \in [PoolIds -> 0..Threshold]
      /\ runtime.out \in SUBSET PoolIds
  BY DEF GenType
<1>2. \A n \in 0..Threshold : CountUp(n) \in 0..Threshold
  BY ThresholdAssumption DEF CountUp
<1>3. /\ blamed = [runtime EXCEPT !.own = [runtime.own EXCEPT ![id] = CountUp(@)]]
      /\ blamed \in GenType
      /\ blamed.failures = runtime.failures /\ blamed.out = runtime.out
      /\ blamed.config = runtime.config /\ blamed.secret = runtime.secret
      /\ blamed.own = [runtime.own EXCEPT ![id] = CountUp(@)]
  BY <1>1, <1>2 DEF Blamed, GenType
<1> HIDE DEF blamed
<1> DEFINE failures2 == [runtime.failures EXCEPT ![id] = CountUp(@)]
           out2 == IF runtime.failures[id] + 1 >= Threshold
                   THEN runtime.out \cup {id} ELSE runtime.out
<1>4. /\ failures2 \in [PoolIds -> 0..Threshold]
      /\ out2 \in SUBSET PoolIds
      /\ next = [blamed EXCEPT !.failures = failures2, !.out = out2]
  BY <1>1, <1>2, <1>3 DEF Struck
<1> HIDE DEF next, failures2, out2
<1>5. /\ next.failures = failures2 /\ next.out = out2 /\ next.own = blamed.own
      /\ next.config = runtime.config /\ next.secret = runtime.secret
      /\ next \in GenType
  BY <1>3, <1>4 DEF GenType
<1>6. next.own = [runtime.own EXCEPT ![id] = CountUp(@)]
  BY <1>3, <1>5
<1>7. /\ runtime.failures[id] \in 0..Threshold /\ runtime.own[id] \in 0..Threshold
      /\ runtime.failures[id] <= runtime.own[id]
  BY <1>1 DEF Sound
<1>8. /\ CountUp(runtime.failures[id]) <= CountUp(runtime.own[id])
      /\ runtime.failures[id] + 1 >= Threshold => CountUp(runtime.own[id]) >= Threshold
      /\ runtime.own[id] >= Threshold => CountUp(runtime.own[id]) >= Threshold
  BY <1>7, ThresholdAssumption DEF CountUp
<1>9. ASSUME NEW other \in PoolIds
      PROVE  next.failures[other] <= next.own[other]
  BY <1>1, <1>5, <1>6, <1>8 DEF Sound, failures2
<1>10. ASSUME NEW other \in next.out
       PROVE  next.own[other] >= Threshold
  BY <1>1, <1>5, <1>6, <1>8 DEF Sound, out2
<1> QED BY <1>5, <1>9, <1>10 DEF KeepsSound, Sound, next, blamed

LEMMA SuccessLemma ==
    ASSUME NEW runtime \in GenType, Sound(runtime), NEW id \in PoolIds
    PROVE  KeepsSound(runtime, Acquitted(runtime, id))
<1>1. CASE id \notin Ids(runtime.config) \/ id \in runtime.out
  BY <1>1 DEF Acquitted, KeepsSound
<1>2. CASE ~(id \notin Ids(runtime.config) \/ id \in runtime.out)
  <2> DEFINE next == Acquitted(runtime, id)
  <2>1. /\ runtime.failures \in [PoolIds -> 0..Threshold]
        /\ runtime.own \in [PoolIds -> 0..Threshold]
        /\ runtime.out \in SUBSET PoolIds
        /\ 0 \in 0..Threshold
    BY ThresholdAssumption DEF GenType
  <2> DEFINE failures2 == [runtime.failures EXCEPT ![id] = 0]
             own2 == [runtime.own EXCEPT ![id] = 0]
  <2>2. /\ failures2 \in [PoolIds -> 0..Threshold]
        /\ own2 \in [PoolIds -> 0..Threshold]
        /\ next = [runtime EXCEPT !.failures = failures2, !.own = own2]
    BY <1>2, <2>1 DEF Acquitted
  <2> HIDE DEF next, failures2, own2
  <2>3. /\ next.failures = failures2 /\ next.own = own2 /\ next.out = runtime.out
        /\ next.config = runtime.config /\ next.secret = runtime.secret
        /\ next \in GenType
    BY <2>2 DEF GenType
  <2>4. Sound(next)
    BY <2>1, <2>3, <1>2 DEF Sound, failures2, own2
  <2> QED BY <2>3, <2>4 DEF KeepsSound, next
<1> QED BY <1>1, <1>2

LEMMA ScrapeLemma ==
    ASSUME NEW runtime \in GenType, Sound(runtime)
    PROVE  KeepsSound(runtime, Forgiven(runtime))
<1> DEFINE Cleared(count) ==
             [id \in PoolIds |->
                IF id \notin runtime.out /\ runtime.failures[id] = Threshold
                THEN 0 ELSE count[id]]
           next == Forgiven(runtime)
<1>1. /\ runtime.failures \in [PoolIds -> 0..Threshold]
      /\ runtime.own \in [PoolIds -> 0..Threshold]
      /\ runtime.out \in SUBSET PoolIds
      /\ 0 \in 0..Threshold
  BY ThresholdAssumption DEF GenType
<1>2. /\ Cleared(runtime.failures) \in [PoolIds -> 0..Threshold]
      /\ Cleared(runtime.own) \in [PoolIds -> 0..Threshold]
  BY <1>1
<1>3. next = [runtime EXCEPT !.failures = Cleared(runtime.failures),
                            !.own = Cleared(runtime.own)]
  BY DEF Forgiven
<1>4. /\ next.failures = Cleared(runtime.failures)
      /\ next.own = Cleared(runtime.own)
      /\ next.out = runtime.out
      /\ next.config = runtime.config /\ next.secret = runtime.secret
      /\ next \in GenType
  BY <1>2, <1>3 DEF GenType
<1> HIDE DEF next
<1>5. Sound(next)
  BY <1>1, <1>4 DEF Sound
<1> QED BY <1>4, <1>5 DEF KeepsSound, next

LEMMA RecoverLemma ==
    ASSUME NEW runtime \in GenType, Sound(runtime), NEW id
    PROVE  KeepsSound(runtime, [runtime EXCEPT !.out = @ \ {id}])
  BY DEF GenType, Sound, KeepsSound

\* The steps that leave the runtimes and what points to them alone.
LEMMA FrameLemma ==
    ASSUME Inv,
           file' \in Contents, secret' \in Secrets \cup {NoSecret},
           edits' \in 0..MaxEdits, signals' \in 0..MaxSignals,
           signalled' \in BOOLEAN, hupCh' \in BOOLEAN,
           loader' \in LoaderType,
           loader'.pc = "storeHealth" <=> loader.pc = "storeHealth",
           loader'.pc = "store" <=> loader.pc = "store",
           UNCHANGED <<gens, current, currentHealth, req>>
    PROVE  Inv'
<1>1. TypeOK'
  BY DEF Inv, TypeOK, LoaderType
<1>2. StoresInOrder'
  BY DEF Inv, StoresInOrder
<1>3. Pinned'
  BY DEF Inv, Pinned
<1>4. \A g \in DOMAIN gens' : Sound(gens'[g])
  BY DEF Inv
<1> QED BY <1>1, <1>2, <1>3, <1>4 DEF Inv, Sound

\* One runtime changes as KeepsSound says, and requests end.
LEMMA RuntimeLemma ==
    ASSUME Inv, NEW g \in DOMAIN gens, NEW next,
           KeepsSound(gens[g], next),
           gens' = [gens EXCEPT ![g] = next],
           req' \in [Req -> PinType],
           \A r \in Req : req'[r] = req[r] \/ req'[r] = Unserved,
           UNCHANGED <<disk, signals, hupCh, loader, current, currentHealth>>
    PROVE  Inv'
<1>0. gens \in Seq(GenType) /\ next \in GenType
  BY DEF Inv, TypeOK, GenType, KeepsSound
<1>1. /\ gens' \in Seq(GenType)
      /\ Len(gens') = Len(gens)
      /\ DOMAIN gens' = DOMAIN gens
  BY <1>0
<1>2. \A h \in DOMAIN gens : gens'[h] = IF h = g THEN next ELSE gens[h]
  BY <1>0
<1>3. TypeOK'
  BY <1>1 DEF Inv, TypeOK, PinType, GenType, disk
<1>4. StoresInOrder'
  BY <1>1 DEF Inv, StoresInOrder
<1>5. Pinned'
  <2>1. \A h \in DOMAIN gens : gens'[h].config = gens[h].config
    BY <1>2 DEF KeepsSound
  <2> QED BY <1>1, <2>1 DEF Inv, Pinned, Unserved
<1>6. \A h \in DOMAIN gens' : Sound(gens'[h])
  BY <1>1, <1>2 DEF Inv, KeepsSound
<1> QED BY <1>3, <1>4, <1>5, <1>6 DEF Inv, Sound

\* The steps in which a manager hears of its pools: each replaces one runtime.
ManagerStep ==
    \/ \E r \in Req : ScrapeOwn(r) \/ Succeed(r) \/ Fail(r)
    \/ \E g \in DOMAIN gens : Recover(g)
    \/ Scrape

Replaces(g, next) ==
    /\ KeepsSound(gens[g], next)
    /\ gens' = [gens EXCEPT ![g] = next]
    /\ req' \in [Req -> PinType]
    /\ \A r \in Req : req'[r] = req[r] \/ req'[r] = Unserved
    /\ UNCHANGED <<disk, signals, hupCh, loader, current, currentHealth>>

LEMMA ManagerStepLemma ==
    ASSUME Inv, ManagerStep
    PROVE  \E g \in DOMAIN gens : \E next : Replaces(g, next)
<1>a. /\ gens \in Seq(GenType)
      /\ currentHealth \in DOMAIN gens
      /\ req \in [Req -> PinType]
      /\ Unserved \in PinType
  BY DEF Inv, TypeOK, GenType, PinType, Unserved
<1>c. \A g \in DOMAIN gens : gens[g] \in GenType /\ Sound(gens[g])
  BY <1>a DEF Inv
<1>1. ASSUME NEW r \in Req, Succeed(r) \/ Fail(r)
      PROVE  \E g \in DOMAIN gens : \E next : Replaces(g, next)
  <2> DEFINE g == req[r].gen
             id == req[r].pool
  <2>1. g \in DOMAIN gens /\ id \in Ids(gens[g].config) /\ id \in PoolIds
    <3>1. g \in DOMAIN gens /\ id \in Ids(gens[g].config)
      BY <1>1 DEF Succeed, Fail, Inv, Pinned
    <3>2. gens[g].config \in Valid
      BY <1>c, <3>1 DEF GenType
    <3> QED BY <3>1, <3>2, IdsArePoolIds
  <2>2. /\ req' \in [Req -> PinType]
        /\ \A q \in Req : req'[q] = req[q] \/ req'[q] = Unserved
        /\ UNCHANGED <<disk, signals, hupCh, loader, current, currentHealth>>
    BY <1>1, <1>a DEF Succeed, Fail
  <2>3. CASE Succeed(r)
    <3>1. gens' = [gens EXCEPT ![g] = Acquitted(gens[g], id)]
      BY <2>3, <2>1 DEF Succeed
    <3>2. KeepsSound(gens[g], Acquitted(gens[g], id))
      BY <1>c, <2>1, SuccessLemma
    <3> HIDE DEF g, id
    <3>3. Replaces(g, Acquitted(gens[g], id))
      BY <2>2, <3>1, <3>2 DEF Replaces
    <3> QED BY <2>1, <3>3
  <2>4. CASE Fail(r)
    <3>1. gens' = [gens EXCEPT ![g] = Struck(Blamed(gens[g], id), id)]
      BY <2>4, <2>1 DEF Fail
    <3>2. KeepsSound(gens[g], Struck(Blamed(gens[g], id), id))
      BY <1>c, <2>1, FailureLemma
    <3> HIDE DEF g, id
    <3>3. Replaces(g, Struck(Blamed(gens[g], id), id))
      BY <2>2, <3>1, <3>2 DEF Replaces
    <3> QED BY <2>1, <3>3
  <2> QED BY <1>1, <2>3, <2>4
<1>2. ASSUME NEW g \in DOMAIN gens, Recover(g)
      PROVE  \E h \in DOMAIN gens : \E next : Replaces(h, next)
  <2>1. PICK id \in gens[g].out : gens' = [gens EXCEPT ![g].out = @ \ {id}]
    BY <1>2 DEF Recover
  <2> DEFINE next == [gens[g] EXCEPT !.out = @ \ {id}]
  <2>2. gens' = [gens EXCEPT ![g] = next]
    BY <2>1
  <2>3. KeepsSound(gens[g], next)
    BY <1>c, RecoverLemma
  <2> HIDE DEF next
  <2>4. Replaces(g, next)
    BY <1>2, <1>a, <2>2, <2>3 DEF Recover, Replaces
  <2> QED BY <2>4
<1>3. CASE Scrape
  <2>1. KeepsSound(gens[currentHealth], Forgiven(gens[currentHealth]))
    BY <1>a, <1>c, ScrapeLemma
  <2>2. gens' = [gens EXCEPT ![currentHealth] = Forgiven(gens[currentHealth])]
    BY <1>3, <1>a DEF Scrape
  <2>3. Replaces(currentHealth, Forgiven(gens[currentHealth]))
    BY <1>3, <1>a, <2>1, <2>2 DEF Scrape, Replaces
  <2> QED BY <1>a, <2>3
<1>4. ASSUME NEW r \in Req, ScrapeOwn(r)
      PROVE  \E g \in DOMAIN gens : \E next : Replaces(g, next)
  <2> DEFINE g == req[r].gen
  <2>1. g \in DOMAIN gens
    BY <1>4, <1>a DEF ScrapeOwn, PinType
  <2>2. KeepsSound(gens[g], Forgiven(gens[g]))
    BY <1>c, <2>1, ScrapeLemma
  <2>3. gens' = [gens EXCEPT ![g] = Forgiven(gens[g])]
    BY <1>4, <2>1 DEF ScrapeOwn
  <2>4. Replaces(g, Forgiven(gens[g]))
    BY <1>4, <1>a, <2>2, <2>3 DEF ScrapeOwn, Replaces
  <2> HIDE DEF g
  <2> QED BY <2>1, <2>4
<1> QED BY <1>1, <1>2, <1>3, <1>4 DEF ManagerStep

LEMMA InvInductive == Inv /\ [Next]_vars => Inv'
<1> SUFFICES ASSUME Inv, [Next]_vars
             PROVE  Inv'
  OBVIOUS
<1>a. /\ file \in Contents /\ secret \in Secrets \cup {NoSecret}
      /\ edits \in 0..MaxEdits /\ signals \in 0..MaxSignals
      /\ signalled \in BOOLEAN /\ hupCh \in BOOLEAN
      /\ loader \in LoaderType
      /\ gens \in Seq(GenType)
      /\ current \in DOMAIN gens /\ currentHealth \in DOMAIN gens
      /\ req \in [Req -> PinType]
  BY DEF Inv, TypeOK, LoaderType, GenType, PinType
<1>1. CASE Edit
  <2>1. edits + 1 \in 0..MaxEdits
    BY <1>1, <1>a, BoundAssumption DEF Edit
  <2> QED BY <1>1, <1>a, <2>1, FrameLemma DEF Edit
<1>2. CASE Sighup
  <2>1. signals + 1 \in 0..MaxSignals
    BY <1>2, <1>a, BoundAssumption DEF Sighup
  <2> QED BY <1>2, <1>a, <2>1, FrameLemma DEF Sighup
<1>3. CASE ReceiveHup
  BY <1>3, <1>a, FrameLemma DEF ReceiveHup, LoaderType, disk
<1>4. CASE LoadConfig
  BY <1>4, <1>a, FrameLemma DEF LoadConfig, LoaderType, disk
<1>5. CASE ResolveSecrets
  <2>1. CASE secret = NoSecret
    BY <1>5, <2>1, <1>a, FrameLemma DEF ResolveSecrets, LoaderType, disk
  <2>2. CASE secret # NoSecret
    <3> DEFINE new == Runtime(loader.config, secret)
    <3>1. new \in GenType
      BY <2>2, <1>a, ThresholdAssumption DEF Runtime, GenType, LoaderType
    <3>2. /\ gens' = Append(gens, new)
          /\ loader' = [loader EXCEPT !.pc = "store"]
          /\ UNCHANGED <<disk, signals, hupCh, current, currentHealth, req>>
      BY <1>5, <2>2 DEF ResolveSecrets
    <3>3. /\ gens' \in Seq(GenType)
          /\ Len(gens') = Len(gens) + 1
          /\ DOMAIN gens \subseteq DOMAIN gens'
          /\ \A g \in DOMAIN gens : gens'[g] = gens[g]
          /\ \A g \in DOMAIN gens' : g \in DOMAIN gens \/ gens'[g] = new
      BY <3>1, <3>2, <1>a
    <3>4. Sound(new)
      BY DEF Runtime, Sound
    <3> HIDE DEF new
    <3>5. TypeOK'
      BY <3>2, <3>3, <1>a DEF TypeOK, LoaderType, GenType, PinType, disk
    <3>6. StoresInOrder'
      BY <3>2, <1>5, <1>a DEF ResolveSecrets, Inv, StoresInOrder, LoaderType
    <3>7. Pinned'
      BY <3>2, <3>3 DEF Inv, Pinned
    <3>8. \A g \in DOMAIN gens' : Sound(gens'[g])
      BY <3>3, <3>4 DEF Inv
    <3> QED BY <3>5, <3>6, <3>7, <3>8 DEF Inv, Sound
  <2> QED BY <2>1, <2>2
<1>6. CASE StoreHandler
  <2>1. TypeOK'
    <3>1. loader' \in LoaderType /\ current' \in DOMAIN gens
      BY <1>6, <1>a DEF StoreHandler, LoaderType
    <3> QED BY <1>6, <3>1 DEF StoreHandler, Inv, TypeOK, LoaderType, disk
  <2>2. StoresInOrder'
    BY <1>6, <1>a DEF StoreHandler, Inv, StoresInOrder, LoaderType
  <2>3. Pinned' /\ (\A g \in DOMAIN gens' : Sound(gens'[g]))
    BY <1>6 DEF StoreHandler, Inv, Pinned
  <2> QED BY <2>1, <2>2, <2>3 DEF Inv, Sound
<1>7. CASE StoreHealth
  <2>1. TypeOK'
    <3>1. loader' \in LoaderType /\ currentHealth' \in DOMAIN gens
      BY <1>7, <1>a DEF StoreHealth, LoaderType
    <3> QED BY <1>7, <3>1 DEF StoreHealth, Inv, TypeOK, LoaderType, disk
  <2>2. StoresInOrder'
    BY <1>7, <1>a DEF StoreHealth, Inv, StoresInOrder, LoaderType
  <2>3. Pinned' /\ (\A g \in DOMAIN gens' : Sound(gens'[g]))
    BY <1>7 DEF StoreHealth, Inv, Pinned
  <2> QED BY <2>1, <2>2, <2>3 DEF Inv, Sound
<1>8. ASSUME NEW r \in Req, Serve(r) \/ Forward(r)
      PROVE  Inv'
  <2>1. CASE Serve(r)
    <3>1. req' \in [Req -> PinType]
      BY <1>a, <2>1 DEF Serve, PinType
    <3>2. \A q \in Req : req'[q].pool = NoPool \/ req'[q] = req[q]
      BY <1>a, <2>1 DEF Serve, PinType, Unserved
    <3>3. Pinned'
      BY <2>1, <3>2 DEF Serve, Inv, Pinned
    <3> QED BY <2>1, <3>1, <3>3, <1>a
          DEF Serve, Inv, TypeOK, StoresInOrder, LoaderType, GenType, PinType, disk, Sound
  <2>2. CASE Forward(r)
    <3>1. PICK id \in Ids(gens[req[r].gen].config) : req' = [req EXCEPT ![r].pool = id]
      BY <2>2 DEF Forward
    <3>2. req[r].gen \in DOMAIN gens /\ gens[req[r].gen].config \in Valid
      <4>1. req[r].gen \in DOMAIN gens
        BY <2>2, <1>a DEF Forward, PinType
      <4>2. gens[req[r].gen] \in GenType
        BY <4>1, <1>a
      <4> QED BY <4>1, <4>2 DEF GenType
    <3>3. req' \in [Req -> PinType]
      BY <3>1, <3>2, <1>a, IdsArePoolIds DEF PinType
    <3>4. /\ req'[r].gen = req[r].gen /\ req'[r].pool = id
          /\ \A q \in Req : q # r => req'[q] = req[q]
      BY <3>1, <1>a DEF PinType
    <3>5. Pinned'
      BY <2>2, <3>1, <3>2, <3>4 DEF Forward, Inv, Pinned
    <3> QED BY <2>2, <3>3, <3>5, <1>a
          DEF Forward, Inv, TypeOK, StoresInOrder, LoaderType, GenType, PinType, disk, Sound
  <2> QED BY <1>8, <2>1, <2>2
<1>b. Unserved \in PinType
  BY DEF Unserved, PinType
<1>9. ASSUME NEW r \in Req, Finish(r)
      PROVE  Inv'
  <2>1. req' \in [Req -> PinType]
    BY <1>9, <1>a, <1>b DEF Finish
  <2>2. \A q \in Req : req'[q].pool = NoPool \/ req'[q] = req[q]
    BY <1>9, <1>a DEF Finish, Unserved
  <2>3. Pinned'
    BY <1>9, <2>2 DEF Finish, Inv, Pinned
  <2> QED BY <1>9, <2>1, <2>3, <1>a
        DEF Finish, Inv, TypeOK, StoresInOrder, LoaderType, GenType, PinType, disk, Sound
<1>10. CASE ManagerStep
  <2>0. PICK g \in DOMAIN gens : \E next : Replaces(g, next)
    BY <1>10, ManagerStepLemma
  <2>1. PICK next : Replaces(g, next)
    BY <2>0
  <2>2. /\ req' \in [Req -> PinType]
        /\ \A q \in Req : req'[q] = req[q] \/ req'[q] = Unserved
        /\ UNCHANGED <<disk, signals, hupCh, loader, current, currentHealth>>
        /\ gens' = [gens EXCEPT ![g] = next]
        /\ KeepsSound(gens[g], next)
    BY <2>1 DEF Replaces
  <2> QED BY <2>2, RuntimeLemma
<1>12. CASE UNCHANGED vars
  BY <1>12, <1>a, FrameLemma DEF vars, disk
<1> QED
  BY <1>1, <1>2, <1>3, <1>4, <1>5, <1>6, <1>7, <1>8, <1>9, <1>10, <1>12
  DEF Next, ManagerStep

LEMMA InvInit == Init => Inv
<1> SUFFICES ASSUME Init
             PROVE  Inv
  OBVIOUS
<1> DEFINE first == Runtime(Start, StartSecret)
<1>1. first \in GenType /\ Sound(first)
  BY StartAssumption, ThresholdAssumption DEF Runtime, GenType, Sound
<1> HIDE DEF first
<1>2. /\ gens \in Seq(GenType) /\ Len(gens) = 1 /\ DOMAIN gens = {1}
      /\ gens[1] = first
  BY <1>1 DEF Init, first
<1>3. TypeOK
  <2>1. /\ file \in Contents /\ secret \in Secrets \cup {NoSecret}
        /\ loader.config \in Valid /\ loader \in LoaderType
    BY StartAssumption, ConfigAssumption DEF Init, LoaderType
  <2>a. signalled \in BOOLEAN /\ hupCh \in BOOLEAN
    BY DEF Init
  <2>2. edits \in 0..MaxEdits /\ signals \in 0..MaxSignals
    BY BoundAssumption DEF Init
  <2>3. current \in DOMAIN gens /\ currentHealth \in DOMAIN gens
    BY <1>2 DEF Init
  <2>4. req \in [Req -> [gen : {0} \cup DOMAIN gens, pool : PoolIds \cup {NoPool}]]
    BY DEF Init, Unserved
  <2> QED BY <1>2, <2>1, <2>a, <2>2, <2>3, <2>4 DEF TypeOK, LoaderType, GenType
<1>4. StoresInOrder /\ Pinned
  BY <1>2 DEF Init, StoresInOrder, Pinned, Unserved
<1>5. \A g \in DOMAIN gens : Sound(gens[g])
  BY <1>1, <1>2
<1> QED BY <1>3, <1>4, <1>5 DEF Inv

\* Where a loadable change that was signalled has got to.
Holds(g) == gens[g].config = file /\ gens[g].secret = secret

SignalReached ==
    signalled /\ file \in Valid /\ secret # NoSecret =>
        \/ hupCh
        \/ loader.pc = "load"
        \/ loader.pc = "resolve" /\ loader.config = file
        \/ loader.pc = "store" /\ Holds(Len(gens))
        \/ loader.pc \in {"storeHealth", "idle"} /\ Holds(current)

LEMMA SignalInductive == Inv /\ SignalReached /\ [Next]_vars => SignalReached'
<1> SUFFICES ASSUME Inv, SignalReached, [Next]_vars
             PROVE  SignalReached'
  OBVIOUS
<1>a. /\ loader \in LoaderType
      /\ gens \in Seq(GenType)
      /\ current \in DOMAIN gens
      /\ Len(gens) \in DOMAIN gens
  <2>1. /\ loader \in LoaderType
        /\ gens \in Seq(GenType)
        /\ current \in DOMAIN gens
    BY DEF Inv, TypeOK, LoaderType, GenType
  <2> QED BY <2>1
<1>1. CASE Edit \/ Sighup
  BY <1>1 DEF Edit, Sighup, SignalReached
<1>2. CASE ReceiveHup
  BY <1>2, <1>a DEF ReceiveHup, SignalReached, LoaderType
<1>3. CASE LoadConfig
  <2>1. CASE file \in Valid
    BY <1>3, <2>1 DEF LoadConfig, SignalReached, disk
  <2>2. CASE file \notin Valid
    BY <1>3, <2>2 DEF LoadConfig, SignalReached, disk, Valid
  <2> QED BY <2>1, <2>2
<1>4. CASE ResolveSecrets
  <2>1. CASE secret = NoSecret
    BY <1>4, <2>1 DEF ResolveSecrets, SignalReached, disk
  <2>2. CASE secret # NoSecret
    <3> DEFINE new == Runtime(loader.config, secret)
    <3>1. /\ gens' = Append(gens, new)
          /\ loader' = [loader EXCEPT !.pc = "store"]
          /\ UNCHANGED <<disk, hupCh>>
      BY <1>4, <2>2 DEF ResolveSecrets
    <3>2. gens'[Len(gens')] = new
      BY <3>1, <1>a
    <3>3. new.config = loader.config /\ new.secret = secret
      BY DEF Runtime
    <3>4. loader'.pc = "store" /\ loader.pc = "resolve"
      BY <3>1, <1>4, <1>a DEF ResolveSecrets, LoaderType
    <3> HIDE DEF new
    <3> QED BY <3>1, <3>2, <3>3, <3>4 DEF SignalReached, Holds, disk, Valid
  <2> QED BY <2>1, <2>2
<1>5. CASE StoreHandler
  BY <1>5, <1>a DEF StoreHandler, SignalReached, Holds, disk, LoaderType
<1>6. CASE StoreHealth
  BY <1>6, <1>a DEF StoreHealth, SignalReached, Holds, disk, LoaderType
<1>7. ASSUME /\ UNCHANGED <<disk, hupCh, loader, current>>
             /\ Len(gens') = Len(gens)
             /\ \A g \in DOMAIN gens : /\ gens'[g].config = gens[g].config
                                      /\ gens'[g].secret = gens[g].secret
      PROVE  SignalReached'
  BY <1>7, <1>a DEF SignalReached, Holds, disk
<1>8. ASSUME NEW r \in Req, Serve(r) \/ Forward(r) \/ Finish(r)
      PROVE  SignalReached'
  BY <1>8, <1>7 DEF Serve, Forward, Finish
<1>9. CASE ManagerStep
  <2>0. PICK g \in DOMAIN gens : \E next : Replaces(g, next)
    BY <1>9, ManagerStepLemma
  <2>1. PICK next : Replaces(g, next)
    BY <2>0
  <2>2. /\ UNCHANGED <<disk, hupCh, loader, current>>
        /\ gens' = [gens EXCEPT ![g] = next]
        /\ next.config = gens[g].config /\ next.secret = gens[g].secret
    BY <2>1 DEF Replaces, KeepsSound
  <2>3. /\ Len(gens') = Len(gens)
        /\ \A h \in DOMAIN gens : gens'[h] = IF h = g THEN next ELSE gens[h]
    BY <2>2, <1>a
  <2> QED BY <2>2, <2>3, <1>7
<1>12. CASE UNCHANGED vars
  BY <1>12, <1>7 DEF vars
<1> QED
  BY <1>1, <1>2, <1>3, <1>4, <1>5, <1>6, <1>8, <1>9, <1>12 DEF Next, ManagerStep

-----------------------------------------------------------------------------

\* The reloader only ever builds runtimes from contents that load and from
\* secrets that resolve, and both atomic values name a runtime that was built.
THEOREM Typing == Spec => []TypeOK
<1>1. Inv => TypeOK
  BY DEF Inv
<1> QED BY <1>1, InvInit, InvInductive, PTL DEF Spec

\* What is scraped is never newer than what serves, and is older only between
\* the two stores of one reload, however often SIGHUP comes.
THEOREM ScrapeLags == Spec => []ScrapeLagsOneReload
<1>1. Inv => ScrapeLagsOneReload
  BY DEF Inv, StoresInOrder, ScrapeLagsOneReload
<1> QED BY <1>1, InvInit, InvInductive, PTL DEF Spec

\* A pool goes out of rotation in a runtime only by a row of failures of that
\* runtime's own requests, whatever requests that outlived reloads report.
THEOREM EjectionsStay == Spec => []EjectionsStayInTheirGeneration
<1>1. Inv => EjectionsStayInTheirGeneration
  BY DEF Inv, Sound, EjectionsStayInTheirGeneration
<1> QED BY <1>1, InvInit, InvInductive, PTL DEF Spec

\* A change that loads is never lost once it was signalled, whatever the reloader
\* was doing when the signal came and however many signals were merged into the
\* one the channel holds.
THEOREM SignalsAreNotLost == Spec => []SignalledFilesServe
<1>1. Init => SignalReached
  BY DEF Init, SignalReached
<1>2. SignalReached => SignalledFilesServe
  BY DEF SignalReached, SignalledFilesServe, Holds
<1> QED BY <1>1, <1>2, InvInit, InvInductive, SignalInductive, PTL DEF Spec

-----------------------------------------------------------------------------
(* Run of server.go.                                                       *)

\* The sequence of servers and the set of them.
LEMMA ServersLemma ==
    /\ Len(Servers) \in {1, 2}
    /\ DOMAIN Servers = 1..Len(Servers)
    /\ \A k \in 1..Len(Servers) : Servers[k] \in Server
    /\ \A s \in Server : \E k \in 1..Len(Servers) : s = Servers[k]
    /\ Router \in Server
  BY ServersAssumption DEF Server, Router

\* The parts of Run, its channel and its servers keep their types: no more is
\* sent on errCh than fits, and the drain never asks for a server there is not.
THEOREM RunTyping == Safety => []RunTypeOK
<1>1. RunInit => RunTypeOK
  <2> SUFFICES ASSUME RunInit PROVE RunTypeOK
    OBVIOUS
  <2>1. errCh \in Seq(Errors) /\ Len(errCh) <= ErrChCapacity
    BY DEF RunInit, ErrChCapacity
  <2>2. conn \in [Requests -> ConnType]
    BY DEF RunInit, NoConn, ConnType
  <2>3. run \in RunType
    BY ServersLemma, GraceAssumption DEF RunInit, RunType
  <2> QED BY <2>1, <2>2, <2>3 DEF RunInit, RunTypeOK
<1>2. RunTypeOK /\ [RunNext]_runVars => RunTypeOK'
  <2> SUFFICES ASSUME RunTypeOK, [RunNext]_runVars
               PROVE  RunTypeOK'
    OBVIOUS
  <2> USE DEF RunTypeOK
  <2>1. CASE Cancel
    BY <2>1 DEF Cancel
  <2>2. ASSUME NEW s \in Server, Listen(s)
        PROVE  RunTypeOK'
    BY <2>2 DEF Listen
  <2>3. ASSUME NEW s \in Server, NEW error \in Errors, Send(s, error), UNCHANGED <<conn, run>>
        PROVE  RunTypeOK'
    <3>1. errCh' \in Seq(Errors) /\ Len(errCh') = Len(errCh) + 1
      BY <2>3 DEF Send
    <3> QED BY <2>3, <3>1 DEF Send, ErrChCapacity
  <2>4. ASSUME NEW s \in Server, ListenerFails(s) \/ ListenerCloses(s)
        PROVE  RunTypeOK'
    BY <2>3, <2>4 DEF ListenerFails, ListenerCloses, Send, Errors
  <2>5. ASSUME NEW s \in Server, NEW r \in Requests, Accept(s, r)
        PROVE  RunTypeOK'
    BY <2>5 DEF Accept, ConnType
  <2>6. ASSUME NEW r \in Requests, Hijack(r) \/ Answer(r)
        PROVE  RunTypeOK'
    <3>a. [server |-> Router, state |-> "hijacked"] \in ConnType /\ NoConn \in ConnType
      BY ServersLemma DEF ConnType, NoConn
    <3>b. \/ conn' = [conn EXCEPT ![r] = [server |-> Router, state |-> "hijacked"]]
          \/ conn' = [conn EXCEPT ![r] = NoConn]
      BY <2>6 DEF Hijack, Answer
    <3>1. conn' \in [Requests -> ConnType]
      BY <3>a, <3>b
    <3> QED BY <2>6, <3>1 DEF Hijack, Answer
  <2>7. CASE StopOnContext
    BY <2>7 DEF StopOnContext, RunType
  <2>8. CASE StopOnError
    <3>1. Head(errCh) \in Errors /\ Tail(errCh) \in Seq(Errors) /\ Len(Tail(errCh)) = Len(errCh) - 1
      BY <2>8 DEF StopOnError
    <3>2. run' \in RunType
      BY <2>8, <3>1 DEF StopOnError, RunType
    <3> QED BY <2>8, <3>1, <3>2 DEF StopOnError, ErrChCapacity
  <2>9. CASE Shutdown
    BY <2>9 DEF Shutdown
  <2>10. CASE Drained
    <3>a. run.at + 1 \in 1..(Len(Servers) + 1)
      BY <2>10, ServersLemma DEF Drained, Draining, RunType
    <3>1. run' \in RunType
      BY <2>10, <3>a DEF Drained, Draining, RunType
    <3> QED BY <2>10, <3>1 DEF Drained, Draining
  <2>11. CASE DrainTimesOut
    <3>a. run.at + 1 \in 1..(Len(Servers) + 1)
      BY <2>11, ServersLemma DEF DrainTimesOut, Draining, RunType
    <3>1. run' \in RunType
      BY <2>11, <3>a DEF DrainTimesOut, Draining, RunType
    <3> QED BY <2>11, <3>1 DEF DrainTimesOut, Draining
  <2>12. CASE Return
    <3>1. run' \in RunType
      BY <2>12 DEF Return, RunType
    <3> QED BY <2>12, <3>1 DEF Return
  <2>13. CASE Tick
    <3>a. run.left - 1 \in 0..GracefulPeriod
      BY <2>13, GraceAssumption DEF Tick, RunType
    <3>b. run' = [run EXCEPT !.left = @ - 1]
      BY <2>13 DEF Tick
    <3>1. run' \in RunType
      BY <3>a, <3>b DEF RunType
    <3> QED BY <2>13, <3>1 DEF Tick
  <2>14. CASE UNCHANGED runVars
    BY <2>14 DEF runVars
  <2> QED
    BY <2>1, <2>2, <2>4, <2>5, <2>6, <2>7, <2>8, <2>9, <2>10, <2>11, <2>12, <2>13, <2>14
    DEF RunNext, Main, Exited
<1> QED BY <1>1, <1>2, PTL DEF Safety

-----------------------------------------------------------------------------

\* What the drain may still use and what it has used is one period.
Budget == elapsed + run.left = GracefulPeriod

\* The two drains share one deadline: whatever the requests do, and however
\* many servers there are, no more ticks than the graceful period pass between
\* the end of the select and the return of Run.
THEOREM GraceIsShared == RunSpec => []OneGracefulPeriod
<1>1. RunInit => Budget
  BY GraceAssumption DEF RunInit, Budget
<1>2. RunTypeOK /\ Budget /\ [RunNext]_runVars => Budget'
  <2> SUFFICES ASSUME RunTypeOK, Budget, [RunNext]_runVars
               PROVE  Budget'
    OBVIOUS
  <2>1. run.left \in Nat /\ elapsed \in Nat
    BY GraceAssumption DEF RunTypeOK, RunType
  <2>2. CASE Tick
    <3>1. run.left' = run.left - 1 /\ elapsed' = elapsed + 1
      BY <2>2 DEF Tick, RunTypeOK, RunType
    <3> QED BY <3>1, <2>1, GraceAssumption DEF Budget
  <2>3. CASE Main
    <3>1. run'.left = run.left /\ elapsed' = elapsed
      BY <2>3 DEF Main, StopOnContext, StopOnError, Shutdown, Drained, DrainTimesOut, Return,
                  RunTypeOK, RunType
    <3> QED BY <3>1 DEF Budget
  <2>4. CASE ~Tick /\ ~Main
    <3>1. UNCHANGED <<run, elapsed>>
      BY <2>4 DEF RunNext, Cancel, Listen, ListenerFails, ListenerCloses, Send, Accept, Hijack,
                  Answer, Exited, runVars
    <3> QED BY <3>1 DEF Budget
  <2> QED BY <2>2, <2>3, <2>4
<1>3. RunTypeOK /\ Budget => OneGracefulPeriod
  BY GraceAssumption DEF RunTypeOK, RunType, Budget, OneGracefulPeriod
<1> QED BY <1>1, <1>2, <1>3, RunTyping, PTL DEF Safety, RunSpec

-----------------------------------------------------------------------------

\* While Run waits, no server has been told to stop, so that what its listeners
\* send can only be a failure.
Waiting ==
    run.pc = "select" =>
        /\ run.at = 1 /\ run.err = "nil" /\ run.shutdownErr = "nil"
        /\ \A s \in Server : ~inShutdown[s]
        /\ \A k \in 1..Len(errCh) : errCh[k] = "failure"

\* What made Run stop is a failure, or else the signal, and once it has stopped
\* it keeps to that.
StoppedFor ==
    /\ run.err # "ErrServerClosed"
    /\ run.pc # "select" /\ run.err = "nil" => ctx

\* The servers the drain has left behind take no requests any more and, unless
\* it remembers that the time was up, have none.
LeftBehind ==
    \A k \in 1..(run.at - 1) :
        /\ inShutdown[Servers[k]]
        /\ run.shutdownErr = "nil" => ~Busy(Servers[k])

\* The result is that of the first error, and comes after the last server.
Outcome ==
    IF run.pc = "done"
    THEN /\ run.at = Len(Servers) + 1
         /\ run.result = IF run.err = "nil" THEN run.shutdownErr ELSE run.err
    ELSE run.result = "none"

DrainInv == Waiting /\ StoppedFor /\ LeftBehind /\ Outcome

LEMMA DrainInvInductive == Safety => []DrainInv
<1>1. RunInit => DrainInv
  BY ServersLemma DEF RunInit, DrainInv, Waiting, StoppedFor, LeftBehind, Outcome
<1>2. RunTypeOK /\ DrainInv /\ [RunNext]_runVars => DrainInv'
  <2> SUFFICES ASSUME RunTypeOK, DrainInv, [RunNext]_runVars
               PROVE  DrainInv'
    OBVIOUS
  <2>a. run.at \in 1..(Len(Servers) + 1) /\ run \in RunType
    BY DEF RunTypeOK, RunType
  <2>b. ASSUME UNCHANGED run, ctx => ctx',
               \A s \in Server : inShutdown[s] => inShutdown'[s],
               \A s \in Server : inShutdown[s] /\ Busy(s)' => Busy(s)
        PROVE  StoppedFor' /\ LeftBehind' /\ Outcome'
    <3>1. StoppedFor' /\ Outcome'
      BY <2>b DEF DrainInv, StoppedFor, Outcome
    <3>2. LeftBehind'
      <4> SUFFICES ASSUME NEW k \in 1..(run.at - 1)
                   PROVE  inShutdown'[Servers[k]] /\ (run.shutdownErr = "nil" => ~Busy(Servers[k])')
        BY <2>b DEF LeftBehind
      <4>1. Servers[k] \in Server
        BY <2>a, ServersLemma
      <4> QED BY <4>1, <2>b DEF DrainInv, LeftBehind
    <3> QED BY <3>1, <3>2
  <2>1. CASE Cancel
    <3>1. Waiting'
      BY <2>1 DEF Cancel, DrainInv, Waiting
    <3> QED BY <2>1, <2>b, <3>1 DEF Cancel, DrainInv, Busy
  <2>2. ASSUME NEW s \in Server, Listen(s)
        PROVE  DrainInv'
    <3>1. Waiting'
      BY <2>2 DEF Listen, DrainInv, Waiting
    <3> QED BY <2>2, <2>b, <3>1 DEF Listen, DrainInv, Busy
  <2>3. ASSUME NEW s \in Server, ListenerFails(s) \/ ListenerCloses(s)
        PROVE  DrainInv'
    <3>1. Waiting'
      <4> SUFFICES ASSUME run.pc = "select"
                   PROVE  Waiting'
        BY <2>3 DEF ListenerFails, ListenerCloses, Send, Waiting
      <4>1. ListenerFails(s)
        BY <2>3 DEF ListenerCloses, DrainInv, Waiting
      <4>2. errCh' = Append(errCh, "failure") /\ errCh \in Seq(Errors)
        BY <4>1 DEF ListenerFails, Send, RunTypeOK
      <4>3. \A k \in 1..Len(errCh') : errCh'[k] = "failure"
        BY <4>2 DEF DrainInv, Waiting
      <4> QED BY <4>1, <4>3 DEF ListenerFails, Send, DrainInv, Waiting
    <3> QED BY <2>3, <2>b, <3>1 DEF ListenerFails, ListenerCloses, Send, DrainInv, Busy
  <2>4. ASSUME NEW s \in Server, NEW r \in Requests, Accept(s, r)
        PROVE  DrainInv'
    <3>1. Waiting'
      BY <2>4 DEF Accept, DrainInv, Waiting
    <3>2. \A t \in Server : inShutdown[t] /\ Busy(t)' => Busy(t)
      BY <2>4 DEF Accept, Busy, RunTypeOK
    <3> QED BY <2>4, <2>b, <3>1, <3>2 DEF Accept, DrainInv
  <2>5. ASSUME NEW r \in Requests, Hijack(r) \/ Answer(r)
        PROVE  DrainInv'
    <3>1. Waiting'
      BY <2>5 DEF Hijack, Answer, DrainInv, Waiting
    <3>2. conn'[r].state # "busy" /\ \A q \in Requests : q # r => conn'[q] = conn[q]
      <4>1. conn[r] \in ConnType /\ conn \in [Requests -> ConnType]
        BY DEF RunTypeOK
      <4> QED BY <2>5, <4>1 DEF Hijack, Answer, NoConn, ConnType
    <3>3. \A t \in Server : Busy(t)' => Busy(t)
      BY <3>2 DEF Busy
    <3> QED BY <2>5, <2>b, <3>1, <3>3 DEF Hijack, Answer, DrainInv
  <2>6. CASE StopOnContext
    <3>1. run'.pc = "drain" /\ \A f \in {"at", "err", "shutdownErr", "result"} : run'[f] = run[f]
      BY <2>6, <2>a DEF StopOnContext, RunType
    <3> QED BY <2>6, <3>1 DEF StopOnContext, DrainInv, Waiting, StoppedFor, LeftBehind, Outcome, Busy
  <2>7. CASE StopOnError
    <3>1. /\ run.pc = "select" /\ run'.pc = "drain" /\ run'.err = Head(errCh)
          /\ run'.at = run.at /\ run'.shutdownErr = run.shutdownErr /\ run'.result = run.result
      BY <2>7, <2>a DEF StopOnError, RunType
    <3>2. Head(errCh) = "failure"
      BY <2>7, <3>1 DEF StopOnError, DrainInv, Waiting, RunTypeOK
    <3> QED BY <2>7, <3>1, <3>2 DEF StopOnError, DrainInv, Waiting, StoppedFor, LeftBehind, Outcome, Busy
  <2>8. CASE Shutdown
    <3>1. \A s \in Server : inShutdown[s] => inShutdown'[s]
      BY <2>8 DEF Shutdown, RunTypeOK
    <3>2. Waiting'
      BY <2>8 DEF Shutdown, Draining, Waiting
    <3> QED BY <2>8, <2>b, <3>1, <3>2 DEF Shutdown, DrainInv, Busy
  <2>9. CASE Drained \/ DrainTimesOut
    <3>1. /\ run.pc = "drain" /\ run'.pc = "drain" /\ run'.at = run.at + 1
          /\ run'.err = run.err /\ run'.result = run.result
          /\ \/ run'.shutdownErr = run.shutdownErr /\ ~Busy(Servers[run.at])
             \/ run'.shutdownErr = "deadline"
          /\ inShutdown[Servers[run.at]]
          /\ UNCHANGED <<ctx, inShutdown, conn>>
      BY <2>9, <2>a DEF Drained, DrainTimesOut, Draining, RunType
    <3>2. Waiting' /\ StoppedFor' /\ Outcome'
      BY <3>1 DEF DrainInv, Waiting, StoppedFor, Outcome
    <3>3. LeftBehind'
      <4> SUFFICES ASSUME NEW k \in 1..(run'.at - 1)
                   PROVE  inShutdown[Servers[k]] /\ (run'.shutdownErr = "nil" => ~Busy(Servers[k]))
        BY <3>1 DEF LeftBehind, Busy
      <4>1. k \in 1..(run.at - 1) \/ k = run.at
        BY <3>1, <2>a, ServersLemma
      <4> QED BY <4>1, <3>1 DEF DrainInv, LeftBehind
    <3> QED BY <3>2, <3>3 DEF DrainInv
  <2>10. CASE Return
    <3>1. /\ run.pc = "drain" /\ run.at > Len(Servers) /\ run'.pc = "done"
          /\ run'.at = run.at /\ run'.err = run.err /\ run'.shutdownErr = run.shutdownErr
          /\ run'.result = IF run.err = "nil" THEN run.shutdownErr ELSE run.err
          /\ UNCHANGED <<ctx, inShutdown, conn>>
      BY <2>10, <2>a DEF Return, RunType
    <3>2. run.at = Len(Servers) + 1
      BY <3>1, <2>a, ServersLemma
    <3> QED BY <3>1, <3>2 DEF DrainInv, Waiting, StoppedFor, LeftBehind, Outcome, Busy
  <2>11. CASE Tick
    <3>1. run.pc = "drain" /\ \A f \in {"pc", "at", "err", "shutdownErr", "result"} : run'[f] = run[f]
      BY <2>11, <2>a DEF Tick, Draining, RunType
    <3> QED BY <2>11, <3>1 DEF Tick, DrainInv, Waiting, StoppedFor, LeftBehind, Outcome, Busy
  <2>12. CASE UNCHANGED runVars
    BY <2>12 DEF runVars, DrainInv, Waiting, StoppedFor, LeftBehind, Outcome, Busy
  <2> QED
    BY <2>1, <2>2, <2>3, <2>4, <2>5, <2>6, <2>7, <2>8, <2>9, <2>10, <2>11, <2>12
    DEF RunNext, Main, Exited
<1> QED BY <1>1, <1>2, RunTyping, PTL DEF Safety

\* Run returns nil only after a signal, and with no request left on a connection
\* that one of the servers still had.
THEOREM NilAfterDrain == RunSpec => []NilMeansDrained
<1>1. RunTypeOK /\ DrainInv => NilMeansDrained
  <2> SUFFICES ASSUME RunTypeOK, DrainInv, run.result = "nil"
               PROVE  ctx /\ \A s \in Server : ~Busy(s)
    BY DEF NilMeansDrained
  <2>1. run.pc = "done" /\ run.err = "nil" /\ run.shutdownErr = "nil" /\ run.at = Len(Servers) + 1
    BY DEF RunTypeOK, RunType, Errors, DrainInv, Outcome
  <2>2. ctx
    BY <2>1 DEF DrainInv, StoppedFor
  <2>3. \A k \in 1..Len(Servers) : ~Busy(Servers[k])
    <3>1. run.at - 1 = Len(Servers)
      BY <2>1, ServersLemma
    <3> QED BY <2>1, <3>1 DEF DrainInv, LeftBehind
  <2> QED BY <2>2, <2>3, ServersLemma
<1> QED BY <1>1, RunTyping, DrainInvInductive, PTL DEF RunSpec

\* Run never returns the ErrServerClosed that its own shutdown makes the
\* listeners send, and without a signal it returns the failure of a listener.
THEOREM CauseSurvivesDrain == RunSpec => []CauseIsReported
<1>1. RunTypeOK /\ DrainInv => CauseIsReported
  BY DEF RunTypeOK, RunType, Errors, DrainInv, StoppedFor, Outcome, CauseIsReported
<1> QED BY <1>1, RunTyping, DrainInvInductive, PTL DEF RunSpec

\* The goroutines of the listeners never wait for room on errCh: as long as one
\* has not sent, there is some, though nobody receives after the select.
RoomToSend ==
    /\ \A s \in Server : serve[s] # "ended" => Len(errCh) < ErrChCapacity
    /\ (\A s \in Server : serve[s] # "ended") => errCh = <<>>

THEOREM ListenersNeverBlock == RunSpec => []RoomToSend
<1>1. RunInit => RoomToSend
  BY DEF RunInit, RoomToSend, ErrChCapacity
<1>2. RunTypeOK /\ RoomToSend /\ [RunNext]_runVars => RoomToSend'
  <2> SUFFICES ASSUME RunTypeOK, RoomToSend, [RunNext]_runVars
               PROVE  RoomToSend'
    OBVIOUS
  <2>1. ASSUME NEW s \in Server, ListenerFails(s) \/ ListenerCloses(s)
        PROVE  RoomToSend'
    <3>1. /\ serve' = [serve EXCEPT ![s] = "ended"] /\ serve[s] # "ended"
          /\ Len(errCh') = Len(errCh) + 1
      BY <2>1 DEF ListenerFails, ListenerCloses, Send, RunTypeOK
    <3>2. serve'[s] = "ended"
      BY <3>1 DEF RunTypeOK
    <3>3. ASSUME NEW t \in Server, serve'[t] # "ended"
          PROVE  Len(errCh') < ErrChCapacity
      <4>1. t # s /\ serve[t] # "ended"
        BY <3>1, <3>2, <3>3 DEF RunTypeOK
      <4>2. \A u \in Server : u = s \/ u = t
        BY <4>1, ServersLemma
      <4>3. errCh = <<>>
        BY <3>1, <4>1, <4>2 DEF RoomToSend
      <4> QED BY <3>1, <4>3 DEF ErrChCapacity
    <3> QED BY <3>2, <3>3 DEF RoomToSend
  <2>2. CASE StopOnError
    <3>1. errCh # <<>> /\ Len(errCh') = Len(errCh) - 1 /\ serve' = serve
      BY <2>2 DEF StopOnError, RunTypeOK
    <3> QED BY <3>1 DEF RoomToSend, RunTypeOK, ErrChCapacity
  <2>3. ASSUME NEW s \in Server, Listen(s)
        PROVE  RoomToSend'
    <3>1. errCh' = errCh /\ \A t \in Server : serve'[t] # "ended" <=> serve[t] # "ended"
      BY <2>3 DEF Listen, RunTypeOK
    <3> QED BY <3>1 DEF RoomToSend
  <2>4. CASE UNCHANGED <<serve, errCh>>
    BY <2>4 DEF RoomToSend
  <2>5. \/ \E s \in Server : ListenerFails(s) \/ ListenerCloses(s) \/ Listen(s)
        \/ StopOnError
        \/ UNCHANGED <<serve, errCh>>
    BY DEF RunNext, Main, Cancel, Accept, Hijack, Answer, StopOnContext, Shutdown, Drained,
           DrainTimesOut, Return, Tick, Exited, runVars
  <2> QED BY <2>1, <2>2, <2>3, <2>4, <2>5
<1> QED BY <1>1, <1>2, RunTyping, PTL DEF Safety, RunSpec
=============================================================================
