--------------------------- MODULE SelectorProofs ---------------------------
(***************************************************************************)
(* What MCSelector checks with three pools and six kinds of request, proved *)
(* for every configuration that validates, every catalog, every number of   *)
(* callers and every list of requests.                                      *)
(***************************************************************************)
EXTENDS SelectorHistory, SetLemmas

Indices(matches, k) == {j \in 1..k : Pools[j].id \in matches}

LEMMA PoolsLemma ==
    /\ MaxInt \in Nat
    /\ Len(Pools) \in Nat
    /\ DOMAIN Pools = 1..Len(Pools)
    /\ \A k \in DOMAIN Pools : /\ Pools[k].weight \in Nat
                               /\ Pools[k].weight >= 1
                               /\ Pools[k].weight <= MaxInt
                               /\ Pools[k].id \in PoolIds
                               /\ PoolOf(Pools[k].id) = Pools[k]
    /\ \A k, l \in DOMAIN Pools : Pools[k].id = Pools[l].id => k = l
    /\ \A id \in PoolIds : \E k \in DOMAIN Pools : id = Pools[k].id
<1>1. MaxInt \in Nat /\ Len(Pools) \in Nat /\ DOMAIN Pools = 1..Len(Pools)
  BY PoolsAssumption
<1>2. ASSUME NEW k \in DOMAIN Pools
      PROVE  /\ Pools[k].weight \in Nat
             /\ Pools[k].weight >= 1
             /\ Pools[k].weight <= MaxInt
  <2>1. Pools[k].weight \in 1..MaxInt
    BY PoolsAssumption
  <2> QED BY <2>1, <1>1
<1>3. ASSUME NEW k \in DOMAIN Pools
      PROVE  PoolOf(Pools[k].id) = Pools[k]
  BY PoolsAssumption DEF PoolOf
<1> QED BY <1>1, <1>2, <1>3, PoolsAssumption DEF PoolIds

-----------------------------------------------------------------------------
\* The draw.

\* Each pool that matches adds its weight to the running sum, each other pool
\* adds nothing.
LEMMA WeightStep ==
    ASSUME NEW matches
    PROVE  /\ WeightUpTo(matches, 0) = 0
           /\ \A k \in DOMAIN Pools :
                /\ WeightUpTo(matches, k) \in Nat
                /\ WeightUpTo(matches, k - 1) \in Nat
                /\ WeightUpTo(matches, k) =
                     WeightUpTo(matches, k - 1) +
                       (IF Pools[k].id \in matches THEN Pools[k].weight ELSE 0)
<1> DEFINE weights == [j \in DOMAIN Pools |-> Pools[j].weight]
<1>1. ASSUME NEW k \in 0..Len(Pools)
      PROVE  /\ IsFiniteSet(Indices(matches, k))
             /\ \A j \in Indices(matches, k) : weights[j] \in Nat
             /\ WeightUpTo(matches, k) = SumFunctionOnSet(weights, Indices(matches, k))
  <2>1. IsFiniteSet(1..k) /\ Indices(matches, k) \in SUBSET (1..k)
    BY PoolsLemma, FS_Interval DEF Indices
  <2>2. IsFiniteSet(Indices(matches, k))
    BY <2>1, FS_Subset
  <2>3. \A j \in Indices(matches, k) : weights[j] \in Nat
    BY PoolsLemma DEF Indices
  <2> QED BY <2>2, <2>3 DEF WeightUpTo, Indices
<1> HIDE DEF weights
<1>2. ASSUME NEW k \in 0..Len(Pools)
      PROVE  WeightUpTo(matches, k) \in Nat
  BY <1>1, SumStep
<1>3. WeightUpTo(matches, 0) = 0
  <2>1. Indices(matches, 0) = {}
    BY DEF Indices
  <2>2. 0 \in 0..Len(Pools)
    BY PoolsLemma
  <2> QED BY <2>1, <2>2, <1>1, SumStep
<1>4. ASSUME NEW k \in DOMAIN Pools
      PROVE  WeightUpTo(matches, k) =
               WeightUpTo(matches, k - 1) +
                 (IF Pools[k].id \in matches THEN Pools[k].weight ELSE 0)
  <2>1. k \in 1..Len(Pools) /\ k \in 0..Len(Pools) /\ k - 1 \in 0..Len(Pools)
    BY PoolsLemma
  <2>2. CASE Pools[k].id \in matches
    <3>1. k \in Indices(matches, k) /\ Indices(matches, k - 1) = Indices(matches, k) \ {k}
      BY <2>1, <2>2 DEF Indices
    <3>2. weights[k] = Pools[k].weight
      BY DEF weights
    <3>3. SumFunctionOnSet(weights, Indices(matches, k)) =
            weights[k] + SumFunctionOnSet(weights, Indices(matches, k - 1))
      <4>1. \A x \in Indices(matches, k) :
              SumFunctionOnSet(weights, Indices(matches, k)) =
                weights[x] + SumFunctionOnSet(weights, Indices(matches, k) \ {x})
        BY <2>1, <1>1, SumStep
      <4> QED BY <4>1, <3>1
    <3> QED BY <3>2, <3>3, <2>1, <2>2, <1>1, <1>2, PoolsLemma
  <2>3. CASE Pools[k].id \notin matches
    <3>1. Indices(matches, k - 1) = Indices(matches, k)
      BY <2>1, <2>3 DEF Indices
    <3> QED BY <3>1, <2>1, <2>3, <1>1, <1>2
  <2> QED BY <2>2, <2>3
<1>5. \A k \in DOMAIN Pools : k \in 0..Len(Pools) /\ k - 1 \in 0..Len(Pools)
  BY PoolsLemma
<1> QED BY <1>2, <1>3, <1>4, <1>5

\* The running sum never falls.
LEMMA WeightGrows ==
    ASSUME NEW matches, NEW k \in 0..Len(Pools), NEW l \in 0..Len(Pools), k <= l
    PROVE  /\ WeightUpTo(matches, k) \in Nat
           /\ WeightUpTo(matches, k) <= WeightUpTo(matches, l)
<1> DEFINE W(j) == WeightUpTo(matches, j)
           Good == {n \in Nat : k + n <= Len(Pools) => W(k) <= W(k + n)}
<1>1. ASSUME NEW j \in 0..Len(Pools)
      PROVE  W(j) \in Nat
  <2>1. CASE j = 0
    BY <2>1, WeightStep
  <2>2. CASE j # 0
    <3>1. j \in DOMAIN Pools
      BY <2>2, PoolsLemma
    <3> QED BY <3>1, WeightStep
  <2> QED BY <2>1, <2>2
<1>2. ASSUME NEW n \in Nat, n \in Good
      PROVE  n + 1 \in Good
  <2> SUFFICES ASSUME k + (n + 1) <= Len(Pools)
               PROVE  W(k) <= W(k + (n + 1))
    OBVIOUS
  <2>1. k + n \in 0..Len(Pools) /\ k + (n + 1) \in DOMAIN Pools
    BY PoolsLemma
  <2>2. (k + (n + 1)) - 1 = k + n
    BY PoolsLemma
  <2>3. ASSUME NEW j \in DOMAIN Pools
        PROVE  W(j - 1) <= W(j)
    <3>1. /\ W(j - 1) \in Nat
          /\ W(j) = W(j - 1) + (IF Pools[j].id \in matches THEN Pools[j].weight ELSE 0)
      BY WeightStep
    <3>2. Pools[j].weight \in Nat
      BY PoolsLemma
    <3> HIDE DEF W
    <3> QED BY <3>1, <3>2
  <2>4. W(k) \in Nat /\ W(k + n) \in Nat /\ W(k + (n + 1)) \in Nat
    BY <2>1, <1>1, PoolsLemma
  <2>5. W(k) <= W(k + n)
    BY <2>1, <1>2, PoolsLemma
  <2>6. W(k + n) <= W(k + (n + 1))
    BY <2>1, <2>2, <2>3
  <2> HIDE DEF W
  <2> QED BY <2>4, <2>5, <2>6
<1>3. 0 \in Good
  <2>1. k + 0 = k /\ W(k) \in Nat
    BY <1>1, PoolsLemma
  <2> QED BY <2>1
<1>4. l - k \in Good
  <2>1. l - k \in Nat
    BY PoolsLemma
  <2> HIDE DEF Good
  <2> QED BY <2>1, <1>2, <1>3, NatSetInduction
<1>5. k + (l - k) = l /\ l <= Len(Pools)
  BY PoolsLemma
<1> QED BY <1>1, <1>4, <1>5

\* An int that does not overflow is the number it stands for; one that does
\* wraps to something smaller.
LEMMA TotalLemma ==
    ASSUME NEW matches
    PROVE  /\ Weight(matches) \in Nat
           /\ Total(matches) \in Int
           /\ Total(matches) <= Weight(matches)
           /\ Weight(matches) <= MaxInt => Total(matches) = Weight(matches)
<1>1. Weight(matches) \in Nat
  <2>1. Len(Pools) \in 0..Len(Pools)
    BY PoolsLemma
  <2> QED BY <2>1, WeightGrows DEF Weight
<1>2. \A a \in Nat : \A b \in Nat \ {0} : a % b \in Nat /\ a % b <= a /\ (a < b => a % b = a)
  OBVIOUS
<1>3. /\ Weight(matches) + MaxInt + 1 \in Nat
      /\ 2 * (MaxInt + 1) \in Nat \ {0}
      /\ Weight(matches) <= MaxInt => Weight(matches) + MaxInt + 1 < 2 * (MaxInt + 1)
  BY <1>1, PoolsLemma
<1> DEFINE a == Weight(matches) + MaxInt + 1
           b == 2 * (MaxInt + 1)
<1>4. a % b \in Nat /\ a % b <= a /\ (a < b => a % b = a)
  <2> HIDE DEF a, b
  <2>1. a \in Nat /\ b \in Nat \ {0}
    BY <1>3 DEF a, b
  <2> QED BY <2>1, <1>2
<1>5. Total(matches) = (a % b) - (MaxInt + 1)
  BY DEF Total
<1> DEFINE c == a % b
<1>6. c \in Nat /\ c <= a /\ (a < b => c = a) /\ Total(matches) = c - (MaxInt + 1)
  BY <1>4, <1>5
<1> HIDE DEF c
<1> QED BY <1>1, <1>3, <1>6, PoolsLemma

\* A ticket falls into the share of exactly one match.
LEMMA ShareLemma ==
    ASSUME NEW matches, NEW pick \in Nat, pick < Weight(matches)
    PROVE  \E k \in DOMAIN Pools : /\ Pools[k].id \in matches
                                   /\ WeightUpTo(matches, k - 1) <= pick
                                   /\ pick < WeightUpTo(matches, k)
                                   /\ Drawn(matches, pick) = Pools[k].id
<1> DEFINE W(j) == WeightUpTo(matches, j)
           Used == {j \in DOMAIN Pools : pick < W(j)}
           k == Min(Used)
<1>1. Len(Pools) \in Used
  <2>1. W(0) = 0 /\ pick < W(Len(Pools))
    BY WeightStep DEF Weight
  <2>2. Len(Pools) # 0
    BY <2>1
  <2> QED BY <2>1, <2>2, PoolsLemma
<1>2. k \in Used /\ \A j \in Used : k <= j
  <2>1. Used \in SUBSET Nat /\ Used # {}
    BY <1>1, PoolsLemma
  <2> HIDE DEF Used
  <2> QED BY <2>1, MinLemma
<1> HIDE DEF k
<1>3. k \in DOMAIN Pools /\ pick < W(k)
  BY <1>2
<1>4. W(k - 1) <= pick
  <2>1. CASE k = 1
    <3>1. W(0) = 0
      BY WeightStep
    <3> QED BY <2>1, <3>1
  <2>2. CASE k # 1
    <3>1. k - 1 \in DOMAIN Pools /\ k - 1 < k /\ k - 1 \in Nat
      BY <1>3, <2>2, PoolsLemma
    <3>2. k - 1 \notin Used
      <4> SUFFICES ASSUME k - 1 \in Used PROVE FALSE
        OBVIOUS
      <4>1. k <= k - 1 /\ k \in Nat
        BY <1>2, <1>3, PoolsLemma
      <4> QED BY <4>1
    <3>3. W(k - 1) \in Nat
      BY <1>3, WeightStep
    <3>4. ~(pick < W(k - 1))
      BY <3>1, <3>2
    <3> HIDE DEF W
    <3> QED BY <3>3, <3>4
  <2> QED BY <2>1, <2>2
<1>5. Pools[k].id \in matches
  <2>1. W(k - 1) \in Nat
        /\ W(k) = W(k - 1) + (IF Pools[k].id \in matches THEN Pools[k].weight ELSE 0)
    BY <1>3, WeightStep
  <2> HIDE DEF W
  <2> QED BY <1>3, <1>4, <2>1
<1> DEFINE Shares == {j \in DOMAIN Pools : Pools[j].id \in matches /\ pick < W(j)}
<1>6. Min(Shares) = k
  <2>1. k \in Shares /\ \A j \in Shares : k <= j
    BY <1>2, <1>3, <1>5
  <2>2. Shares \in SUBSET Nat
    BY PoolsLemma
  <2> HIDE DEF Shares
  <2>3. Min(Shares) \in Shares /\ \A j \in Shares : Min(Shares) <= j
    BY <2>1, <2>2, MinLemma
  <2> DEFINE m == Min(Shares)
  <2>4. m \in Nat /\ k \in Nat /\ m <= k /\ k <= m
    BY <2>1, <2>2, <2>3
  <2> HIDE DEF m
  <2>5. m = k
    BY <2>4
  <2> QED BY <2>5 DEF m
<1>7. Drawn(matches, pick) = Pools[k].id
  BY <1>6 DEF Drawn
<1> QED BY <1>3, <1>4, <1>5, <1>7

\* The tickets of a match are those between what was used up before it and
\* what is used up with it: as many as its weight.
LEMMA TicketsLemma ==
    ASSUME NEW matches \in SUBSET PoolIds, NEW id \in matches,
           Weight(matches) <= MaxInt
    PROVE  Cardinality({t \in 0..Total(matches) - 1 : Drawn(matches, t) = id})
             = PoolOf(id).weight
<1> DEFINE W(j) == WeightUpTo(matches, j)
<1>1. PICK k \in DOMAIN Pools : id = Pools[k].id
  BY PoolsLemma
<1>2. /\ W(k - 1) \in Nat /\ W(k) \in Nat
      /\ W(k) = W(k - 1) + Pools[k].weight
      /\ Pools[k].weight \in Nat /\ Pools[k].weight >= 1
  BY <1>1, WeightStep, PoolsLemma
<1>3. Total(matches) = Weight(matches) /\ Weight(matches) \in Nat
  BY TotalLemma
<1>4. W(k) <= Weight(matches)
  <2>1. k \in 0..Len(Pools) /\ Len(Pools) \in 0..Len(Pools) /\ k <= Len(Pools)
    BY PoolsLemma
  <2> QED BY <2>1, WeightGrows DEF Weight
<1>5. ASSUME NEW t \in 0..Weight(matches) - 1
      PROVE  Drawn(matches, t) = id <=> t \in W(k - 1)..W(k) - 1
  <2>1. t \in Nat /\ t < Weight(matches)
    BY <1>3
  <2>2. PICK l \in DOMAIN Pools : /\ W(l - 1) <= t
                                  /\ t < W(l)
                                  /\ Drawn(matches, t) = Pools[l].id
    BY <2>1, ShareLemma
  <2>3. /\ W(l - 1) \in Nat /\ W(l) \in Nat
        /\ l < k => W(l) <= W(k - 1)
        /\ k < l => W(k) <= W(l - 1)
    <3>1. /\ l \in 0..Len(Pools) /\ k \in 0..Len(Pools)
          /\ l - 1 \in 0..Len(Pools) /\ k - 1 \in 0..Len(Pools)
          /\ l < k => l <= k - 1
          /\ k < l => k <= l - 1
      BY PoolsLemma
    <3> QED BY <3>1, WeightGrows
  <2>4. Pools[l].id = id <=> l = k
    BY <1>1, PoolsLemma
  <2>5. l \in Nat /\ k \in Nat
    BY PoolsLemma
  <2> HIDE DEF W
  <2>6. l = k <=> t \in W(k - 1)..W(k) - 1
    <3>1. CASE l = k
      BY <3>1, <2>1, <2>2, <1>2
    <3>2. CASE l < k
      BY <3>2, <2>1, <2>2, <2>3, <2>5, <1>2
    <3>3. CASE l > k
      BY <3>3, <2>1, <2>2, <2>3, <2>5, <1>2
    <3> QED BY <3>1, <3>2, <3>3, <2>5
  <2> QED BY <2>2, <2>4, <2>6
<1>6. {t \in 0..Total(matches) - 1 : Drawn(matches, t) = id} = W(k - 1)..W(k) - 1
  <2> HIDE DEF W
  <2>1. W(k - 1)..W(k) - 1 \subseteq 0..Weight(matches) - 1
    BY <1>2, <1>3, <1>4
  <2> QED BY <1>3, <1>5, <2>1
<1>7. Cardinality(W(k - 1)..W(k) - 1) = Pools[k].weight
  <2> HIDE DEF W
  <2> DEFINE a == W(k - 1)
             b == W(k) - 1
  <2>1. a \in Int /\ b \in Int /\ ~(a > b) /\ b - a + 1 = Pools[k].weight
    BY <1>2
  <2>2. Cardinality(a..b) = b - a + 1
    <3> HIDE DEF a, b
    <3> QED BY <2>1, FS_Interval
  <2> QED BY <2>1, <2>2
<1> QED BY <1>1, <1>6, <1>7, PoolsLemma

-----------------------------------------------------------------------------
\* One call, whatever the others do.

Legal(s) ==
    /\ s \in CallType
    /\ s.pc # "idle" => s.requests \in RequestLists /\ s.i \in DOMAIN s.requests
    /\ s.pc = "panicked" => Weight(s.matches) > MaxInt
    /\ s.pc = "done" => s.chosen \in PoolIds

SelectorInv ==
    /\ avail \in SUBSET PoolIds
    /\ call \in [Caller -> CallType]
    /\ \A c \in Caller : Legal(call[c])

LEMMA IdleLegal == Legal(Idle)
  BY DEF Legal, CallType, Idle

LEMMA SelectFailedLegal ==
    ASSUME NEW s, Legal(s), s.pc # "idle"
    PROVE  Legal(SelectFailed(s))
<1>1. s.requests \in Seq(Range(s.requests)) /\ s.i \in DOMAIN s.requests
  BY RequestsAssumption DEF Legal
<1>2. CASE s.i < Len(s.requests)
  <2> DEFINE t == [s EXCEPT !.i = @ + 1, !.pc = "catalog", !.regionAware = TRUE]
  <2>1. SelectFailed(s) = t
    BY <1>2 DEF SelectFailed
  <2>2. s.i + 1 \in DOMAIN s.requests /\ s.i + 1 \in Nat
    BY <1>1, <1>2
  <2>3. t \in CallType
    BY <2>2 DEF Legal, CallType
  <2>4. t.pc = "catalog" /\ t.requests = s.requests /\ t.i = s.i + 1
    BY DEF Legal, CallType
  <2> HIDE DEF t
  <2> QED BY <2>1, <2>2, <2>3, <2>4 DEF Legal
<1>3. CASE ~(s.i < Len(s.requests))
  BY <1>3 DEF SelectFailed, Legal, CallType
<1> QED BY <1>2, <1>3

LEMMA SelectorInvInductive == SelectorInv /\ [Next]_vars => SelectorInv'
<1> SUFFICES ASSUME SelectorInv, [Next]_vars
             PROVE  SelectorInv'
  OBVIOUS
<1>a. avail \in SUBSET PoolIds /\ call \in [Caller -> CallType]
  BY DEF SelectorInv
<1>b. ASSUME NEW c \in Caller, NEW s, Legal(s),
             call' = [call EXCEPT ![c] = s], avail' = avail
      PROVE  SelectorInv'
  <2>1. s \in CallType
    BY <1>b DEF Legal
  <2>2. call' \in [Caller -> CallType]
    BY <1>a, <1>b, <2>1
  <2>3. \A d \in Caller : call'[d] = s \/ call'[d] = call[d]
    BY <1>a, <1>b
  <2>4. \A d \in Caller : Legal(call'[d])
    BY <1>b, <2>3 DEF SelectorInv
  <2>5. \A d \in Caller : Legal(call[d])'
    BY <2>4 DEF Legal, CallType
  <2> QED BY <1>a, <1>b, <2>2, <2>5 DEF SelectorInv
<1>c. ASSUME NEW c \in Caller
      PROVE  /\ call[c] \in CallType
             /\ Legal(call[c])
  BY <1>a DEF SelectorInv
<1>d. 1 \in Nat \ {0}
  OBVIOUS
<1>1. ASSUME NEW c \in Caller, NEW rs \in RequestLists, Begin(c, rs), avail' = avail
      PROVE  SelectorInv'
  <2> DEFINE s == [Idle EXCEPT !.pc = "catalog", !.requests = rs]
  <2>1. 1 \in DOMAIN rs
    BY RequestsAssumption
  <2>2. Legal(s)
    <3>1. s \in CallType
      BY <1>d DEF CallType, Idle
    <3>2. s.pc = "catalog" /\ s.requests = rs /\ s.i = 1
      BY DEF Idle
    <3> HIDE DEF s
    <3> QED BY <2>1, <3>1, <3>2 DEF Legal
  <2>3. call' = [call EXCEPT ![c] = s]
    BY <1>1 DEF Begin
  <2> HIDE DEF s
  <2> QED BY <2>2, <2>3, <1>1, <1>b
<1>2. ASSUME NEW c \in Caller, CheckCatalog(c), avail' = avail
      PROVE  SelectorInv'
  <2> DEFINE s == [call[c] EXCEPT !.pc = "scan", !.regionAware = TRUE, !.at = 1,
                                  !.matches = {}]
  <2>1. Legal(s)
    BY <1>2, <1>c, <1>d DEF Legal, CallType, CheckCatalog
  <2>2. Legal(SelectFailed(call[c]))
    BY <1>2, <1>c, SelectFailedLegal DEF CheckCatalog
  <2>3. \/ call' = [call EXCEPT ![c] = s]
        \/ call' = [call EXCEPT ![c] = SelectFailed(call[c])]
    BY <1>2 DEF CheckCatalog
  <2> HIDE DEF s
  <2> QED BY <2>1, <2>2, <2>3, <1>2, <1>b
<1>3. ASSUME NEW c \in Caller, ScanPool(c), avail' = avail
      PROVE  SelectorInv'
  <2>1. PICK matches \in SUBSET PoolIds :
          call' = [call EXCEPT ![c].at = @ + 1, ![c].matches = matches]
    <3> DEFINE pool == Pools[call[c].at]
               new == IF /\ ~OutOfRegion(pool, call[c], Request(c))
                         /\ pool.id \in avail
                         /\ PoolServes(pool, Request(c))
                      THEN call[c].matches \cup {pool.id} ELSE call[c].matches
    <3>1. new \in SUBSET PoolIds
      BY <1>a, <1>c DEF CallType
    <3>2. call' = [call EXCEPT ![c].at = @ + 1, ![c].matches = new]
      BY <1>3 DEF ScanPool
    <3> HIDE DEF new
    <3> QED BY <3>1, <3>2
  <2> DEFINE s == [call[c] EXCEPT !.at = @ + 1, !.matches = matches]
  <2>2. call[c].at + 1 \in Nat \ {0} /\ call[c].pc = "scan"
    BY <1>3, <1>c DEF CallType, ScanPool
  <2>3. Legal(s)
    BY <2>2, <1>c DEF Legal, CallType
  <2>4. call' = [call EXCEPT ![c] = s]
    BY <2>1
  <2> HIDE DEF s
  <2> QED BY <2>3, <2>4, <1>3, <1>b
<1>4. ASSUME NEW c \in Caller, Widen(c), avail' = avail
      PROVE  SelectorInv'
  <2> DEFINE s == [call[c] EXCEPT !.regionAware = FALSE, !.at = 1]
  <2>1. Legal(s)
    BY <1>4, <1>c, <1>d DEF Legal, CallType, Widen, Scanned
  <2>2. call' = [call EXCEPT ![c] = s]
    BY <1>4 DEF Widen
  <2> HIDE DEF s
  <2> QED BY <2>1, <2>2, <1>4, <1>b
<1>5. ASSUME NEW c \in Caller, NoMatch(c), avail' = avail
      PROVE  SelectorInv'
  <2>1. Legal(SelectFailed(call[c]))
    BY <1>5, <1>c, SelectFailedLegal DEF NoMatch, Scanned
  <2> QED BY <2>1, <1>5, <1>b DEF NoMatch
<1>6. ASSUME NEW c \in Caller, Pick(c), avail' = avail
      PROVE  SelectorInv'
  <2>1. PICK pick \in 0..Total(call[c].matches) - 1 :
          call' = [call EXCEPT ![c].pc = "done",
                               ![c].chosen = Drawn(call[c].matches, pick)]
    BY <1>6 DEF Pick
  <2>2. pick \in Nat /\ pick < Weight(call[c].matches)
    BY TotalLemma
  <2>3. Drawn(call[c].matches, pick) \in PoolIds
    BY <2>2, ShareLemma, PoolsLemma
  <2> DEFINE id == Drawn(call[c].matches, pick)
             s == [call[c] EXCEPT !.pc = "done", !.chosen = id]
  <2>4. call' = [call EXCEPT ![c] = s]
    BY <2>1
  <2> HIDE DEF id
  <2>5. id \in PoolIds /\ call[c].pc = "scan"
    BY <2>3, <1>6 DEF id, Pick, Matched, Scanned
  <2>6. Legal(s)
    BY <2>5, <1>c DEF Legal, CallType
  <2> HIDE DEF s
  <2> QED BY <2>4, <2>6, <1>6, <1>b
<1>7. ASSUME NEW c \in Caller, Panic(c), avail' = avail
      PROVE  SelectorInv'
  <2> DEFINE m == call[c].matches
             s == [call[c] EXCEPT !.pc = "panicked"]
  <2>1. m \in SUBSET PoolIds /\ m # {} /\ Total(m) <= 0 /\ call[c].pc = "scan"
    BY <1>7, <1>c DEF Panic, Matched, Scanned, CallType
  <2>2. Weight(m) > MaxInt
    <3>1. PICK k \in DOMAIN Pools : Pools[k].id \in m
      BY <2>1, PoolsLemma
    <3>2. WeightUpTo(m, k) >= 1 /\ WeightUpTo(m, k) \in Nat
      <4>1. /\ WeightUpTo(m, k - 1) \in Nat
            /\ WeightUpTo(m, k) = WeightUpTo(m, k - 1) + Pools[k].weight
        BY <3>1, WeightStep
      <4> QED BY <4>1, PoolsLemma
    <3>3. WeightUpTo(m, k) <= Weight(m)
      <4>1. k \in 0..Len(Pools) /\ Len(Pools) \in 0..Len(Pools) /\ k <= Len(Pools)
        BY PoolsLemma
      <4> QED BY <4>1, WeightGrows DEF Weight
    <3>4. /\ Weight(m) \in Nat /\ Total(m) \in Int
          /\ Weight(m) <= MaxInt => Total(m) = Weight(m)
      BY TotalLemma
    <3> HIDE DEF m
    <3> QED BY <3>2, <3>3, <3>4, <2>1, PoolsLemma
  <2>3. Legal(s)
    BY <2>1, <2>2, <1>c DEF Legal, CallType
  <2>4. call' = [call EXCEPT ![c] = s]
    BY <1>7 DEF Panic
  <2> HIDE DEF s
  <2> QED BY <2>3, <2>4, <1>7, <1>b
<1>8. ASSUME NEW c \in Caller, Return(c), avail' = avail
      PROVE  SelectorInv'
  BY <1>8, <1>b, IdleLegal DEF Return
<1>9. CASE Flip
  BY <1>9 DEF Flip, SelectorInv, Legal, CallType
<1>10. CASE UNCHANGED vars
  BY <1>10 DEF vars, SelectorInv, Legal, CallType
<1> QED
  BY <1>1, <1>2, <1>3, <1>4, <1>5, <1>6, <1>7, <1>8, <1>9, <1>10
  DEF Next, SelectorNext

LEMMA SelectorInvInit == Init => SelectorInv
<1> SUFFICES ASSUME Init
             PROVE  SelectorInv
  OBVIOUS
<1>1. Idle \in CallType
  BY IdleLegal DEF Legal
<1>2. call \in [Caller -> CallType] /\ \A c \in Caller : call[c] = Idle
  BY <1>1 DEF Init
<1> QED BY <1>2, IdleLegal DEF Init, SelectorInv

\* The index of the request that is tried never leaves the list of the client,
\* and what is drawn is always the id of a pool.
THEOREM Typing == Safety => []TypeOK
<1>1. SelectorInv => TypeOK
  BY DEF SelectorInv, TypeOK, Legal, InFlight
<1> QED BY <1>1, SelectorInvInit, SelectorInvInductive, PTL DEF Safety

\* Every match is drawn with the odds its weight gives it, whatever the scan
\* came to, and only a sum of weights that does not fit in an int can panic.
THEOREM Proportional == Safety => []DrawIsProportional
<1>1. SelectorInv => DrawIsProportional
  <2> SUFFICES ASSUME SelectorInv, NEW c \in Caller
               PROVE  LET matches == call[c].matches
                          tickets(id) == {t \in 0..Total(matches) - 1 :
                                            Drawn(matches, t) = id}
                      IN  /\ Matched(c) /\ Weight(matches) <= MaxInt =>
                               \A id \in matches :
                                 Cardinality(tickets(id)) = PoolOf(id).weight
                          /\ call[c].pc = "panicked" => Weight(matches) > MaxInt
    BY DEF DrawIsProportional
  <2>1. call[c].matches \in SUBSET PoolIds /\ Legal(call[c])
    BY DEF SelectorInv, CallType
  <2>2. call[c].pc = "panicked" => Weight(call[c].matches) > MaxInt
    BY <2>1 DEF Legal
  <2> DEFINE m == call[c].matches
  <2>3. Weight(m) <= MaxInt =>
          \A id \in m : Cardinality({t \in 0..Total(m) - 1 : Drawn(m, t) = id})
                          = PoolOf(id).weight
    <3> HIDE DEF m
    <3>1. m \in SUBSET PoolIds
      BY <2>1 DEF m
    <3> QED BY <3>1, TicketsLemma
  <2> QED BY <2>2, <2>3
<1> QED BY <1>1, SelectorInvInit, SelectorInvInductive, PTL DEF Safety

-----------------------------------------------------------------------------
\* What the scan has found, compared with what was true while it ran.

\* The pools a scan of the k-th request may take, with or without its region.
Wanted(c, k) ==
    IF call[c].regionAware /\ call[c].requests[k].region # NoRegion
    THEN Eligible(c, k) \cap InRegion(c, k)
    ELSE Eligible(c, k)

Witnessed(c) == InFlight(c) => upAll[c] \subseteq avail /\ avail \subseteq upSome[c]

\* No request the call has given up had a pool that stayed up.
GivenUp(c) ==
    call[c].pc # "idle" =>
        \A k \in Supported(c) : k < call[c].i => Eligible(c, k) \cap upAll[c] = {}

\* A scan has taken only pools it may take, and has passed over none of them
\* that stayed up; it is the second one only if no pool in the region did.
ScanAgrees(c) ==
    call[c].pc = "scan" =>
        LET i == call[c].i
        IN  /\ i \in Supported(c)
            /\ call[c].matches \subseteq Wanted(c, i) \cap upSome[c]
            /\ \A j \in DOMAIN Pools :
                 /\ j < call[c].at
                 /\ Pools[j].id \in Wanted(c, i) \cap upAll[c]
                 => Pools[j].id \in call[c].matches
            /\ call[c].regionAware \/ Eligible(c, i) \cap InRegion(c, i) \cap upAll[c] = {}

DoneAgrees(c) ==
    call[c].pc = "done" =>
        LET i == call[c].i
        IN  /\ i \in Supported(c)
            /\ call[c].chosen \in Eligible(c, i) \cap upSome[c]
            /\ \/ call[c].requests[i].region = NoRegion
               \/ call[c].chosen \in InRegion(c, i)
               \/ Eligible(c, i) \cap InRegion(c, i) \cap upAll[c] = {}

FailedAgrees(c) ==
    call[c].pc = "failed" => \A k \in Supported(c) : Eligible(c, k) \cap upAll[c] = {}

CallAgrees(c) ==
    /\ Witnessed(c)
    /\ GivenUp(c)
    /\ ScanAgrees(c)
    /\ DoneAgrees(c)
    /\ FailedAgrees(c)

HistoryInv ==
    /\ upAll \in [Caller -> SUBSET PoolIds]
    /\ upSome \in [Caller -> SUBSET PoolIds]
    /\ \A c \in Caller : CallAgrees(c)

\* A call that takes no step stays in agreement: pools that go down leave upAll
\* and those that come up join upSome.
LEMMA StillAgrees ==
    ASSUME NEW c, CallAgrees(c),
           call'[c] = call[c],
           upAll'[c] \subseteq upAll[c], upSome[c] \subseteq upSome'[c],
           InFlight(c) => upAll'[c] \subseteq avail' /\ avail' \subseteq upSome'[c]
    PROVE  CallAgrees(c)'
<1>1. /\ Supported(c)' = Supported(c)
      /\ InFlight(c)' = InFlight(c)
      /\ \A k : /\ Eligible(c, k)' = Eligible(c, k)
               /\ InRegion(c, k)' = InRegion(c, k)
               /\ Wanted(c, k)' = Wanted(c, k)
  BY DEF Supported, InFlight, Eligible, InRegion, Wanted
<1>2. Witnessed(c)'
  BY <1>1 DEF Witnessed
<1>3. GivenUp(c)'
  BY <1>1 DEF CallAgrees, GivenUp
<1>4. ScanAgrees(c)'
  BY <1>1 DEF CallAgrees, ScanAgrees
<1>5. DoneAgrees(c)' /\ FailedAgrees(c)'
  BY <1>1 DEF CallAgrees, DoneAgrees, FailedAgrees
<1> QED BY <1>2, <1>3, <1>4, <1>5 DEF CallAgrees

\* A request may be given up when the catalog does not support it or no pool
\* that could serve it stayed up.
LEMMA GivingUpAgrees ==
    ASSUME SelectorInv, HistoryInv, NEW c \in Caller, InFlight(c),
           \/ call[c].i \notin Supported(c)
           \/ Eligible(c, call[c].i) \cap upAll[c] = {},
           call'[c] = SelectFailed(call[c]),
           UNCHANGED <<avail, history>>
    PROVE  CallAgrees(c)'
<1> DEFINE s == call[c]
<1>1. /\ s \in CallType /\ s.pc \in {"catalog", "scan"}
      /\ s.requests \in Seq(Range(s.requests))
      /\ s.i \in 1..Len(s.requests) /\ Len(s.requests) \in Nat
      /\ DOMAIN s.requests = 1..Len(s.requests)
  <2>1. Legal(s) /\ s.pc \in {"catalog", "scan"}
    BY DEF SelectorInv, InFlight
  <2> QED BY <2>1, RequestsAssumption DEF Legal
<1>2. UNCHANGED <<avail, upAll, upSome>>
  BY DEF history
<1>3. ASSUME NEW k \in Supported(c), k <= s.i
      PROVE  Eligible(c, k) \cap upAll[c] = {}
  <2>1. k \in Nat /\ s.i \in Nat
    BY <1>1 DEF Supported
  <2>2. CASE k < s.i
    BY <2>2, <1>1 DEF HistoryInv, CallAgrees, GivenUp
  <2>3. CASE k = s.i
    BY <2>3
  <2> QED BY <2>1, <2>2, <2>3, <1>3
<1>4. CASE s.i < Len(s.requests)
  <2>1. call'[c] = [s EXCEPT !.i = @ + 1, !.pc = "catalog", !.regionAware = TRUE]
    BY <1>4 DEF SelectFailed
  <2>2. /\ call'[c].pc = "catalog" /\ call'[c].i = s.i + 1
        /\ call'[c].requests = s.requests
    BY <2>1, <1>1 DEF CallType
  <2>3. /\ Supported(c)' = Supported(c)
        /\ \A k : Eligible(c, k)' = Eligible(c, k)
    BY <2>2 DEF Supported, Eligible
  <2>4. GivenUp(c)'
    <3> SUFFICES ASSUME NEW k \in Supported(c), k < s.i + 1
                 PROVE  Eligible(c, k) \cap upAll[c] = {}
      BY <2>2, <2>3, <1>2 DEF GivenUp
    <3>1. k <= s.i
      BY <1>1 DEF Supported
    <3> QED BY <3>1, <1>3
  <2>5. Witnessed(c)'
    BY <1>2 DEF HistoryInv, CallAgrees, Witnessed
  <2> QED
    BY <2>2, <2>4, <2>5 DEF CallAgrees, ScanAgrees, DoneAgrees, FailedAgrees
<1>5. CASE ~(s.i < Len(s.requests))
  <2>1. call'[c] = [s EXCEPT !.pc = "failed"]
    BY <1>5 DEF SelectFailed
  <2>2. /\ call'[c].pc = "failed" /\ call'[c].i = s.i
        /\ call'[c].requests = s.requests
    BY <2>1, <1>1 DEF CallType
  <2>3. /\ Supported(c)' = Supported(c)
        /\ \A k : Eligible(c, k)' = Eligible(c, k)
    BY <2>2 DEF Supported, Eligible
  <2>4. \A k \in Supported(c) : k <= s.i
    BY <1>1, <1>5 DEF Supported
  <2>5. GivenUp(c)' /\ FailedAgrees(c)'
    BY <2>2, <2>3, <2>4, <1>2, <1>3 DEF GivenUp, FailedAgrees
  <2> QED
    BY <2>2, <2>5 DEF CallAgrees, Witnessed, InFlight, ScanAgrees, DoneAgrees
<1> QED BY <1>4, <1>5

\* With its memory put aside, a step is one of the selector's own.
LEMMA HNextIsNext == [HNext]_<<vars, history>> => [Next]_vars
  BY DEF HNext, HBegin, HStep, HFlip, Step, Next, SelectorNext, vars

LEMMA HistoryInvInductive ==
    SelectorInv /\ HistoryInv /\ [HNext]_<<vars, history>> => HistoryInv'
<1> SUFFICES ASSUME SelectorInv, HistoryInv, [HNext]_<<vars, history>>
             PROVE  HistoryInv'
  OBVIOUS
<1>a. /\ avail \in SUBSET PoolIds /\ call \in [Caller -> CallType]
      /\ upAll \in [Caller -> SUBSET PoolIds]
      /\ upSome \in [Caller -> SUBSET PoolIds]
  BY DEF SelectorInv, HistoryInv
<1>b. ASSUME NEW c \in Caller
      PROVE  /\ call[c] \in CallType /\ Legal(call[c]) /\ CallAgrees(c)
             /\ Witnessed(c) /\ GivenUp(c) /\ ScanAgrees(c)
  BY <1>a DEF SelectorInv, HistoryInv, CallAgrees
<1>c. ASSUME NEW c \in Caller, NEW s,
             call' = [call EXCEPT ![c] = s],
             UNCHANGED <<avail, history>>,
             CallAgrees(c)'
      PROVE  HistoryInv'
  <2>1. UNCHANGED <<upAll, upSome, avail>>
    BY <1>c DEF history
  <2>2. ASSUME NEW d \in Caller, d # c
        PROVE  CallAgrees(d)'
    <3>1. call'[d] = call[d]
      BY <1>a, <1>c, <2>2
    <3> QED BY <3>1, <2>1, <1>b, StillAgrees DEF Witnessed
  <2> QED BY <1>a, <1>c, <2>1, <2>2 DEF HistoryInv
<1>1. ASSUME HBegin
      PROVE  HistoryInv'
  <2>1. PICK c \in Caller, rs \in RequestLists :
          /\ Begin(c, rs)
          /\ upAll' = [upAll EXCEPT ![c] = avail]
          /\ upSome' = [upSome EXCEPT ![c] = avail]
          /\ UNCHANGED avail
    BY <1>1 DEF HBegin
  <2>2. /\ upAll' \in [Caller -> SUBSET PoolIds]
        /\ upSome' \in [Caller -> SUBSET PoolIds]
        /\ upAll'[c] = avail /\ upSome'[c] = avail
    BY <2>1, <1>a
  <2>3. call'[c] = [Idle EXCEPT !.pc = "catalog", !.requests = rs]
    BY <2>1, <1>a DEF Begin
  <2>4. call'[c].pc = "catalog" /\ call'[c].i = 1
    BY <2>3 DEF Idle
  <2>5. GivenUp(c)'
    <3>1. rs \in Seq(Range(rs)) /\ call'[c].requests = rs
      BY <2>3, RequestsAssumption DEF Idle
    <3>2. \A k \in Supported(c)' : ~(k < 1)
      BY <3>1 DEF Supported
    <3> QED BY <2>4, <3>2 DEF GivenUp
  <2>6. CallAgrees(c)'
    BY <2>1, <2>2, <2>4, <2>5
    DEF CallAgrees, Witnessed, ScanAgrees, DoneAgrees, FailedAgrees
  <2>7. ASSUME NEW d \in Caller, d # c
        PROVE  CallAgrees(d)'
    <3>1. /\ call'[d] = call[d] /\ upAll'[d] = upAll[d] /\ upSome'[d] = upSome[d]
          /\ avail' = avail
      BY <2>1, <2>7, <1>a DEF Begin
    <3> QED BY <3>1, <1>b, StillAgrees DEF Witnessed
  <2> QED BY <2>2, <2>6, <2>7 DEF HistoryInv
<1>2. ASSUME NEW c \in Caller, CheckCatalog(c), UNCHANGED <<avail, history>>
      PROVE  HistoryInv'
  <2>0. call[c].pc = "catalog"
    BY <1>2 DEF CheckCatalog
  <2>1. CASE CatalogSupports(Catalog, Request(c))
    <3> DEFINE s == [call[c] EXCEPT !.pc = "scan", !.regionAware = TRUE, !.at = 1,
                                    !.matches = {}]
    <3>1. call' = [call EXCEPT ![c] = s]
      BY <1>2, <2>1 DEF CheckCatalog
    <3>2. /\ s.pc = "scan" /\ s.regionAware = TRUE /\ s.at = 1 /\ s.matches = {}
          /\ s.requests = call[c].requests /\ s.i = call[c].i
      BY <1>b DEF CallType
    <3> HIDE DEF s
    <3>3. call'[c] = s
      BY <3>1, <1>a
    <3>4. call[c].i \in Supported(c)
      BY <2>0, <2>1, <1>b DEF Legal, Supported, Request
    <3>5. /\ Supported(c)' = Supported(c)
          /\ \A k : Eligible(c, k)' = Eligible(c, k)
      BY <3>2, <3>3 DEF Supported, Eligible
    <3>6. upAll' = upAll /\ upSome' = upSome /\ avail' = avail
      BY <1>2 DEF history
    <3>7. Witnessed(c)' /\ GivenUp(c)'
      BY <2>0, <3>2, <3>3, <3>5, <3>6, <1>b DEF Witnessed, InFlight, GivenUp
    <3>8. ScanAgrees(c)'
      BY <3>2, <3>3, <3>4, <3>5, PoolsLemma DEF ScanAgrees
    <3>9. CallAgrees(c)'
      BY <3>2, <3>3, <3>7, <3>8 DEF CallAgrees, DoneAgrees, FailedAgrees
    <3> QED BY <3>1, <3>9, <1>2, <1>c
  <2>2. CASE ~CatalogSupports(Catalog, Request(c))
    <3>1. call' = [call EXCEPT ![c] = SelectFailed(call[c])]
      BY <1>2, <2>2 DEF CheckCatalog
    <3>2. call'[c] = SelectFailed(call[c])
      BY <3>1, <1>a
    <3>3. call[c].i \notin Supported(c)
      BY <2>2 DEF Supported, Request
    <3>4. CallAgrees(c)'
      BY <2>0, <3>2, <3>3, <1>2, GivingUpAgrees DEF InFlight
    <3> QED BY <3>1, <3>4, <1>2, <1>c
  <2> QED BY <2>1, <2>2
<1>3. ASSUME NEW c \in Caller, ScanPool(c), UNCHANGED <<avail, history>>
      PROVE  HistoryInv'
  <2> DEFINE at == call[c].at
             i == call[c].i
             id == Pools[at].id
             new == IF /\ ~OutOfRegion(Pools[at], call[c], Request(c))
                       /\ id \in avail
                       /\ PoolServes(Pools[at], Request(c))
                    THEN call[c].matches \cup {id} ELSE call[c].matches
             s == [call[c] EXCEPT !.at = @ + 1, !.matches = new]
  <2>1. call' = [call EXCEPT ![c] = s] /\ call[c].pc = "scan" /\ at <= Len(Pools)
    BY <1>3 DEF ScanPool
  <2>2. /\ s.pc = "scan" /\ s.at = at + 1 /\ s.matches = new
        /\ s.requests = call[c].requests /\ s.i = i
        /\ s.regionAware = call[c].regionAware
    BY <2>1, <1>b DEF CallType
  <2> HIDE DEF s
  <2>3. call'[c] = s
    BY <2>1, <1>a
  <2>4. /\ Supported(c)' = Supported(c)
        /\ \A k : Eligible(c, k)' = Eligible(c, k)
        /\ \A k : InRegion(c, k)' = InRegion(c, k)
        /\ \A k : Wanted(c, k)' = Wanted(c, k)
    BY <2>2, <2>3 DEF Supported, Eligible, InRegion, Wanted
  <2>5. upAll' = upAll /\ upSome' = upSome /\ avail' = avail
    BY <1>3 DEF history
  <2>6. upAll[c] \subseteq avail /\ avail \subseteq upSome[c]
    BY <2>1, <1>b DEF Witnessed, InFlight
  <2>7. /\ call[c].matches \subseteq Wanted(c, i) \cap upSome[c]
        /\ i \in Supported(c)
        /\ \A j \in DOMAIN Pools :
              j < at /\ Pools[j].id \in Wanted(c, i) \cap upAll[c]
                => Pools[j].id \in call[c].matches
        /\ call[c].regionAware \/ Eligible(c, i) \cap InRegion(c, i) \cap upAll[c] = {}
    BY <2>1, <1>b DEF ScanAgrees
  <2>8. ASSUME at \in DOMAIN Pools
        PROVE  id \in Wanted(c, i) <=> /\ ~OutOfRegion(Pools[at], call[c], Request(c))
                                       /\ PoolServes(Pools[at], Request(c))
    <3>1. id \in PoolIds /\ PoolOf(id) = Pools[at]
      BY <2>8, PoolsLemma
    <3> QED
      BY <3>1 DEF Wanted, Eligible, InRegion, OutOfRegion, Request
  <2>9. new \subseteq Wanted(c, i) \cap upSome[c]
    <3>1. at \in DOMAIN Pools
      BY <2>1, <1>b, PoolsLemma DEF CallType
    <3> QED BY <3>1, <2>6, <2>7, <2>8
  <2>10. ASSUME NEW j \in DOMAIN Pools, j < at + 1,
                Pools[j].id \in Wanted(c, i) \cap upAll[c]
         PROVE  Pools[j].id \in new
    <3>1. j < at \/ j = at
      BY <2>10, <1>b, PoolsLemma DEF CallType
    <3> QED BY <3>1, <2>6, <2>7, <2>8, <2>10
  <2> HIDE DEF new
  <2>11. ScanAgrees(c)'
    BY <2>2, <2>3, <2>4, <2>5, <2>7, <2>9, <2>10 DEF ScanAgrees
  <2>12. Witnessed(c)' /\ GivenUp(c)'
    BY <2>1, <2>2, <2>3, <2>4, <2>5, <2>6, <1>b DEF Witnessed, InFlight, GivenUp
  <2>13. CallAgrees(c)'
    BY <2>2, <2>3, <2>11, <2>12 DEF CallAgrees, DoneAgrees, FailedAgrees
  <2> QED BY <2>1, <2>13, <1>3, <1>c
<1>4. ASSUME NEW c \in Caller, Scanned(c), call[c].matches = {}
      PROVE  Wanted(c, call[c].i) \cap upAll[c] = {}
  <2> SUFFICES ASSUME NEW id \in Wanted(c, call[c].i) \cap upAll[c]
               PROVE  FALSE
    OBVIOUS
  <2>1. id \in PoolIds
    BY <1>a
  <2>2. PICK j \in DOMAIN Pools : id = Pools[j].id
    BY <2>1, PoolsLemma
  <2>3. j < call[c].at
    BY <1>4, <1>b, PoolsLemma DEF Scanned, CallType
  <2> QED BY <2>2, <2>3, <1>4, <1>b DEF Scanned, ScanAgrees
<1>5. ASSUME NEW c \in Caller, Widen(c), UNCHANGED <<avail, history>>
      PROVE  HistoryInv'
  <2> DEFINE i == call[c].i
             s == [call[c] EXCEPT !.regionAware = FALSE, !.at = 1]
  <2>1. /\ call' = [call EXCEPT ![c] = s]
        /\ call[c].pc = "scan" /\ call[c].matches = {}
        /\ call[c].regionAware /\ call[c].requests[i].region # NoRegion
    BY <1>5 DEF Widen, Scanned, MayWiden, Request
  <2>2. /\ s.pc = "scan" /\ s.at = 1 /\ s.matches = {}
        /\ s.requests = call[c].requests /\ s.i = i /\ s.regionAware = FALSE
    BY <2>1, <1>b DEF CallType
  <2> HIDE DEF s
  <2>3. call'[c] = s
    BY <2>1, <1>a
  <2>4. /\ Supported(c)' = Supported(c)
        /\ \A k : Eligible(c, k)' = Eligible(c, k)
        /\ \A k : InRegion(c, k)' = InRegion(c, k)
    BY <2>2, <2>3 DEF Supported, Eligible, InRegion
  <2>5. upAll' = upAll /\ upSome' = upSome /\ avail' = avail
    BY <1>5 DEF history
  <2>6. Eligible(c, i) \cap InRegion(c, i) \cap upAll[c] = {}
    BY <1>4, <1>5, <2>1 DEF Widen, Wanted
  <2>7. i \in Supported(c)
    BY <2>1, <1>b DEF ScanAgrees
  <2>8. ScanAgrees(c)'
    BY <2>2, <2>3, <2>4, <2>5, <2>6, <2>7, PoolsLemma DEF ScanAgrees
  <2>9. Witnessed(c)' /\ GivenUp(c)'
    BY <2>1, <2>2, <2>3, <2>4, <2>5, <1>b DEF Witnessed, InFlight, GivenUp
  <2>10. CallAgrees(c)'
    BY <2>2, <2>3, <2>8, <2>9 DEF CallAgrees, DoneAgrees, FailedAgrees
  <2> QED BY <2>1, <2>10, <1>5, <1>c
<1>6. ASSUME NEW c \in Caller, NoMatch(c), UNCHANGED <<avail, history>>
      PROVE  HistoryInv'
  <2>1. /\ call' = [call EXCEPT ![c] = SelectFailed(call[c])]
        /\ call[c].pc = "scan" /\ Scanned(c) /\ call[c].matches = {} /\ ~MayWiden(c)
    BY <1>6 DEF NoMatch, Scanned
  <2>2. call'[c] = SelectFailed(call[c])
    BY <2>1, <1>a
  <2>3. Wanted(c, call[c].i) \cap upAll[c] = {}
    BY <2>1, <1>4
  <2>4. Eligible(c, call[c].i) \cap upAll[c] = {}
    BY <2>1, <2>3 DEF Wanted, MayWiden, Request
  <2>5. CallAgrees(c)'
    BY <2>1, <2>2, <2>4, <1>6, GivingUpAgrees DEF InFlight
  <2> QED BY <2>1, <2>5, <1>6, <1>c
<1>7. ASSUME NEW c \in Caller, Pick(c), UNCHANGED <<avail, history>>
      PROVE  HistoryInv'
  <2>1. PICK pick \in 0..Total(call[c].matches) - 1 :
          call' = [call EXCEPT ![c].pc = "done",
                               ![c].chosen = Drawn(call[c].matches, pick)]
    BY <1>7 DEF Pick
  <2> DEFINE i == call[c].i
             id == Drawn(call[c].matches, pick)
             s == [call[c] EXCEPT !.pc = "done", !.chosen = id]
  <2>2. id \in call[c].matches
    <3>1. pick \in Nat /\ pick < Weight(call[c].matches)
      BY TotalLemma
    <3> QED BY <3>1, ShareLemma
  <2>3. call' = [call EXCEPT ![c] = s]
    BY <2>1
  <2> HIDE DEF id
  <2>4. /\ s.pc = "done" /\ s.chosen = id /\ s.requests = call[c].requests /\ s.i = i
    BY <1>b DEF CallType
  <2> HIDE DEF s
  <2>5. call'[c] = s
    BY <2>3, <1>a
  <2>6. /\ Supported(c)' = Supported(c)
        /\ \A k : Eligible(c, k)' = Eligible(c, k)
        /\ \A k : InRegion(c, k)' = InRegion(c, k)
    BY <2>4, <2>5 DEF Supported, Eligible, InRegion
  <2>7. upAll' = upAll /\ upSome' = upSome /\ avail' = avail
    BY <1>7 DEF history
  <2>8. /\ call[c].pc = "scan"
        /\ i \in Supported(c)
        /\ call[c].matches \subseteq Wanted(c, i) \cap upSome[c]
        /\ call[c].regionAware \/ Eligible(c, i) \cap InRegion(c, i) \cap upAll[c] = {}
    BY <1>7, <1>b DEF Pick, Matched, Scanned, ScanAgrees
  <2>9. DoneAgrees(c)'
    BY <2>2, <2>4, <2>5, <2>6, <2>7, <2>8 DEF DoneAgrees, Wanted
  <2>10. GivenUp(c)'
    BY <2>4, <2>5, <2>6, <2>7, <2>8, <1>b DEF GivenUp
  <2>11. CallAgrees(c)'
    BY <2>4, <2>5, <2>9, <2>10 DEF CallAgrees, Witnessed, InFlight, ScanAgrees, FailedAgrees
  <2> QED BY <2>3, <2>11, <1>7, <1>c
<1>8. ASSUME NEW c \in Caller, Panic(c), UNCHANGED <<avail, history>>
      PROVE  HistoryInv'
  <2> DEFINE s == [call[c] EXCEPT !.pc = "panicked"]
  <2>1. call' = [call EXCEPT ![c] = s] /\ call[c].pc = "scan"
    BY <1>8 DEF Panic, Matched, Scanned
  <2>2. s.pc = "panicked" /\ s.requests = call[c].requests /\ s.i = call[c].i
    BY <1>b DEF CallType
  <2> HIDE DEF s
  <2>3. call'[c] = s
    BY <2>1, <1>a
  <2>4. /\ Supported(c)' = Supported(c)
        /\ \A k : Eligible(c, k)' = Eligible(c, k)
    BY <2>2, <2>3 DEF Supported, Eligible
  <2>5. GivenUp(c)'
    BY <2>1, <2>2, <2>3, <2>4, <1>8, <1>b DEF GivenUp, history
  <2>6. CallAgrees(c)'
    BY <2>2, <2>3, <2>5
    DEF CallAgrees, Witnessed, InFlight, ScanAgrees, DoneAgrees, FailedAgrees
  <2> QED BY <2>1, <2>6, <1>8, <1>c
<1>9. ASSUME NEW c \in Caller, Return(c), UNCHANGED <<avail, history>>
      PROVE  HistoryInv'
  <2>1. call' = [call EXCEPT ![c] = Idle] /\ call'[c].pc = "idle"
    BY <1>9, <1>a DEF Return, Idle
  <2>2. CallAgrees(c)'
    BY <2>1
    DEF CallAgrees, Witnessed, InFlight, GivenUp, ScanAgrees, DoneAgrees, FailedAgrees
  <2> QED BY <2>1, <2>2, <1>9, <1>c
<1>10. ASSUME HFlip
       PROVE  HistoryInv'
  <2>1. /\ avail' \in SUBSET PoolIds /\ call' = call
        /\ upAll' = [c \in Caller |-> IF InFlight(c) THEN upAll[c] \cap avail' ELSE upAll[c]]
        /\ upSome' = [c \in Caller |-> IF InFlight(c) THEN upSome[c] \cup avail' ELSE upSome[c]]
    BY <1>10 DEF HFlip, Flip
  <2>2. upAll' \in [Caller -> SUBSET PoolIds] /\ upSome' \in [Caller -> SUBSET PoolIds]
    BY <2>1, <1>a
  <2>3. ASSUME NEW c \in Caller
        PROVE  CallAgrees(c)'
    BY <2>1, <1>b, StillAgrees
  <2> QED BY <2>2, <2>3 DEF HistoryInv
<1>11. ASSUME UNCHANGED <<vars, history>>
       PROVE  HistoryInv'
  <2>1. call' = call /\ avail' = avail /\ upAll' = upAll /\ upSome' = upSome
    BY <1>11 DEF vars, history
  <2>2. ASSUME NEW c \in Caller
        PROVE  CallAgrees(c)'
    BY <2>1, <1>b, StillAgrees DEF Witnessed
  <2> QED BY <2>1, <2>2, <1>a DEF HistoryInv
<1> QED
  BY <1>1, <1>2, <1>3, <1>5, <1>6, <1>7, <1>8, <1>9, <1>10, <1>11
  DEF HNext, HStep, Step

LEMMA HistoryInvInit == HInit => HistoryInv
  BY DEF HInit, Init, Idle, HistoryInv, CallAgrees, Witnessed, InFlight, GivenUp,
         ScanAgrees, DoneAgrees, FailedAgrees

LEMMA HistoryAlways == HSpec => [](SelectorInv /\ HistoryInv)
<1>1. HInit => SelectorInv /\ HistoryInv
  BY SelectorInvInit, HistoryInvInit DEF HInit
<1>2. SelectorInv /\ HistoryInv /\ [HNext]_<<vars, history>> => (SelectorInv /\ HistoryInv)'
  BY SelectorInvInductive, HistoryInvInductive, HNextIsNext
<1> QED BY <1>1, <1>2, PTL DEF HSpec

\* One pool that stays up is enough for a call to succeed, whatever the others
\* do between any two turns of the scan.
THEOREM OneSteadyPoolIsEnough == HSpec => []FailsOnlyIfNoPoolStayedUp
<1>1. HistoryInv => FailsOnlyIfNoPoolStayedUp
  BY DEF HistoryInv, CallAgrees, FailedAgrees, FailsOnlyIfNoPoolStayedUp, Servable
<1> QED BY <1>1, HistoryAlways, PTL

\* The pool that is chosen was in rotation at some time during the call, and
\* can do what the request asks for.
THEOREM ChosenServes == HSpec => []ChosenCouldServe
<1>1. HistoryInv => ChosenCouldServe
  BY DEF HistoryInv, CallAgrees, DoneAgrees, ChosenCouldServe
<1> QED BY <1>1, HistoryAlways, PTL

\* The region and the order of the alternatives that the client asked for are
\* left only when nothing that fits them stayed up.
THEOREM PreferencesFirst == HSpec => []PreferencesKept
<1>1. HistoryInv => PreferencesKept
  BY DEF HistoryInv, CallAgrees, DoneAgrees, GivenUp, PreferencesKept
<1> QED BY <1>1, HistoryAlways, PTL
=============================================================================
