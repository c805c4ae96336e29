---------------------------- MODULE MetricsProofs ----------------------------
(***************************************************************************)
(* What MCMetrics checks with two requests to two pools, proved for every   *)
(* number of requests, every set of pools, paths and buckets.               *)
(***************************************************************************)
EXTENDS Metrics, SetLemmas

-----------------------------------------------------------------------------
\* Series.

\* Finitely many counters, and histograms of numbers.
Counters(series) == IsFiniteSet(DOMAIN series) /\ \A k \in DOMAIN series : series[k] \in Nat

Histograms(series) ==
    \A k \in DOMAIN series : /\ series[k].count \in Nat
                             /\ \A b \in Bounds : series[k].buckets[b] \in Nat

LEMMA IncrementedLemma ==
    ASSUME NEW series, Counters(series), NEW key
    PROVE  LET next == Incremented(series, key)
           IN  /\ Counters(next)
               /\ DOMAIN next = DOMAIN series \cup {key}
               /\ next[key] = Value(series, key, 0) + 1
               /\ \A k \in DOMAIN series \ {key} : next[k] = series[k]
               /\ \A k : Value(series, k, 0) \in Nat
               /\ \A k : Value(next, k, 0) = Value(series, k, 0) + IF k = key THEN 1 ELSE 0
<1> DEFINE next == Incremented(series, key)
<1>1. DOMAIN next = DOMAIN series \cup {key}
  BY DEF Incremented
<1>2. IsFiniteSet(DOMAIN next)
  BY <1>1, FS_AddElement DEF Counters
<1>3. \A k : Value(series, k, 0) \in Nat
  BY DEF Value, Counters
<1>4. \A k \in DOMAIN series \cup {key} :
        next[k] = Value(series, k, 0) + IF k = key THEN 1 ELSE 0
  BY DEF Incremented
<1> HIDE DEF next
<1>5. Counters(next)
  BY <1>1, <1>2, <1>3, <1>4 DEF Counters
<1>6. \A k \in DOMAIN series \ {key} : next[k] = series[k]
  <2> SUFFICES ASSUME NEW k \in DOMAIN series \ {key}
               PROVE  next[k] = series[k]
    OBVIOUS
  <2>1. Value(series, k, 0) = series[k] /\ series[k] \in Nat
    BY DEF Value, Counters
  <2> QED BY <1>4, <2>1
<1>7. \A k : Value(next, k, 0) = Value(series, k, 0) + IF k = key THEN 1 ELSE 0
  <2> SUFFICES ASSUME NEW k
               PROVE  Value(next, k, 0) = Value(series, k, 0) + IF k = key THEN 1 ELSE 0
    OBVIOUS
  <2>1. CASE k \in DOMAIN next
    BY <1>1, <1>4, <2>1 DEF Value
  <2>2. CASE k \notin DOMAIN next
    BY <1>1, <2>2 DEF Value
  <2> QED BY <2>1, <2>2
<1>8. next[key] = Value(series, key, 0) + 1
  BY <1>4
<1> QED BY <1>1, <1>3, <1>5, <1>6, <1>7, <1>8 DEF next

\* Counting once more adds one to the sums the counter belongs to.
LEMMA SumIncremented ==
    ASSUME NEW series, Counters(series), NEW key, NEW keys \in SUBSET (DOMAIN series \cup {key})
    PROVE  /\ SumFunctionOnSet(series, keys \cap DOMAIN series) \in Nat
           /\ SumFunctionOnSet(Incremented(series, key), keys)
                = SumFunctionOnSet(series, keys \cap DOMAIN series)
                    + IF key \in keys THEN 1 ELSE 0
<1> DEFINE next == Incremented(series, key)
           old == keys \cap DOMAIN series
           rest == old \ {key}
<1>1. /\ Counters(next) /\ DOMAIN next = DOMAIN series \cup {key}
      /\ next[key] = Value(series, key, 0) + 1
      /\ \A k \in DOMAIN series \ {key} : next[k] = series[k]
  BY IncrementedLemma
<1>2. IsFiniteSet(keys) /\ IsFiniteSet(old) /\ IsFiniteSet(rest)
  BY <1>1, FS_Subset DEF Counters
<1>3. /\ \A k \in keys : next[k] \in Nat
      /\ \A k \in old : series[k] \in Nat
      /\ \A k \in rest : series[k] \in Nat /\ next[k] = series[k]
  BY <1>1 DEF Counters
<1> HIDE DEF next
<1>4. SumFunctionOnSet(next, rest) = SumFunctionOnSet(series, rest)
  BY ONLY <1>2, <1>3, SumAgree
<1>5. /\ SumFunctionOnSet(series, rest) \in Nat
      /\ SumFunctionOnSet(series, old) \in Nat
  BY ONLY <1>2, <1>3, SumStep
<1>6. CASE key \notin keys
  <2>1. keys = rest /\ old = rest
    BY <1>6
  <2> HIDE DEF old, rest
  <2> QED BY ONLY <1>4, <1>5, <1>6, <2>1 DEF next, old
<1>7. CASE key \in keys
  <2>1. keys \ {key} = rest
    OBVIOUS
  <2>2. SumFunctionOnSet(next, keys) = next[key] + SumFunctionOnSet(next, rest)
    <3> HIDE DEF rest
    <3> QED BY ONLY <1>2, <1>3, <1>7, <2>1, SumStep
  <2>3. SumFunctionOnSet(series, old) = Value(series, key, 0) + SumFunctionOnSet(series, rest)
    <3>1. CASE key \in DOMAIN series
      <4>1. key \in old /\ Value(series, key, 0) = series[key]
        BY <1>7, <3>1 DEF Value
      <4> HIDE DEF old
      <4> QED BY ONLY <1>2, <1>3, <4>1, SumStep
    <3>2. CASE key \notin DOMAIN series
      <4>1. old = rest /\ Value(series, key, 0) = 0
        BY <3>2 DEF Value
      <4> HIDE DEF old, rest
      <4> QED BY ONLY <1>5, <4>1
    <3> QED BY <3>1, <3>2
  <2>4. Value(series, key, 0) \in Nat
    BY IncrementedLemma
  <2> HIDE DEF old, rest
  <2> QED BY ONLY <1>1, <1>4, <1>5, <1>7, <2>2, <2>3, <2>4 DEF next, old
<1> QED BY <1>6, <1>7

\* One observation more in a histogram keeps its buckets cumulative.
LEMMA ObservedLemma ==
    ASSUME NEW series, Histograms(series), NEW key, NEW value \in Durations
    PROVE  LET next == Observed(series, key, value)
               h == Value(series, key, NoHistogram)
           IN  /\ Histograms(next)
               /\ DOMAIN next = DOMAIN series \cup {key}
               /\ \A k \in DOMAIN series \ {key} : next[k] = series[k]
               /\ h.count \in Nat /\ next[key].count = h.count + 1
               /\ \A b \in Bounds : /\ h.buckets[b] \in Nat
                                    /\ next[key].buckets[b] =
                                         IF value <= b THEN h.buckets[b] + 1 ELSE h.buckets[b]
<1> DEFINE next == Observed(series, key, value)
           h == Value(series, key, NoHistogram)
           new == [buckets |-> [b \in Bounds |-> IF value <= b THEN h.buckets[b] + 1 ELSE h.buckets[b]],
                   count |-> h.count + 1]
<1>1. h.count \in Nat /\ \A b \in Bounds : h.buckets[b] \in Nat
  BY DEF Value, NoHistogram, Histograms
<1>2. next = [k \in DOMAIN series \cup {key} |-> IF k = key THEN new ELSE series[k]]
  BY DEF Observed
<1> HIDE DEF next, h
<1>3. /\ new.count = h.count + 1 /\ new.count \in Nat
      /\ \A b \in Bounds : new.buckets[b] = IF value <= b THEN h.buckets[b] + 1 ELSE h.buckets[b]
      /\ \A b \in Bounds : new.buckets[b] \in Nat
  BY <1>1
<1> HIDE DEF new
<1>4. /\ DOMAIN next = DOMAIN series \cup {key}
      /\ next[key] = new
      /\ \A k \in DOMAIN series \ {key} : next[k] = series[k]
  BY <1>2
<1>5. Histograms(next)
  BY <1>3, <1>4 DEF Histograms
<1> QED BY <1>1, <1>3, <1>4, <1>5 DEF next, h

\* Counting a request and observing its duration under one label keep counters and
\* histograms in step.
LEMMA SumsUpStep ==
    ASSUME NEW counters, NEW histograms, Counters(counters), Histograms(histograms),
           SumsUp(counters, histograms),
           NEW label, NEW rest, NEW value \in Durations
    PROVE  SumsUp(Incremented(counters, <<label, rest>>), Observed(histograms, label, value))
<1> DEFINE key == <<label, rest>>
           nextC == Incremented(counters, key)
           nextH == Observed(histograms, label, value)
           h == Value(histograms, label, NoHistogram)
           Of(series, l) == {k \in DOMAIN series : k[1] = l}
<1>0. key[1] = label
  OBVIOUS
<1> HIDE DEF key
<1>1. DOMAIN nextC = DOMAIN counters \cup {key}
  BY IncrementedLemma
<1>2. /\ DOMAIN nextH = DOMAIN histograms \cup {label}
      /\ \A k \in DOMAIN histograms \ {label} : nextH[k] = histograms[k]
      /\ h.count \in Nat /\ nextH[label].count = h.count + 1
      /\ \A b \in Bounds : /\ h.buckets[b] \in Nat
                           /\ nextH[label].buckets[b] =
                                IF value <= b THEN h.buckets[b] + 1 ELSE h.buckets[b]
  BY ObservedLemma
<1>3. \A l : /\ SumFunctionOnSet(counters, Of(counters, l)) \in Nat
             /\ SumFunctionOnSet(nextC, Of(nextC, l))
                  = SumFunctionOnSet(counters, Of(counters, l)) + IF l = label THEN 1 ELSE 0
  <2> SUFFICES ASSUME NEW l
               PROVE  /\ SumFunctionOnSet(counters, Of(counters, l)) \in Nat
                      /\ SumFunctionOnSet(nextC, Of(nextC, l))
                           = SumFunctionOnSet(counters, Of(counters, l))
                               + IF l = label THEN 1 ELSE 0
    OBVIOUS
  <2>1. /\ Of(nextC, l) \in SUBSET (DOMAIN counters \cup {key})
        /\ Of(nextC, l) \cap DOMAIN counters = Of(counters, l)
        /\ key \in Of(nextC, l) <=> l = label
    BY <1>0, <1>1
  <2> HIDE DEF Of
  <2>2. /\ SumFunctionOnSet(counters, Of(nextC, l) \cap DOMAIN counters) \in Nat
        /\ SumFunctionOnSet(nextC, Of(nextC, l))
             = SumFunctionOnSet(counters, Of(nextC, l) \cap DOMAIN counters)
                 + IF key \in Of(nextC, l) THEN 1 ELSE 0
    BY ONLY <2>1, Counters(counters), SumIncremented
  <2> QED BY ONLY <2>1, <2>2
<1>4. {k[1] : k \in DOMAIN counters} = DOMAIN histograms
  BY DEF SumsUp
<1>5. {k[1] : k \in DOMAIN nextC} = DOMAIN nextH
  <2> HIDE DEF nextC, nextH
  <2> QED BY ONLY <1>0, <1>1, <1>2, <1>4
<1>6. h.count = SumFunctionOnSet(counters, Of(counters, label))
  <2>1. CASE label \in DOMAIN histograms
    BY <2>1 DEF Value, SumsUp
  <2>2. CASE label \notin DOMAIN histograms
    <3>1. Of(counters, label) = {}
      BY <1>4, <2>2
    <3>2. SumFunctionOnSet(counters, {}) = 0
      BY FS_EmptySet, SumStep
    <3> QED BY <2>2, <3>1, <3>2 DEF Value, NoHistogram
  <2> QED BY <2>1, <2>2
<1>7. /\ \A a, b \in Bounds : a <= b => h.buckets[a] <= h.buckets[b]
      /\ \A b \in Bounds : h.buckets[b] <= h.count
  <2>1. CASE label \in DOMAIN histograms
    BY <2>1 DEF Value, SumsUp
  <2>2. CASE label \notin DOMAIN histograms
    BY <2>2 DEF Value, NoHistogram
  <2> QED BY <2>1, <2>2
<1>8. ASSUME NEW l \in DOMAIN nextH
      PROVE  /\ nextH[l].count = SumFunctionOnSet(nextC, Of(nextC, l))
             /\ \A a, b \in Bounds : a <= b => nextH[l].buckets[a] <= nextH[l].buckets[b]
             /\ \A b \in Bounds : nextH[l].buckets[b] <= nextH[l].count
  <2>1. CASE l = label
    <3> HIDE DEF nextH, nextC, Of, h
    <3>1. nextH[l].count = SumFunctionOnSet(nextC, Of(nextC, l))
      BY ONLY <1>2, <1>3, <1>6, <2>1
    <3>2. \A b \in Bounds : nextH[l].buckets[b] <= nextH[l].count
      BY ONLY <1>2, <1>7, <2>1
    <3>3. ASSUME NEW a \in Bounds, NEW b \in Bounds, a <= b
          PROVE  nextH[l].buckets[a] <= nextH[l].buckets[b]
      <4>1. a \in Nat /\ b \in Nat /\ value \in Nat
        BY BoundsAssumption
      <4>2. value <= a => value <= b
        BY <3>3, <4>1
      <4>3. h.buckets[a] <= h.buckets[b]
        BY ONLY <1>7, <3>3
      <4> QED BY ONLY <1>2, <2>1, <4>2, <4>3, a \in Bounds, b \in Bounds
    <3> QED BY <3>1, <3>2, <3>3
  <2>2. CASE l # label
    <3>1. l \in DOMAIN histograms /\ nextH[l] = histograms[l]
      <4> HIDE DEF nextH
      <4> QED BY ONLY <1>2, <1>8, <2>2
    <3>2. SumFunctionOnSet(nextC, Of(nextC, l)) = SumFunctionOnSet(counters, Of(counters, l))
      <4> HIDE DEF nextC, Of
      <4> QED BY ONLY <1>3, <2>2
    <3>3. /\ histograms[l].count = SumFunctionOnSet(counters, Of(counters, l))
          /\ \A a, b \in Bounds : a <= b => histograms[l].buckets[a] <= histograms[l].buckets[b]
          /\ \A b \in Bounds : histograms[l].buckets[b] <= histograms[l].count
      BY <3>1 DEF SumsUp
    <3> HIDE DEF nextH, nextC, Of
    <3> QED BY ONLY <3>1, <3>2, <3>3
  <2> QED BY <2>1, <2>2
<1> HIDE DEF nextC, nextH
<1>9. SumsUp(nextC, nextH)
  BY <1>5, <1>8 DEF SumsUp
<1> QED BY <1>9 DEF nextC, nextH, key

-----------------------------------------------------------------------------
\* The inductive invariant.

Stages == {"new", "returning", "sent", "reported", "recorded", "switching", "done"}

RequestType ==
    [pc : Stages, path : Paths \cup {<<>>}, runtime : Nat, pool : Pool \cup {"none"},
     outcome : Outcomes \cup {"none"}, status : {"200", "401", "404", "500", "502"}]

Typed ==
    /\ req \in [Request -> RequestType]
    /\ \A r \in Request : req[r].pc \in {"sent", "reported", "recorded", "switching"} =>
                              req[r].pool \in Pool
    /\ runtime \in Nat
    /\ told \in [Pool -> [good : Nat, bad : Nat]]
    /\ Counters(httpRequests) /\ Histograms(httpDurations)
    /\ Counters(proxyRequests) /\ Histograms(proxyDurations)
    /\ Counters(websocketSessions)

\* The attempts on a pool that ended in one of some outcomes, in some series, and
\* those that were reported and are still to be counted.
Attempts(series, p, outcomes) ==
    SumFunctionOnSet(series, {k \in DOMAIN series : k[1][2] = p /\ k[2] \in outcomes})

Uncounted(p, outcomes) ==
    {r \in Request : req[r].pc = "reported" /\ req[r].pool = p /\ req[r].outcome \in outcomes}

Heard(p, outcomes) == IF outcomes = Faults THEN told[p].bad ELSE told[p].good

\* A report comes before its count: the manager has heard of all that is counted
\* and all that will be without a further report.
ReportsLead ==
    \A p \in Pool, outcomes \in {Faults, {"success"}} :
        Attempts(proxyRequests, p, outcomes) + Cardinality(Uncounted(p, outcomes)) <= Heard(p, outcomes)

\* Before the first reload there is one manager, and it hears all there is to hear.
OneManager == runtime = 0 => known = told /\ \A r \in Request : req[r].runtime = 0

\* The requests on a pool whose success was counted and that may yet be upgraded.
Succeeded(p) ==
    {r \in Request :
        /\ req[r].pool = p /\ Protocol(req[r].path) = "playwright"
        /\ req[r].pc = "recorded" /\ req[r].outcome = "success"}

Upgraded(series, p) == Value(series, <<p, "upgraded">>, 0)
Successes(series, p) == Value(series, << <<"playwright", p>>, "success">>, 0)

UpgradesLag ==
    \A p \in Pool :
        Upgraded(websocketSessions, p) + Cardinality(Succeeded(p)) <= Successes(proxyRequests, p)

\* What a scrape holds is the live series at an earlier moment: what it says of
\* itself, and of the manager.
Copies(s) ==
    s = [pc |-> s.pc, httpRequests |-> s.httpRequests, httpDurations |-> s.httpDurations,
         proxyRequests |-> s.proxyRequests, proxyDurations |-> s.proxyDurations,
         websocketSessions |-> s.websocketSessions]

AddsUp(s) ==
    /\ SumsUp(s.httpRequests, s.httpDurations)
    /\ SumsUp(s.proxyRequests, s.proxyDurations)
    /\ \A p \in Pool : Upgraded(s.websocketSessions, p) <= Successes(s.proxyRequests, p)

WasHeard(s) ==
    \A p \in Pool, outcomes \in {Faults, {"success"}} :
        /\ Attempts(s.proxyRequests, p, outcomes) \in Nat
        /\ Attempts(s.proxyRequests, p, outcomes) <= Heard(p, outcomes)

Taken == scrape.pc \in {"taken", "shown"} => Copies(scrape) /\ AddsUp(scrape) /\ WasHeard(scrape)

InStep == SumsUp(httpRequests, httpDurations) /\ SumsUp(proxyRequests, proxyDurations)

Inv == Typed /\ ReportsLead /\ OneManager /\ UpgradesLag /\ InStep /\ Taken

-----------------------------------------------------------------------------

\* How many requests are in a set when one of them moves.
LEMMA MoveLemma ==
    ASSUME NEW S \in SUBSET Request, NEW T \in SUBSET Request, NEW r \in Request,
           \A s \in Request \ {r} : s \in T => s \in S
    PROVE  /\ Cardinality(S) \in Nat /\ Cardinality(T) \in Nat
           /\ Cardinality(T) <= Cardinality(S) + 1
           /\ r \in S \/ r \notin T => Cardinality(T) <= Cardinality(S)
           /\ r \in S /\ r \notin T => Cardinality(T) + 1 <= Cardinality(S)
<1>1. IsFiniteSet(S) /\ IsFiniteSet(T)
  BY RequestAssumption, FS_Subset
<1>2. Cardinality(S) \in Nat /\ Cardinality(T) \in Nat
  BY ONLY <1>1, FS_CardinalityType
<1>3. Cardinality(T) <= Cardinality(S) + 1
  <2>1. T \in SUBSET (S \cup {r})
    OBVIOUS
  <2>2. /\ IsFiniteSet(S \cup {r})
        /\ Cardinality(S \cup {r}) = IF r \in S THEN Cardinality(S) ELSE Cardinality(S) + 1
    BY ONLY <1>1, FS_AddElement
  <2>3. Cardinality(T) <= Cardinality(S \cup {r})
    BY ONLY <2>1, <2>2, FS_Subset
  <2> QED BY ONLY <1>2, <2>2, <2>3
<1>4. ASSUME r \in S \/ r \notin T
      PROVE  Cardinality(T) <= Cardinality(S)
  <2>1. T \in SUBSET S
    BY <1>4
  <2> QED BY ONLY <1>1, <2>1, FS_Subset
<1>5. ASSUME r \in S, r \notin T
      PROVE  Cardinality(T) + 1 <= Cardinality(S)
  <2>1. T \cup {r} \in SUBSET S
    BY <1>5
  <2>2. Cardinality(T \cup {r}) = Cardinality(T) + 1
    BY ONLY <1>1, <1>5, FS_AddElement
  <2>3. Cardinality(T \cup {r}) <= Cardinality(S)
    BY ONLY <1>1, <2>1, FS_Subset
  <2> QED BY ONLY <2>2, <2>3
<1> QED BY <1>2, <1>3, <1>4, <1>5

LEMMA AttemptsIncremented ==
    ASSUME NEW series, Counters(series), NEW protocol, NEW pool, NEW outcome, NEW p, NEW outcomes
    PROVE  /\ Attempts(series, p, outcomes) \in Nat
           /\ Attempts(Incremented(series, << <<protocol, pool>>, outcome>>), p, outcomes)
                = Attempts(series, p, outcomes)
                    + IF pool = p /\ outcome \in outcomes THEN 1 ELSE 0
<1> DEFINE key == << <<protocol, pool>>, outcome>>
           next == Incremented(series, key)
           Of(s) == {k \in DOMAIN s : k[1][2] = p /\ k[2] \in outcomes}
<1>1. key[1][2] = pool /\ key[2] = outcome
  OBVIOUS
<1> HIDE DEF key
<1>2. DOMAIN next = DOMAIN series \cup {key}
  BY IncrementedLemma
<1>3. /\ Of(next) \in SUBSET (DOMAIN series \cup {key})
      /\ Of(next) \cap DOMAIN series = Of(series)
      /\ key \in Of(next) <=> pool = p /\ outcome \in outcomes
  BY <1>1, <1>2
<1> HIDE DEF Of
<1>4. /\ SumFunctionOnSet(series, Of(next) \cap DOMAIN series) \in Nat
      /\ SumFunctionOnSet(next, Of(next))
           = SumFunctionOnSet(series, Of(next) \cap DOMAIN series)
               + IF key \in Of(next) THEN 1 ELSE 0
  BY ONLY <1>3, Counters(series), SumIncremented
<1>5. /\ SumFunctionOnSet(series, Of(series)) \in Nat
      /\ SumFunctionOnSet(next, Of(next))
           = SumFunctionOnSet(series, Of(series)) + IF pool = p /\ outcome \in outcomes THEN 1 ELSE 0
  BY ONLY <1>3, <1>4
<1> QED BY ONLY <1>5 DEF Attempts, Of, next, key

\* What the manager is told.
LEMMA ToldLemma ==
    ASSUME Typed, NEW r \in Request, req[r].pool \in Pool,
           ReportFailure(r) \/ ReportSuccess(r) \/ UNCHANGED told
    PROVE  /\ told' \in [Pool -> [good : Nat, bad : Nat]]
           /\ \A p \in Pool, outcomes \in {Faults, {"success"}} :
                /\ Heard(p, outcomes) \in Nat /\ Heard(p, outcomes)' \in Nat
                /\ Heard(p, outcomes)' >= Heard(p, outcomes)
                /\ ReportFailure(r) /\ p = req[r].pool /\ outcomes = Faults =>
                       Heard(p, outcomes)' = Heard(p, outcomes) + 1
                /\ ReportSuccess(r) /\ p = req[r].pool /\ outcomes = {"success"} =>
                       Heard(p, outcomes)' = Heard(p, outcomes) + 1
<1> DEFINE pool == req[r].pool
<1>1. told \in [Pool -> [good : Nat, bad : Nat]]
  BY DEF Typed
<1>2. Faults # {"success"}
  BY DEF Faults
<1>3. CASE ReportFailure(r)
  <2>1. told' = [told EXCEPT ![pool] = [told[pool] EXCEPT !.bad = told[pool].bad + 1]]
    BY <1>3 DEF ReportFailure
  <2>2. /\ told' \in [Pool -> [good : Nat, bad : Nat]]
        /\ \A p \in Pool : /\ told'[p].good = told[p].good
                           /\ told'[p].bad = told[p].bad + IF p = pool THEN 1 ELSE 0
    BY <1>1, <2>1
  <2>3. ReportSuccess(r) => FALSE
    <3>1. ReportSuccess(r) => told' = [told EXCEPT ![pool] = [told[pool] EXCEPT !.good = told[pool].good + 1]]
      BY DEF ReportSuccess
    <3>2. ReportSuccess(r) => told'[pool].good = told[pool].good + 1
      BY ONLY <1>1, <3>1, req[r].pool \in Pool
    <3> QED BY <1>1, <2>2, <3>2
  <2> QED BY <1>1, <1>2, <2>2, <2>3 DEF Heard
<1>4. CASE ReportSuccess(r)
  <2>1. told' = [told EXCEPT ![pool] = [told[pool] EXCEPT !.good = told[pool].good + 1]]
    BY <1>4 DEF ReportSuccess
  <2>2. /\ told' \in [Pool -> [good : Nat, bad : Nat]]
        /\ \A p \in Pool : /\ told'[p].bad = told[p].bad
                           /\ told'[p].good = told[p].good + IF p = pool THEN 1 ELSE 0
    BY <1>1, <2>1
  <2>3. ReportFailure(r) => FALSE
    <3>1. ReportFailure(r) => told' = [told EXCEPT ![pool] = [told[pool] EXCEPT !.bad = told[pool].bad + 1]]
      BY DEF ReportFailure
    <3>2. ReportFailure(r) => told'[pool].bad = told[pool].bad + 1
      BY ONLY <1>1, <3>1, req[r].pool \in Pool
    <3> QED BY <1>1, <2>2, <3>2
  <2> QED BY <1>1, <1>2, <2>2, <2>3 DEF Heard
<1>5. CASE UNCHANGED told
  <2>1. ~ReportFailure(r) /\ ~ReportSuccess(r)
    <3>1. told[pool].good \in Nat /\ told[pool].bad \in Nat
      BY <1>1
    <3>2. ReportFailure(r) => told'[pool].bad = told[pool].bad + 1
      BY <1>1 DEF ReportFailure
    <3>3. ReportSuccess(r) => told'[pool].good = told[pool].good + 1
      BY <1>1 DEF ReportSuccess
    <3> QED BY <1>5, <3>1, <3>2, <3>3
  <2> QED BY <1>1, <1>5, <2>1 DEF Heard
<1> QED BY <1>3, <1>4, <1>5

\* One request moves on: the series it counts in, and its place in the sets above.
LEMMA BecomesLemma ==
    ASSUME Typed, NEW r \in Request, NEW new \in RequestType, Becomes(r, new)
    PROVE  /\ req' \in [Request -> RequestType]
           /\ req'[r] = new
           /\ \A s \in Request \ {r} : req'[s] = req[s]
BY DEF Typed, Becomes

LEMMA StateLemma ==
    ASSUME NEW q \in RequestType
    PROVE  /\ \A path \in Paths, status \in {"200", "401"} :
                [q EXCEPT !.pc = "returning", !.path = path, !.status = status] \in RequestType
           /\ \A path \in Paths, n \in Nat, p \in Pool :
                [q EXCEPT !.pc = "sent", !.path = path, !.runtime = n, !.pool = p] \in RequestType
           /\ \A outcome \in Outcomes :
                [q EXCEPT !.pc = "reported", !.outcome = outcome, !.status = Status(outcome)]
                    \in RequestType
           /\ [q EXCEPT !.pc = "recorded"] \in RequestType
           /\ [q EXCEPT !.pc = "switching"] \in RequestType
           /\ [q EXCEPT !.pc = "returning", !.status = "502"] \in RequestType
           /\ [NewRequest EXCEPT !.pc = "done"] \in RequestType
<1>1. \A outcome \in Outcomes : Status(outcome) \in {"200", "401", "404", "500", "502"}
  BY DEF Outcomes, Status
<1>2. \A outcome \in Outcomes :
        [q EXCEPT !.pc = "reported", !.outcome = outcome, !.status = Status(outcome)] \in RequestType
  BY <1>1 DEF RequestType, Stages
<1>3. /\ \A path \in Paths, status \in {"200", "401"} :
           [q EXCEPT !.pc = "returning", !.path = path, !.status = status] \in RequestType
      /\ \A path \in Paths, n \in Nat, p \in Pool :
           [q EXCEPT !.pc = "sent", !.path = path, !.runtime = n, !.pool = p] \in RequestType
  BY DEF RequestType, Stages
<1>4. /\ [q EXCEPT !.pc = "recorded"] \in RequestType
      /\ [q EXCEPT !.pc = "switching"] \in RequestType
      /\ [q EXCEPT !.pc = "returning", !.status = "502"] \in RequestType
  BY DEF RequestType, Stages
<1>5. [NewRequest EXCEPT !.pc = "done"] \in RequestType
  BY DEF NewRequest, RequestType, Stages
<1> QED BY <1>2, <1>3, <1>4, <1>5

Moves(r) == Report(r) \/ Record(r) \/ BreakOff(r) \/ Upgrade(r) \/ SwitchFails(r) \/ Return(r)

\* What an action does to its own request, and to what the manager was told.
LEMMA RequestSteps ==
    ASSUME Typed, NEW r \in Request, (\E path \in Paths : Arrive(r, path)) \/ Moves(r)
    PROVE  \E new \in RequestType :
             /\ Becomes(r, new)
             /\ new.pc \in {"sent", "reported", "recorded", "switching"} => new.pool \in Pool
             /\ new.runtime \in {req[r].runtime, runtime, 0}
             /\ told' \in [Pool -> [good : Nat, bad : Nat]]
<1> DEFINE q == req[r]
<1>1. /\ q \in RequestType
      /\ q.pc \in {"sent", "reported", "recorded", "switching"} => q.pool \in Pool
      /\ runtime \in Nat
      /\ told \in [Pool -> [good : Nat, bad : Nat]]
  BY DEF Typed
<1>2. ASSUME NEW path \in Paths, Arrive(r, path)
      PROVE  \E new \in RequestType :
               /\ Becomes(r, new)
               /\ new.pc \in {"sent", "reported", "recorded", "switching"} => new.pool \in Pool
               /\ new.runtime \in {q.runtime, runtime, 0}
               /\ told' \in [Pool -> [good : Nat, bad : Nat]]
  <2>1. UNCHANGED told
    BY <1>2 DEF Arrive, managers
  <2>2. ASSUME NEW status \in {"200", "401"},
               Becomes(r, [q EXCEPT !.pc = "returning", !.path = path, !.status = status])
        PROVE  \E new \in RequestType :
                 Becomes(r, new) /\ new.pc = "returning" /\ new.runtime = q.runtime
    <3> DEFINE new == [q EXCEPT !.pc = "returning", !.path = path, !.status = status]
    <3>1. new \in RequestType
      BY ONLY <1>1, <2>2, path \in Paths, StateLemma
    <3>2. new.pc = "returning" /\ new.runtime = q.runtime
      BY ONLY <1>1 DEF RequestType
    <3> QED BY <2>2, <3>1, <3>2
  <2>3. ASSUME NEW p \in Pool,
               Becomes(r, [q EXCEPT !.pc = "sent", !.path = path, !.runtime = runtime, !.pool = p])
        PROVE  \E new \in RequestType :
                 Becomes(r, new) /\ new.pool \in Pool /\ new.runtime = runtime
    <3> DEFINE new == [q EXCEPT !.pc = "sent", !.path = path, !.runtime = runtime, !.pool = p]
    <3>1. new \in RequestType
      BY ONLY <1>1, <2>3, path \in Paths, StateLemma
    <3>2. new.pool = p /\ new.runtime = runtime
      BY ONLY <1>1 DEF RequestType
    <3> QED BY <2>3, <3>1, <3>2
  <2> QED BY <1>1, <1>2, <2>1, <2>2, <2>3 DEF Arrive
<1>3. ASSUME Report(r)
      PROVE  \E new \in RequestType :
               /\ Becomes(r, new)
               /\ new.pc \in {"sent", "reported", "recorded", "switching"} => new.pool \in Pool
               /\ new.runtime \in {q.runtime, runtime, 0}
               /\ told' \in [Pool -> [good : Nat, bad : Nat]]
  <2>1. PICK outcome \in Outcomes :
          /\ Becomes(r, [q EXCEPT !.pc = "reported", !.outcome = outcome, !.status = Status(outcome)])
          /\ ReportFailure(r) \/ ReportSuccess(r) \/ UNCHANGED told
    BY <1>3 DEF Report, Outcomes, Faults, managers
  <2>2. q.pool \in Pool
    BY <1>1, <1>3 DEF Report, At
  <2>3. told' \in [Pool -> [good : Nat, bad : Nat]]
    BY ONLY Typed, <2>1, <2>2, ToldLemma
  <2> DEFINE new == [q EXCEPT !.pc = "reported", !.outcome = outcome, !.status = Status(outcome)]
  <2>4. new \in RequestType
    BY ONLY <1>1, StateLemma
  <2>5. new.pool = q.pool /\ new.runtime = q.runtime
    BY ONLY <1>1 DEF RequestType
  <2> QED BY <2>1, <2>2, <2>3, <2>4, <2>5
<1>4. ASSUME NEW stage \in {"recorded", "switching"}, q.pool \in Pool, UNCHANGED told,
             Becomes(r, [q EXCEPT !.pc = stage])
      PROVE  \E new \in RequestType :
               /\ Becomes(r, new)
               /\ new.pc \in {"sent", "reported", "recorded", "switching"} => new.pool \in Pool
               /\ new.runtime \in {q.runtime, runtime, 0}
               /\ told' \in [Pool -> [good : Nat, bad : Nat]]
  <2> DEFINE new == [q EXCEPT !.pc = stage]
  <2>1. new \in RequestType
    BY ONLY <1>1, <1>4, StateLemma
  <2>2. new.pool = q.pool /\ new.runtime = q.runtime
    BY ONLY <1>1 DEF RequestType
  <2> QED BY <1>1, <1>4, <2>1, <2>2
<1>5. ASSUME BreakOff(r)
      PROVE  \E new \in RequestType :
               /\ Becomes(r, new)
               /\ new.pc \in {"sent", "reported", "recorded", "switching"} => new.pool \in Pool
               /\ new.runtime \in {q.runtime, runtime, 0}
               /\ told' \in [Pool -> [good : Nat, bad : Nat]]
  <2> DEFINE new == [q EXCEPT !.pc = "returning", !.status = "502"]
  <2>1. q.pool \in Pool /\ ReportFailure(r) /\ Becomes(r, new)
    BY <1>1, <1>5 DEF BreakOff, At
  <2>2. told' \in [Pool -> [good : Nat, bad : Nat]]
    BY ONLY Typed, <2>1, ToldLemma
  <2>3. new \in RequestType
    BY ONLY <1>1, StateLemma
  <2>4. new.pc = "returning" /\ new.runtime = q.runtime
    BY ONLY <1>1 DEF RequestType
  <2> QED BY <2>1, <2>2, <2>3, <2>4
<1>6. ASSUME SwitchFails(r)
      PROVE  \E new \in RequestType :
               /\ Becomes(r, new)
               /\ new.pc \in {"sent", "reported", "recorded", "switching"} => new.pool \in Pool
               /\ new.runtime \in {q.runtime, runtime, 0}
               /\ told' \in [Pool -> [good : Nat, bad : Nat]]
  <2> DEFINE new == [q EXCEPT !.pc = "reported", !.outcome = "error", !.status = Status("error")]
  <2>1. q.pool \in Pool /\ ReportFailure(r) /\ Becomes(r, new)
    BY <1>1, <1>6 DEF SwitchFails, At
  <2>2. told' \in [Pool -> [good : Nat, bad : Nat]]
    BY ONLY Typed, <2>1, ToldLemma
  <2>3. new \in RequestType
    BY ONLY <1>1, StateLemma DEF Outcomes
  <2>4. new.pool = q.pool /\ new.runtime = q.runtime
    BY ONLY <1>1 DEF RequestType
  <2> QED BY <2>1, <2>2, <2>3, <2>4
<1>7. ASSUME Return(r)
      PROVE  \E new \in RequestType :
               /\ Becomes(r, new)
               /\ new.pc \in {"sent", "reported", "recorded", "switching"} => new.pool \in Pool
               /\ new.runtime \in {q.runtime, runtime, 0}
               /\ told' \in [Pool -> [good : Nat, bad : Nat]]
  <2> DEFINE new == [NewRequest EXCEPT !.pc = "done"]
  <2>1. Becomes(r, new) /\ UNCHANGED told
    BY <1>7 DEF Return, managers
  <2>2. new \in RequestType
    BY ONLY <1>1, StateLemma
  <2>3. new.pc = "done" /\ new.runtime = 0
    BY DEF NewRequest
  <2> QED BY <1>1, <2>1, <2>2, <2>3
<1>8. ASSUME Record(r) \/ Upgrade(r)
      PROVE  \E stage \in {"recorded", "switching"} :
               q.pool \in Pool /\ UNCHANGED told /\ Becomes(r, [q EXCEPT !.pc = stage])
  BY <1>1, <1>8 DEF Record, Upgrade, At, managers
<1> QED BY <1>2, <1>3, <1>4, <1>5, <1>6, <1>7, <1>8 DEF Moves

\* Requests do not change the runtime, and without a reload the manager that is told
\* is the only one.
LEMMA RuntimeSteps ==
    ASSUME NEW r \in Request, (\E path \in Paths : Arrive(r, path)) \/ Moves(r)
    PROVE  /\ UNCHANGED runtime
           /\ known = told /\ req[r].runtime = runtime => known' = told'
<1>1. ASSUME NEW path \in Paths, Arrive(r, path)
      PROVE  UNCHANGED <<runtime, known, told>>
  BY <1>1 DEF Arrive, managers
<1>2. ASSUME Record(r) \/ Upgrade(r) \/ Return(r)
      PROVE  UNCHANGED <<runtime, known, told>>
  BY <1>2 DEF Record, Upgrade, Return, managers
<1>3. ASSUME ReportFailure(r) \/ ReportSuccess(r)
      PROVE  /\ UNCHANGED runtime
             /\ known = told /\ req[r].runtime = runtime => known' = told'
  BY <1>3 DEF ReportFailure, ReportSuccess
<1>4. ASSUME Report(r)
      PROVE  \/ UNCHANGED <<runtime, known, told>>
             \/ ReportFailure(r) \/ ReportSuccess(r)
  BY <1>4 DEF Report, Outcomes, Faults, managers
<1>5. ASSUME BreakOff(r) \/ SwitchFails(r)
      PROVE  ReportFailure(r)
  BY <1>5 DEF BreakOff, SwitchFails
<1> QED BY <1>1, <1>2, <1>3, <1>4, <1>5 DEF Moves

LEMMA SeriesSteps ==
    ASSUME Typed, [MNext]_<<vars, mvars>>
    PROVE  /\ \/ UNCHANGED httpSeries
              \/ \E r \in Request, d \in Durations :
                   /\ Return(r)
                   /\ httpRequests' = Incremented(httpRequests, <<RouteLabel(req[r].path), req[r].status>>)
                   /\ httpDurations' = Observed(httpDurations, RouteLabel(req[r].path), d)
           /\ \/ UNCHANGED proxySeries
              \/ \E r \in Request, d \in Durations :
                   LET key == <<Protocol(req[r].path), req[r].pool>>
                   IN  /\ Record(r)
                       /\ proxyRequests' = Incremented(proxyRequests, <<key, req[r].outcome>>)
                       /\ proxyDurations' = Observed(proxyDurations, key, d)
           /\ \/ UNCHANGED websocketSessions
              \/ \E key : websocketSessions' = Incremented(websocketSessions, key)
<1>1. ASSUME NEW r \in Request, NEW path \in Paths, Arrive(r, path)
      PROVE  /\ UNCHANGED <<httpSeries, proxySeries>>
             /\ \/ UNCHANGED websocketSessions
                \/ \E key : websocketSessions' = Incremented(websocketSessions, key)
  BY <1>1 DEF Arrive
<1>2. ASSUME NEW r \in Request, Report(r) \/ BreakOff(r) \/ SwitchFails(r)
      PROVE  UNCHANGED <<httpSeries, proxySeries, websocketSessions>>
  BY <1>2 DEF Report, BreakOff, SwitchFails
<1>3. ASSUME NEW r \in Request, Upgrade(r)
      PROVE  /\ UNCHANGED <<httpSeries, proxySeries>>
             /\ \/ UNCHANGED websocketSessions
                \/ \E key : websocketSessions' = Incremented(websocketSessions, key)
  BY <1>3 DEF Upgrade
<1>4. ASSUME NEW r \in Request, Return(r)
      PROVE  /\ UNCHANGED <<proxySeries, websocketSessions>>
             /\ \E d \in Durations :
                  /\ httpRequests' = Incremented(httpRequests, <<RouteLabel(req[r].path), req[r].status>>)
                  /\ httpDurations' = Observed(httpDurations, RouteLabel(req[r].path), d)
  BY <1>4 DEF Return
<1>5. ASSUME NEW r \in Request, Record(r)
      PROVE  /\ UNCHANGED <<httpSeries, websocketSessions>>
             /\ \E d \in Durations :
                  LET key == <<Protocol(req[r].path), req[r].pool>>
                  IN  /\ proxyRequests' = Incremented(proxyRequests, <<key, req[r].outcome>>)
                      /\ proxyDurations' = Observed(proxyDurations, key, d)
  BY <1>5 DEF Record
<1>6. ASSUME Take \/ Show \/ Finish \/ Pass \/ Reload \/ UNCHANGED <<vars, mvars>>
      PROVE  UNCHANGED <<httpSeries, proxySeries, websocketSessions>>
  BY <1>6 DEF Take, Show, Finish, Pass, Reload, mvars
<1> QED BY <1>1, <1>2, <1>3, <1>4, <1>5, <1>6 DEF MNext

LEMMA TypedStep ==
    ASSUME Typed, [MNext]_<<vars, mvars>>
    PROVE  Typed'
<1>1. /\ Counters(httpRequests)' /\ Histograms(httpDurations)'
      /\ Counters(proxyRequests)' /\ Histograms(proxyDurations)'
      /\ Counters(websocketSessions)'
  <2>1. /\ Counters(httpRequests) /\ Histograms(httpDurations)
        /\ Counters(proxyRequests) /\ Histograms(proxyDurations)
        /\ Counters(websocketSessions)
    BY DEF Typed
  <2>2. \A series, key : Counters(series) => Counters(Incremented(series, key))
    BY IncrementedLemma
  <2>3. \A series, key : \A d \in Durations : Histograms(series) => Histograms(Observed(series, key, d))
    BY ObservedLemma
  <2>4. Counters(httpRequests') /\ Histograms(httpDurations')
    BY <2>1, <2>2, <2>3, SeriesSteps DEF httpSeries
  <2>5. Counters(proxyRequests') /\ Histograms(proxyDurations')
    BY <2>1, <2>2, <2>3, SeriesSteps DEF proxySeries
  <2>6. Counters(websocketSessions')
    BY <2>1, <2>2, SeriesSteps
  <2> QED BY <2>4, <2>5, <2>6 DEF Counters, Histograms
<1>2. CASE UNCHANGED <<req, told>> /\ runtime' \in Nat
  BY <1>1, <1>2 DEF Typed, RequestType
<1>3. ASSUME NEW r \in Request, (\E path \in Paths : Arrive(r, path)) \/ Moves(r)
      PROVE  Typed'
  <2>1. PICK new \in RequestType :
             /\ Becomes(r, new)
             /\ new.pc \in {"sent", "reported", "recorded", "switching"} => new.pool \in Pool
             /\ told' \in [Pool -> [good : Nat, bad : Nat]]
    BY <1>3, RequestSteps
  <2>2. /\ req' \in [Request -> RequestType] /\ req'[r] = new
        /\ \A s \in Request \ {r} : req'[s] = req[s]
    BY <2>1, BecomesLemma
  <2>3. runtime' \in Nat
    BY <1>3, RuntimeSteps DEF Typed
  <2> QED BY <1>1, <2>1, <2>2, <2>3 DEF Typed, RequestType
<1>4. \/ UNCHANGED <<req, told>> /\ runtime' \in Nat
      \/ \E r \in Request : (\E path \in Paths : Arrive(r, path)) \/ Moves(r)
  BY DEF Typed, MNext, Moves, Take, Show, Finish, Pass, Reload, mvars, managers
<1> QED BY <1>2, <1>3, <1>4

LEMMA ManagerStep ==
    ASSUME Typed, OneManager, [MNext]_<<vars, mvars>>
    PROVE  OneManager'
<1>1. CASE UNCHANGED <<req, runtime, known, told>>
  BY <1>1 DEF OneManager
<1>2. CASE Reload
  <2>1. runtime' # 0
    BY <1>2 DEF Reload, Typed
  <2> QED BY <2>1 DEF OneManager
<1>3. ASSUME NEW r \in Request, (\E path \in Paths : Arrive(r, path)) \/ Moves(r)
      PROVE  OneManager'
  <2>1. PICK new \in RequestType :
          Becomes(r, new) /\ new.runtime \in {req[r].runtime, runtime, 0}
    BY <1>3, RequestSteps
  <2>2. /\ req'[r] = new
        /\ \A s \in Request \ {r} : req'[s] = req[s]
    BY <2>1, BecomesLemma
  <2>3. /\ UNCHANGED runtime
        /\ known = told /\ req[r].runtime = runtime => known' = told'
    BY <1>3, RuntimeSteps
  <2> QED BY <2>1, <2>2, <2>3 DEF OneManager
<1>4. \/ UNCHANGED <<req, runtime, known, told>> \/ Reload
      \/ \E r \in Request : (\E path \in Paths : Arrive(r, path)) \/ Moves(r)
  BY DEF MNext, Moves, Take, Show, Finish, Pass, mvars, managers
<1> QED BY <1>1, <1>2, <1>3, <1>4

LEMMA InStepStep ==
    ASSUME Typed, InStep, [MNext]_<<vars, mvars>>
    PROVE  InStep'
<1>1. /\ Counters(httpRequests) /\ Histograms(httpDurations)
      /\ Counters(proxyRequests) /\ Histograms(proxyDurations)
      /\ SumsUp(httpRequests, httpDurations) /\ SumsUp(proxyRequests, proxyDurations)
  BY DEF Typed, InStep
<1>2. SumsUp(httpRequests', httpDurations')
  <2>1. CASE UNCHANGED httpSeries
    BY <1>1, <2>1 DEF httpSeries
  <2>2. ASSUME NEW label, NEW rest, NEW d \in Durations,
               httpRequests' = Incremented(httpRequests, <<label, rest>>),
               httpDurations' = Observed(httpDurations, label, d)
        PROVE  SumsUp(httpRequests', httpDurations')
    BY ONLY <1>1, <2>2, SumsUpStep
  <2> QED BY <2>1, <2>2, SeriesSteps
<1>3. SumsUp(proxyRequests', proxyDurations')
  <2>1. CASE UNCHANGED proxySeries
    BY <1>1, <2>1 DEF proxySeries
  <2>2. ASSUME NEW label, NEW rest, NEW d \in Durations,
               proxyRequests' = Incremented(proxyRequests, <<label, rest>>),
               proxyDurations' = Observed(proxyDurations, label, d)
        PROVE  SumsUp(proxyRequests', proxyDurations')
    BY ONLY <1>1, <2>2, SumsUpStep
  <2> QED BY <2>1, <2>2, SeriesSteps
<1> QED BY <1>2, <1>3 DEF InStep, SumsUp

\* What the manager hears of a pool never becomes less.
LEMMA HeardGrows ==
    ASSUME Typed, [MNext]_<<vars, mvars>>, NEW p \in Pool, NEW outcomes \in {Faults, {"success"}}
    PROVE  /\ Heard(p, outcomes) \in Nat /\ Heard(p, outcomes)' \in Nat
           /\ Heard(p, outcomes)' >= Heard(p, outcomes)
<1>1. CASE UNCHANGED told
  BY <1>1 DEF Heard, Typed
<1>2. ASSUME NEW r \in Request, Report(r) \/ BreakOff(r) \/ SwitchFails(r)
      PROVE  req[r].pool \in Pool /\ (ReportFailure(r) \/ ReportSuccess(r) \/ UNCHANGED told)
  <2>1. req[r].pool \in Pool
    BY <1>2 DEF Report, BreakOff, SwitchFails, At, Typed
  <2>2. CASE Report(r)
    BY <2>1, <2>2 DEF Report, Outcomes, Faults, managers
  <2>3. CASE BreakOff(r) \/ SwitchFails(r)
    BY <2>1, <2>3 DEF BreakOff, SwitchFails
  <2> QED BY <1>2, <2>2, <2>3
<1>3. \/ UNCHANGED told
      \/ \E r \in Request : Report(r) \/ BreakOff(r) \/ SwitchFails(r)
  BY DEF MNext, Arrive, Record, Upgrade, Return, Take, Show, Finish, Pass, Reload, mvars, managers
<1> QED BY <1>1, <1>2, <1>3, ToldLemma

\* A request that stops counting, or starts to: the actions after which it is not
\* reported.
LEMMA PlacesLemma ==
    ASSUME Typed, NEW r \in Request
    PROVE  /\ \A path \in Paths : Arrive(r, path) =>
                \E new \in RequestType :
                   /\ Becomes(r, new) /\ UNCHANGED proxyRequests
                   /\ \/ new.pc = "returning" /\ UNCHANGED websocketSessions
                      \/ /\ new.pc = "sent" /\ new.path = path
                         /\ websocketSessions' =
                               IF path[1] = "playwright"
                               THEN Incremented(websocketSessions, <<new.pool, "started">>)
                               ELSE websocketSessions
           /\ BreakOff(r) \/ Return(r) =>
                \E new \in RequestType :
                   /\ Becomes(r, new) /\ UNCHANGED <<proxyRequests, websocketSessions>>
                   /\ new.pc \in {"returning", "done"}
           /\ Upgrade(r) =>
                \E new \in RequestType :
                   Becomes(r, new) /\ new.pc = "switching" /\ UNCHANGED proxyRequests
<1> DEFINE q == req[r]
<1>0. q \in RequestType /\ runtime \in Nat
  BY DEF Typed
<1>1. ASSUME NEW path \in Paths, Arrive(r, path)
      PROVE  \E new \in RequestType :
               /\ Becomes(r, new) /\ UNCHANGED proxyRequests
               /\ \/ new.pc = "returning" /\ UNCHANGED websocketSessions
                  \/ /\ new.pc = "sent" /\ new.path = path
                     /\ websocketSessions' =
                           IF path[1] = "playwright"
                           THEN Incremented(websocketSessions, <<new.pool, "started">>)
                           ELSE websocketSessions
  <2>1. UNCHANGED proxyRequests
    BY <1>1 DEF Arrive, proxySeries
  <2>2. ASSUME NEW status \in {"200", "401"}, UNCHANGED websocketSessions,
               Becomes(r, [q EXCEPT !.pc = "returning", !.path = path, !.status = status])
        PROVE  \E new \in RequestType : Becomes(r, new) /\ new.pc = "returning"
    <3> DEFINE new == [q EXCEPT !.pc = "returning", !.path = path, !.status = status]
    <3>1. new \in RequestType
      BY ONLY <1>0, <2>2, path \in Paths, StateLemma
    <3>2. new.pc = "returning"
      BY ONLY <1>0 DEF RequestType
    <3> QED BY <2>2, <3>1, <3>2
  <2>3. ASSUME NEW pool \in Pool,
               Becomes(r, [q EXCEPT !.pc = "sent", !.path = path, !.runtime = runtime, !.pool = pool])
        PROVE  \E new \in RequestType :
                 Becomes(r, new) /\ new.pc = "sent" /\ new.path = path /\ new.pool = pool
    <3> DEFINE new == [q EXCEPT !.pc = "sent", !.path = path, !.runtime = runtime, !.pool = pool]
    <3>1. new \in RequestType
      BY ONLY <1>0, <2>3, path \in Paths, StateLemma
    <3>2. new.pc = "sent" /\ new.path = path /\ new.pool = pool
      BY ONLY <1>0 DEF RequestType
    <3> QED BY <2>3, <3>1, <3>2
  <2> HIDE DEF q
  <2>4. \/ \E status \in {"200", "401"} :
              /\ UNCHANGED websocketSessions
              /\ Becomes(r, [q EXCEPT !.pc = "returning", !.path = path, !.status = status])
        \/ \E pool \in Pool :
              /\ Becomes(r, [q EXCEPT !.pc = "sent", !.path = path, !.runtime = runtime, !.pool = pool])
              /\ websocketSessions' = IF path[1] = "playwright"
                                      THEN Incremented(websocketSessions, <<pool, "started">>)
                                      ELSE websocketSessions
    BY <1>1 DEF Arrive, q
  <2>5. CASE \E status \in {"200", "401"} :
               /\ UNCHANGED websocketSessions
               /\ Becomes(r, [q EXCEPT !.pc = "returning", !.path = path, !.status = status])
    <3>1. PICK new \in RequestType : Becomes(r, new) /\ new.pc = "returning"
      BY <2>5, <2>2
    <3> QED BY <3>1, <2>1, <2>5
  <2>6. CASE \E pool \in Pool :
               /\ Becomes(r, [q EXCEPT !.pc = "sent", !.path = path, !.runtime = runtime, !.pool = pool])
               /\ websocketSessions' = IF path[1] = "playwright"
                                       THEN Incremented(websocketSessions, <<pool, "started">>)
                                       ELSE websocketSessions
    <3>1. PICK pool \in Pool :
             /\ Becomes(r, [q EXCEPT !.pc = "sent", !.path = path, !.runtime = runtime, !.pool = pool])
             /\ websocketSessions' = IF path[1] = "playwright"
                                     THEN Incremented(websocketSessions, <<pool, "started">>)
                                     ELSE websocketSessions
      BY <2>6
    <3>2. PICK new \in RequestType :
             Becomes(r, new) /\ new.pc = "sent" /\ new.path = path /\ new.pool = pool
      BY <3>1, <2>3
    <3> QED BY <3>1, <3>2, <2>1
  <2> QED BY <2>4, <2>5, <2>6
<1>2. ASSUME BreakOff(r)
      PROVE  \E new \in RequestType :
               /\ Becomes(r, new) /\ UNCHANGED <<proxyRequests, websocketSessions>>
               /\ new.pc \in {"returning", "done"}
  <2> DEFINE new == [q EXCEPT !.pc = "returning", !.status = "502"]
  <2>1. new \in RequestType
    BY ONLY <1>0, StateLemma
  <2>2. new.pc = "returning"
    BY ONLY <1>0 DEF RequestType
  <2>3. Becomes(r, new) /\ UNCHANGED <<proxyRequests, websocketSessions>>
    BY <1>2 DEF BreakOff, proxySeries
  <2> QED BY <2>1, <2>2, <2>3
<1>3. ASSUME Return(r)
      PROVE  \E new \in RequestType :
               /\ Becomes(r, new) /\ UNCHANGED <<proxyRequests, websocketSessions>>
               /\ new.pc \in {"returning", "done"}
  <2> DEFINE new == [NewRequest EXCEPT !.pc = "done"]
  <2>1. new \in RequestType
    BY ONLY <1>0, StateLemma
  <2>2. new.pc = "done"
    BY DEF NewRequest
  <2>3. Becomes(r, new) /\ UNCHANGED <<proxyRequests, websocketSessions>>
    BY <1>3 DEF Return, proxySeries
  <2> QED BY <2>1, <2>2, <2>3
<1>4. ASSUME Upgrade(r)
      PROVE  \E new \in RequestType :
               Becomes(r, new) /\ new.pc = "switching" /\ UNCHANGED proxyRequests
  <2> DEFINE new == [q EXCEPT !.pc = "switching"]
  <2>1. new \in RequestType
    BY ONLY <1>0, StateLemma
  <2>2. new.pc = "switching"
    BY ONLY <1>0 DEF RequestType
  <2>3. Becomes(r, new) /\ UNCHANGED proxyRequests
    BY <1>4 DEF Upgrade, proxySeries
  <2> QED BY <2>1, <2>2, <2>3
<1> QED BY <1>1, <1>2, <1>3, <1>4

LEMMA LeadStep ==
    ASSUME Typed, ReportsLead, [MNext]_<<vars, mvars>>
    PROVE  ReportsLead'
<1> SUFFICES ASSUME NEW p \in Pool, NEW outcomes \in {Faults, {"success"}}
             PROVE  Attempts(proxyRequests', p, outcomes) + Cardinality(Uncounted(p, outcomes)')
                      <= Heard(p, outcomes)'
  BY DEF ReportsLead, Attempts, Uncounted, Heard
<1> DEFINE sum == Attempts(proxyRequests, p, outcomes)
           here == Uncounted(p, outcomes)
           heard == Heard(p, outcomes)
           goal == Attempts(proxyRequests', p, outcomes) + Cardinality(here') <= heard'
<1>1. /\ sum \in Nat /\ here \in SUBSET Request /\ here' \in SUBSET Request
      /\ heard \in Nat /\ heard' \in Nat /\ heard' >= heard
      /\ sum + Cardinality(here) <= heard
  BY AttemptsIncremented, HeardGrows DEF Typed, ReportsLead, Uncounted
<1>2. Cardinality(here) \in Nat /\ Cardinality(here') \in Nat
  BY ONLY <1>1, RequestAssumption, FS_Subset, FS_CardinalityType
\* A request that neither is counted nor begins to wait for it.
<1>3. ASSUME UNCHANGED proxyRequests, Cardinality(here') <= Cardinality(here)
      PROVE  goal
  <2>1. Attempts(proxyRequests', p, outcomes) = sum
    BY <1>3
  <2> HIDE DEF sum, here, heard
  <2> QED BY ONLY <1>1, <1>2, <1>3, <2>1
<1>4. ASSUME NEW r \in Request, NEW new \in RequestType, Becomes(r, new)
      PROVE  /\ Cardinality(here') <= Cardinality(here) + 1
             /\ r \in here \/ r \notin here' => Cardinality(here') <= Cardinality(here)
             /\ r \in here /\ r \notin here' => Cardinality(here') + 1 <= Cardinality(here)
             /\ r \in here <=> /\ req[r].pc = "reported" /\ req[r].pool = p
                               /\ req[r].outcome \in outcomes
             /\ r \in here' <=> /\ new.pc = "reported" /\ new.pool = p
                                /\ new.outcome \in outcomes
  <2>1. /\ req'[r] = new
        /\ \A s \in Request \ {r} : req'[s] = req[s]
    BY <1>4, BecomesLemma
  <2>2. \A s \in Request \ {r} : s \in here' => s \in here
    BY <2>1 DEF Uncounted
  <2>3. /\ r \in here <=> /\ req[r].pc = "reported" /\ req[r].pool = p
                          /\ req[r].outcome \in outcomes
        /\ r \in here' <=> /\ new.pc = "reported" /\ new.pool = p
                           /\ new.outcome \in outcomes
    BY <2>1 DEF Uncounted
  <2> HIDE DEF here
  <2>4. /\ Cardinality(here') <= Cardinality(here) + 1
        /\ r \in here \/ r \notin here' => Cardinality(here') <= Cardinality(here)
        /\ r \in here /\ r \notin here' => Cardinality(here') + 1 <= Cardinality(here)
    BY ONLY <1>1, <1>4, <2>2, MoveLemma
  <2> QED BY ONLY <2>3, <2>4
<1>5. ASSUME NEW r \in Request, UNCHANGED proxyRequests,
             NEW new \in RequestType, Becomes(r, new), new.pc # "reported"
      PROVE  goal
  <2> HIDE DEF here, goal
  <2> QED BY ONLY <1>3, <1>4, <1>5
<1>6. ASSUME NEW r \in Request,
             (\E path \in Paths : Arrive(r, path)) \/ BreakOff(r) \/ Return(r) \/ Upgrade(r)
      PROVE  goal
  <2>1. \E new \in RequestType :
          Becomes(r, new) /\ new.pc # "reported" /\ UNCHANGED proxyRequests
    BY <1>6, PlacesLemma
  <2> HIDE DEF goal
  <2> QED BY ONLY <1>5, <2>1, r \in Request
\* A request that was reported, now or again.
<1>7. ASSUME NEW r \in Request, Report(r) \/ SwitchFails(r)
      PROVE  goal
  <2>0. req[r] \in RequestType /\ req[r].pool \in Pool /\ req[r].pc # "reported"
    BY <1>7 DEF Typed, Report, SwitchFails, At
  <2>1. PICK outcome \in Outcomes :
          /\ Becomes(r, [req[r] EXCEPT !.pc = "reported", !.outcome = outcome,
                                       !.status = Status(outcome)])
          /\ outcome \in Faults => ReportFailure(r)
          /\ outcome = "success" => ReportSuccess(r)
          /\ ReportFailure(r) \/ ReportSuccess(r) \/ UNCHANGED told
    <3>1. CASE Report(r)
      BY <3>1 DEF Report, Outcomes, Faults, managers
    <3>2. CASE SwitchFails(r)
      <4>1. "error" \in Outcomes /\ "error" # "success"
        BY DEF Outcomes
      <4> QED BY <3>2, <4>1 DEF SwitchFails
    <3> QED BY <1>7, <3>1, <3>2
  <2> DEFINE new == [req[r] EXCEPT !.pc = "reported", !.outcome = outcome,
                                   !.status = Status(outcome)]
  <2>2. new \in RequestType
    BY ONLY <2>0, StateLemma
  <2>3. new.pool = req[r].pool /\ new.outcome = outcome
    BY ONLY <2>0 DEF RequestType
  <2> HIDE DEF new
  <2>4. /\ r \notin here
        /\ r \in here' <=> new.pc = "reported" /\ new.pool = p /\ new.outcome \in outcomes
        /\ Cardinality(here') <= Cardinality(here) + 1
        /\ r \notin here' => Cardinality(here') <= Cardinality(here)
    <3> HIDE DEF here
    <3> QED BY ONLY <1>4, <2>0, <2>1, <2>2, r \in Request DEF new
  <2>5. UNCHANGED proxyRequests
    BY <1>7 DEF Report, SwitchFails, proxySeries
  <2>6. CASE r \notin here'
    <3> HIDE DEF here, goal
    <3> QED BY ONLY <1>3, <2>4, <2>5, <2>6
  <2>7. CASE r \in here'
    <3>1. p = req[r].pool /\ outcome \in outcomes
      <4> HIDE DEF here
      <4> QED BY ONLY <2>3, <2>4, <2>7
    <3>2. heard' = heard + 1
      BY <2>0, <2>1, <3>1, ToldLemma
    <3>3. Attempts(proxyRequests', p, outcomes) = sum
      BY <2>5
    <3> HIDE DEF here, heard, sum
    <3> QED BY ONLY <1>1, <1>2, <2>4, <3>2, <3>3
  <2> QED BY <2>6, <2>7
<1>8. ASSUME NEW r \in Request, Record(r)
      PROVE  goal
  <2>0. req[r] \in RequestType /\ req[r].pc = "reported"
    BY <1>8 DEF Typed, Record, At
  <2> DEFINE new == [req[r] EXCEPT !.pc = "recorded"]
  <2>1. Becomes(r, new)
    BY <1>8 DEF Record
  <2>2. new \in RequestType
    BY ONLY <2>0, StateLemma
  <2>3. new.pc = "recorded"
    BY ONLY <2>0 DEF RequestType
  <2> HIDE DEF new
  <2>4. /\ r \notin here'
        /\ r \in here <=> req[r].pool = p /\ req[r].outcome \in outcomes
        /\ Cardinality(here') <= Cardinality(here)
        /\ r \in here => Cardinality(here') + 1 <= Cardinality(here)
    <3> HIDE DEF here
    <3> QED BY ONLY <1>4, <2>0, <2>1, <2>2, <2>3, r \in Request
  <2>5. Attempts(proxyRequests', p, outcomes)
          = sum + IF req[r].pool = p /\ req[r].outcome \in outcomes THEN 1 ELSE 0
    <3>1. Counters(proxyRequests)
      BY DEF Typed
    <3>2. proxyRequests' = Incremented(proxyRequests,
                               << <<Protocol(req[r].path), req[r].pool>>, req[r].outcome>>)
      BY <1>8 DEF Record
    <3> QED BY ONLY <3>1, <3>2, AttemptsIncremented
  <2> HIDE DEF here, heard, sum
  <2> QED BY ONLY <1>1, <1>2, <2>4, <2>5
<1>9. ASSUME Take \/ Show \/ Finish \/ Pass \/ Reload \/ UNCHANGED <<vars, mvars>>
       PROVE  goal
  <2>1. UNCHANGED <<req, proxyRequests>>
    BY <1>9 DEF Take, Show, Finish, Pass, Reload, mvars, proxySeries
  <2>2. here' = here
    BY <2>1 DEF Uncounted
  <2>3. Cardinality(here') <= Cardinality(here)
    BY ONLY <1>2, <2>2
  <2> QED BY <1>3, <2>1, <2>3
<1> HIDE DEF goal
<1>10. goal
  BY <1>6, <1>7, <1>8, <1>9 DEF MNext
<1> QED BY <1>10 DEF goal

LEMMA CountLemma ==
    ASSUME NEW series, Counters(series), NEW key, NEW next, next = Incremented(series, key), NEW k
    PROVE  Value(next, k, 0) = Value(series, k, 0) + IF k = key THEN 1 ELSE 0
<1>1. LET n == Incremented(series, key)
      IN  \A j : Value(n, j, 0) = Value(series, j, 0) + IF j = key THEN 1 ELSE 0
  BY ONLY Counters(series), IncrementedLemma
<1> QED BY ONLY <1>1, next = Incremented(series, key)

LEMMA UpgradeStep ==
    ASSUME Typed, UpgradesLag, [MNext]_<<vars, mvars>>
    PROVE  UpgradesLag'
<1> SUFFICES ASSUME NEW p \in Pool
             PROVE  Upgraded(websocketSessions', p) + Cardinality(Succeeded(p)')
                      <= Successes(proxyRequests', p)
  BY DEF UpgradesLag, Upgraded, Successes
<1> DEFINE upgraded == Upgraded(websocketSessions, p)
           successes == Successes(proxyRequests, p)
           will == Succeeded(p)
           goal == Upgraded(websocketSessions', p) + Cardinality(will')
                     <= Successes(proxyRequests', p)
<1>1. Counters(websocketSessions) /\ Counters(proxyRequests)
  BY DEF Typed
<1>2. /\ upgraded \in Nat /\ successes \in Nat
      /\ upgraded + Cardinality(will) <= successes
  <2>1. upgraded \in Nat /\ successes \in Nat
    BY <1>1, IncrementedLemma DEF Upgraded, Successes
  <2> QED BY <2>1 DEF UpgradesLag
<1>3. will \in SUBSET Request /\ will' \in SUBSET Request
  BY DEF Succeeded
<1>4. Cardinality(will) \in Nat /\ Cardinality(will') \in Nat
  BY ONLY <1>3, RequestAssumption, FS_Subset, FS_CardinalityType
<1>5. ASSUME NEW r \in Request, NEW new \in RequestType, Becomes(r, new)
      PROVE  /\ r \in will <=>
                   /\ req[r].pool = p /\ Protocol(req[r].path) = "playwright"
                   /\ req[r].pc = "recorded" /\ req[r].outcome = "success"
             /\ r \in will' <=>
                   /\ new.pool = p /\ Protocol(new.path) = "playwright"
                   /\ new.pc = "recorded" /\ new.outcome = "success"
             /\ Cardinality(will') <= Cardinality(will) + 1
             /\ r \in will \/ r \notin will' => Cardinality(will') <= Cardinality(will)
             /\ r \in will /\ r \notin will' => Cardinality(will') + 1 <= Cardinality(will)
  <2>1. /\ req'[r] = new
        /\ \A s \in Request \ {r} : req'[s] = req[s]
    BY <1>5, BecomesLemma
  <2>2. \A s \in Request \ {r} : s \in will' => s \in will
    BY <2>1 DEF Succeeded
  <2>3. /\ r \in will <=>
              /\ req[r].pool = p /\ Protocol(req[r].path) = "playwright"
              /\ req[r].pc = "recorded" /\ req[r].outcome = "success"
        /\ r \in will' <=>
              /\ new.pool = p /\ Protocol(new.path) = "playwright"
              /\ new.pc = "recorded" /\ new.outcome = "success"
    BY <2>1 DEF Succeeded
  <2> HIDE DEF will
  <2>4. /\ Cardinality(will') <= Cardinality(will) + 1
        /\ r \in will \/ r \notin will' => Cardinality(will') <= Cardinality(will)
        /\ r \in will /\ r \notin will' => Cardinality(will') + 1 <= Cardinality(will)
    BY ONLY <1>3, <1>5, <2>2, MoveLemma
  <2> QED BY ONLY <2>3, <2>4
\* Neither upgrades nor successes are counted, and no request waits for its upgrade
\* that did not before.
<1>6. ASSUME Upgraded(websocketSessions', p) = upgraded, UNCHANGED proxyRequests,
             Cardinality(will') <= Cardinality(will)
      PROVE  goal
  <2>1. Successes(proxyRequests', p) = successes
    BY <1>6
  <2> HIDE DEF upgraded, successes, will
  <2> QED BY ONLY <1>2, <1>4, <1>6, <2>1
<1>7. ASSUME NEW r \in Request, NEW new \in RequestType, Becomes(r, new),
             new.pc # "recorded",
             UNCHANGED proxyRequests, Upgraded(websocketSessions', p) = upgraded
      PROVE  goal
  <2>1. Cardinality(will') <= Cardinality(will)
    <3> HIDE DEF will
    <3> QED BY ONLY <1>5, <1>7
  <2> QED BY <1>6, <1>7, <2>1
\* A session that is started counts with the upgraded ones only later.
<1>8. ASSUME NEW r \in Request, NEW path \in Paths, Arrive(r, path)
      PROVE  goal
  <2>1. PICK new \in RequestType :
          /\ Becomes(r, new) /\ UNCHANGED proxyRequests
          /\ \/ new.pc = "returning" /\ UNCHANGED websocketSessions
             \/ /\ new.pc = "sent" /\ new.path = path
                /\ websocketSessions' = IF path[1] = "playwright"
                                        THEN Incremented(websocketSessions, <<new.pool, "started">>)
                                        ELSE websocketSessions
    BY <1>8, PlacesLemma
  <2>2. Upgraded(websocketSessions', p) = upgraded
    <3>1. CASE UNCHANGED websocketSessions
      BY <3>1
    <3>2. CASE websocketSessions' = Incremented(websocketSessions, <<new.pool, "started">>)
      <4>1. <<p, "upgraded">> # <<new.pool, "started">>
        OBVIOUS
      <4>2. \A k : Value(websocketSessions', k, 0) = Value(websocketSessions, k, 0)
                     + IF k = <<new.pool, "started">> THEN 1 ELSE 0
        BY ONLY <1>1, <3>2, CountLemma
      <4> QED BY <1>2, <4>1, <4>2 DEF Upgraded
    <3> QED BY <2>1, <3>1, <3>2
  <2>3. new.pc # "recorded"
    BY <2>1
  <2> HIDE DEF goal, upgraded
  <2> QED BY ONLY <1>7, <2>1, <2>2, <2>3, r \in Request
<1>9. ASSUME NEW r \in Request, BreakOff(r) \/ Return(r)
      PROVE  goal
  <2>1. PICK new \in RequestType :
          /\ Becomes(r, new) /\ UNCHANGED <<proxyRequests, websocketSessions>>
          /\ new.pc \in {"returning", "done"}
    BY <1>9, PlacesLemma
  <2>2. Upgraded(websocketSessions', p) = upgraded /\ new.pc # "recorded"
    BY <2>1
  <2> HIDE DEF goal, upgraded
  <2> QED BY ONLY <1>7, <2>1, <2>2, r \in Request
<1>10. ASSUME NEW r \in Request, Report(r) \/ SwitchFails(r)
       PROVE  goal
  <2>1. req[r] \in RequestType
    BY DEF Typed
  <2>2. PICK outcome \in Outcomes :
          Becomes(r, [req[r] EXCEPT !.pc = "reported", !.outcome = outcome,
                                    !.status = Status(outcome)])
    BY <1>10 DEF Report, SwitchFails, Outcomes
  <2> DEFINE new == [req[r] EXCEPT !.pc = "reported", !.outcome = outcome,
                                   !.status = Status(outcome)]
  <2>3. new \in RequestType
    BY ONLY <2>1, StateLemma
  <2>4. new.pc # "recorded"
    BY ONLY <2>1 DEF RequestType
  <2>5. Becomes(r, new)
    BY <2>2
  <2>6. UNCHANGED proxyRequests /\ Upgraded(websocketSessions', p) = upgraded
    BY <1>10 DEF Report, SwitchFails, proxySeries
  <2> HIDE DEF new, goal, upgraded
  <2> QED BY ONLY <1>7, <2>3, <2>4, <2>5, <2>6, r \in Request
\* A success of a Playwright request is counted before it is upgraded.
<1>11. ASSUME NEW r \in Request, Record(r)
       PROVE  goal
  <2>1. req[r] \in RequestType /\ req[r].pc = "reported"
    BY <1>11 DEF Typed, Record, At
  <2> DEFINE new == [req[r] EXCEPT !.pc = "recorded"]
             counted == /\ req[r].pool = p /\ Protocol(req[r].path) = "playwright"
                        /\ req[r].outcome = "success"
             key == << <<Protocol(req[r].path), req[r].pool>>, req[r].outcome>>
  <2>2. new \in RequestType
    BY ONLY <2>1, StateLemma
  <2>3. /\ new.pc = "recorded" /\ new.outcome = req[r].outcome
        /\ new.pool = req[r].pool /\ new.path = req[r].path
    BY ONLY <2>1 DEF RequestType
  <2>4. /\ Becomes(r, new)
        /\ proxyRequests' = Incremented(proxyRequests, key)
        /\ UNCHANGED websocketSessions
    BY <1>11 DEF Record
  <2> HIDE DEF new
  <2>5. Cardinality(will') <= Cardinality(will) + IF counted THEN 1 ELSE 0
    <3> HIDE DEF will
    <3> QED BY ONLY <1>4, <1>5, <2>1, <2>2, <2>3, <2>4, r \in Request
  <2>6. key = << <<"playwright", p>>, "success">> <=> counted
    OBVIOUS
  <2>7. Successes(proxyRequests', p) = successes + IF counted THEN 1 ELSE 0
    <3> HIDE DEF key, counted
    <3>1. Value(proxyRequests', << <<"playwright", p>>, "success">>, 0)
            = Value(proxyRequests, << <<"playwright", p>>, "success">>, 0)
                + IF << <<"playwright", p>>, "success">> = key THEN 1 ELSE 0
      BY ONLY <1>1, <2>4, CountLemma
    <3> QED BY ONLY <2>6, <3>1 DEF Successes
  <2>8. Upgraded(websocketSessions', p) = upgraded
    BY <2>4
  <2> HIDE DEF upgraded, successes, will, counted
  <2> QED BY ONLY <1>2, <1>4, <2>5, <2>7, <2>8
\* An upgraded request may not be upgraded again.
<1>12. ASSUME NEW r \in Request, Upgrade(r)
       PROVE  goal
  <2>1. /\ req[r].pc = "recorded" /\ req[r].outcome = "success"
        /\ websocketSessions' = IF Protocol(req[r].path) = "playwright"
                                THEN Incremented(websocketSessions, <<req[r].pool, "upgraded">>)
                                ELSE websocketSessions
    BY <1>12 DEF Upgrade, At
  <2>2. PICK new \in RequestType :
          Becomes(r, new) /\ new.pc = "switching" /\ UNCHANGED proxyRequests
    BY <1>12, PlacesLemma
  <2> DEFINE counted == req[r].pool = p /\ Protocol(req[r].path) = "playwright"
  <2>3. Cardinality(will') + (IF counted THEN 1 ELSE 0) <= Cardinality(will)
    <3> HIDE DEF will
    <3> QED BY ONLY <1>4, <1>5, <2>1, <2>2, r \in Request
  <2>4. Upgraded(websocketSessions', p) = upgraded + IF counted THEN 1 ELSE 0
    <3>1. CASE Protocol(req[r].path) = "playwright"
      <4>1. <<p, "upgraded">> = <<req[r].pool, "upgraded">> <=> req[r].pool = p
        OBVIOUS
      <4>2. websocketSessions' = Incremented(websocketSessions, <<req[r].pool, "upgraded">>)
        BY <2>1, <3>1
      <4>3. \A k : Value(websocketSessions', k, 0) = Value(websocketSessions, k, 0)
                     + IF k = <<req[r].pool, "upgraded">> THEN 1 ELSE 0
        BY ONLY <1>1, <4>2, CountLemma
      <4> QED BY <1>2, <3>1, <4>1, <4>3 DEF Upgraded
    <3>2. CASE Protocol(req[r].path) # "playwright"
      BY <1>2, <2>1, <3>2
    <3> QED BY <3>1, <3>2
  <2>5. Successes(proxyRequests', p) = successes
    BY <2>2
  <2> HIDE DEF upgraded, successes, will, counted
  <2> QED BY ONLY <1>2, <1>4, <2>3, <2>4, <2>5
<1>13. ASSUME Take \/ Show \/ Finish \/ Pass \/ Reload \/ UNCHANGED <<vars, mvars>>
       PROVE  goal
  <2>1. UNCHANGED <<req, proxyRequests, websocketSessions>>
    BY <1>13 DEF Take, Show, Finish, Pass, Reload, mvars, proxySeries
  <2>2. will' = will /\ Upgraded(websocketSessions', p) = upgraded
    BY <2>1 DEF Succeeded
  <2>3. Cardinality(will') <= Cardinality(will)
    <3> HIDE DEF will
    <3> QED BY ONLY <1>4, <2>2
  <2> QED BY <1>6, <2>1, <2>2, <2>3
<1> HIDE DEF goal
<1>14. goal
  BY <1>8, <1>9, <1>10, <1>11, <1>12, <1>13 DEF MNext
<1> QED BY <1>14 DEF goal

LEMMA TakenStep ==
    ASSUME Inv, [MNext]_<<vars, mvars>>
    PROVE  Taken'
<1>1. Typed /\ ReportsLead /\ UpgradesLag /\ InStep /\ Taken
  BY DEF Inv
<1>2. \A p \in Pool, outcomes \in {Faults, {"success"}} :
         /\ Heard(p, outcomes) \in Nat /\ Heard(p, outcomes)' \in Nat
         /\ Heard(p, outcomes)' >= Heard(p, outcomes)
  BY <1>1, HeardGrows
\* The manager only ever hears more.
<1>3. ASSUME NEW s, WasHeard(s)
      PROVE  WasHeard(s)'
  <2> SUFFICES ASSUME NEW p \in Pool, NEW outcomes \in {Faults, {"success"}}
               PROVE  /\ Attempts(s.proxyRequests, p, outcomes) \in Nat
                      /\ Attempts(s.proxyRequests, p, outcomes) <= Heard(p, outcomes)'
    BY DEF WasHeard, Heard
  <2>1. /\ Attempts(s.proxyRequests, p, outcomes) \in Nat
        /\ Attempts(s.proxyRequests, p, outcomes) <= Heard(p, outcomes)
    BY <1>3 DEF WasHeard
  <2> QED BY <1>2, <2>1
<1>4. ASSUME NEW s, Copies(s), AddsUp(s), WasHeard(s), scrape' = s
      PROVE  Taken'
  <2>1. Copies(scrape') /\ AddsUp(scrape')
    BY <1>4
  <2>2. \A p \in Pool, outcomes \in {Faults, {"success"}} :
          /\ Attempts(scrape.proxyRequests, p, outcomes)' \in Nat
          /\ Attempts(scrape.proxyRequests, p, outcomes)' <= Heard(p, outcomes)'
    <3> SUFFICES ASSUME NEW p \in Pool, NEW outcomes \in {Faults, {"success"}}
                 PROVE  /\ Attempts(scrape.proxyRequests, p, outcomes)' \in Nat
                        /\ Attempts(scrape.proxyRequests, p, outcomes)' <= Heard(p, outcomes)'
      OBVIOUS
    <3>1. /\ Attempts(s.proxyRequests, p, outcomes) \in Nat
          /\ Attempts(s.proxyRequests, p, outcomes) <= Heard(p, outcomes)
      BY <1>4 DEF WasHeard
    <3>2. Attempts(scrape.proxyRequests, p, outcomes)' = Attempts(s.proxyRequests, p, outcomes)
      BY <1>4 DEF Attempts
    <3> QED BY <1>2, <3>1, <3>2
  <2> QED BY <2>1, <2>2 DEF Taken, Copies, AddsUp, WasHeard, SumsUp, Upgraded, Successes, Value
<1>5. CASE Take
  <2> DEFINE s == [pc |-> "taken",
                   httpRequests |-> httpRequests, httpDurations |-> httpDurations,
                   proxyRequests |-> proxyRequests, proxyDurations |-> proxyDurations,
                   websocketSessions |-> websocketSessions]
  <2>1. scrape' = s
    BY <1>5 DEF Take
  <2>2. Copies(s)
    BY DEF Copies
  <2>3. ASSUME NEW p \in Pool
        PROVE  Upgraded(websocketSessions, p) <= Successes(proxyRequests, p)
    <3>1. /\ Upgraded(websocketSessions, p) \in Nat
          /\ Successes(proxyRequests, p) \in Nat
      BY <1>1, IncrementedLemma DEF Typed, Upgraded, Successes
    <3>2. Succeeded(p) \in SUBSET Request
      BY DEF Succeeded
    <3>3. Cardinality(Succeeded(p)) \in Nat
      BY ONLY <3>2, RequestAssumption, FS_Subset, FS_CardinalityType
    <3>4. Upgraded(websocketSessions, p) + Cardinality(Succeeded(p))
            <= Successes(proxyRequests, p)
      BY <1>1 DEF UpgradesLag
    <3> QED BY ONLY <3>1, <3>3, <3>4
  <2>4. AddsUp(s)
    BY <1>1, <2>3 DEF AddsUp, InStep
  <2>5. ASSUME NEW p \in Pool, NEW outcomes \in {Faults, {"success"}}
        PROVE  /\ Attempts(proxyRequests, p, outcomes) \in Nat
               /\ Attempts(proxyRequests, p, outcomes) <= Heard(p, outcomes)
    <3>1. Attempts(proxyRequests, p, outcomes) \in Nat
      BY <1>1, AttemptsIncremented DEF Typed
    <3>2. Uncounted(p, outcomes) \in SUBSET Request
      BY DEF Uncounted
    <3>3. Cardinality(Uncounted(p, outcomes)) \in Nat
      BY ONLY <3>2, RequestAssumption, FS_Subset, FS_CardinalityType
    <3>4. Attempts(proxyRequests, p, outcomes) + Cardinality(Uncounted(p, outcomes))
            <= Heard(p, outcomes)
      BY <1>1 DEF ReportsLead
    <3>5. Heard(p, outcomes) \in Nat
      BY <1>2
    <3> QED BY ONLY <3>1, <3>3, <3>4, <3>5
  <2>6. WasHeard(s)
    BY <2>5 DEF WasHeard
  <2> HIDE DEF s
  <2> QED BY <1>4, <2>1, <2>2, <2>4, <2>6
\* What is printed of the histograms is what was copied.
<1>6. CASE Show
  <2>1. Copies(scrape) /\ AddsUp(scrape) /\ WasHeard(scrape)
    BY <1>1, <1>6 DEF Show, Taken
  <2> DEFINE s == [scrape EXCEPT !.pc = "shown"]
  <2>2. /\ s.httpRequests = scrape.httpRequests /\ s.httpDurations = scrape.httpDurations
        /\ s.proxyRequests = scrape.proxyRequests /\ s.proxyDurations = scrape.proxyDurations
        /\ s.websocketSessions = scrape.websocketSessions
        /\ Copies(s)
    BY <2>1 DEF Copies
  <2>3. scrape' = s
    <3>1. scrape' = [scrape EXCEPT !.pc = "shown", !.httpDurations = scrape.httpDurations,
                                   !.proxyDurations = scrape.proxyDurations]
      BY <1>6 DEF Show, Printed
    <3> QED BY <2>1, <3>1 DEF Copies
  <2> HIDE DEF s
  <2>4. AddsUp(s) /\ WasHeard(s)
    BY <2>1, <2>2 DEF AddsUp, WasHeard
  <2> QED BY <1>4, <2>2, <2>3, <2>4
<1>7. CASE Finish
  BY <1>7 DEF Finish, NoScrape, Taken
<1>8. CASE UNCHANGED scrape
  <2>1. CASE scrape.pc \in {"taken", "shown"}
    BY <1>1, <1>4, <1>8, <2>1 DEF Taken
  <2>2. CASE scrape.pc \notin {"taken", "shown"}
    BY <1>8, <2>2 DEF Taken
  <2> QED BY <2>1, <2>2
<1>9. Take \/ Show \/ Finish \/ UNCHANGED scrape
  BY DEF MNext, Arrive, Report, Record, BreakOff, Upgrade, SwitchFails, Return, Pass, Reload, mvars
<1> QED BY <1>5, <1>6, <1>7, <1>8, <1>9

-----------------------------------------------------------------------------

LEMMA InitHolds == MInit => Inv
<1> SUFFICES ASSUME MInit PROVE Inv
  OBVIOUS
<1>1. /\ req = [r \in Request |-> NewRequest]
      /\ told = [p \in Pool |-> [good |-> 0, bad |-> 0]]
      /\ runtime = 0 /\ known = told
      /\ httpRequests = <<>> /\ httpDurations = <<>>
      /\ proxyRequests = <<>> /\ proxyDurations = <<>>
      /\ websocketSessions = <<>>
      /\ scrape.pc = "idle"
  BY DEF MInit, NoScrape, NoReports
<1>2. DOMAIN <<>> = {} /\ IsFiniteSet({}) /\ Cardinality({}) = 0
  BY FS_EmptySet
<1>3. \A r \in Request : req[r] = NewRequest
  BY <1>1
<1>4. Typed
  <2>1. NewRequest \in RequestType /\ NewRequest.pc = "new"
    BY DEF NewRequest, RequestType, Stages
  <2>2. Counters(<<>>) /\ Histograms(<<>>)
    BY <1>2 DEF Counters, Histograms
  <2>3. /\ Counters(httpRequests) /\ Histograms(httpDurations)
        /\ Counters(proxyRequests) /\ Histograms(proxyDurations)
        /\ Counters(websocketSessions)
    BY <1>1, <2>2
  <2>4. req \in [Request -> RequestType] /\ told \in [Pool -> [good : Nat, bad : Nat]]
    BY <1>1, <2>1
  <2>5. \A r \in Request : req[r].pc \in {"sent", "reported", "recorded", "switching"} =>
                               req[r].pool \in Pool
    BY <1>3, <2>1
  <2> QED BY <1>1, <2>3, <2>4, <2>5 DEF Typed
<1>5. ReportsLead
  <2> SUFFICES ASSUME NEW p \in Pool, NEW outcomes \in {Faults, {"success"}}
               PROVE  Attempts(proxyRequests, p, outcomes) + Cardinality(Uncounted(p, outcomes))
                        <= Heard(p, outcomes)
    BY DEF ReportsLead
  <2>1. Uncounted(p, outcomes) = {}
    BY <1>3 DEF Uncounted, NewRequest
  <2>2. {k \in DOMAIN proxyRequests : k[1][2] = p /\ k[2] \in outcomes} = {}
    BY <1>1, <1>2
  <2>3. SumFunctionOnSet(proxyRequests, {}) = 0
    BY ONLY <1>2, SumStep
  <2>4. Attempts(proxyRequests, p, outcomes) = 0
    BY <2>2, <2>3 DEF Attempts
  <2>5. Heard(p, outcomes) = 0
    BY <1>1 DEF Heard
  <2> QED BY <1>2, <2>1, <2>4, <2>5
<1>6. UpgradesLag
  <2> SUFFICES ASSUME NEW p \in Pool
               PROVE  Upgraded(websocketSessions, p) + Cardinality(Succeeded(p))
                        <= Successes(proxyRequests, p)
    BY DEF UpgradesLag
  <2>1. Succeeded(p) = {}
    BY <1>3 DEF Succeeded, NewRequest
  <2>2. \A k : Value(<<>>, k, 0) = 0
    BY <1>2 DEF Value
  <2>3. Upgraded(websocketSessions, p) = 0 /\ Successes(proxyRequests, p) = 0
    BY <1>1, <2>2 DEF Upgraded, Successes
  <2> QED BY <1>2, <2>1, <2>3
<1>7. InStep
  <2>1. SumsUp(<<>>, <<>>)
    BY <1>2 DEF SumsUp
  <2> QED BY <1>1, <2>1 DEF InStep
<1>8. Taken
  BY <1>1 DEF Taken
<1>9. OneManager
  BY <1>1, <1>3 DEF OneManager, NewRequest
<1> QED BY <1>4, <1>5, <1>6, <1>7, <1>8, <1>9 DEF Inv

LEMMA InvHolds == MSpec => []Inv
<1>1. Inv /\ [MNext]_<<vars, mvars>> => Inv'
  <2> SUFFICES ASSUME Inv, [MNext]_<<vars, mvars>>
               PROVE  Inv'
    OBVIOUS
  <2>1. Typed /\ ReportsLead /\ OneManager /\ UpgradesLag /\ InStep
    BY DEF Inv
  <2>2. Typed' /\ ReportsLead' /\ OneManager' /\ UpgradesLag' /\ InStep'
    BY <2>1, TypedStep, LeadStep, ManagerStep, UpgradeStep, InStepStep
  <2>3. Taken'
    BY TakenStep
  <2> QED BY <2>2, <2>3 DEF Inv
<1> QED BY <1>1, InitHolds, PTL DEF MSpec

\* Whatever requests count between the copying of a scrape and its printing, what it
\* prints is one moment: histograms with as many observations as their counters,
\* cumulative buckets, and no more sessions upgraded than Playwright attempts succeeded.
THEOREM ScrapesAgree == MSpec => []ScrapesAddUp
<1>1. Inv => ScrapesAddUp
  <2> SUFFICES ASSUME Inv, scrape.pc = "shown"
               PROVE  AddsUp(scrape) => ScrapesAddUp
    BY DEF Inv, Taken, ScrapesAddUp
  <2> QED BY DEF AddsUp, ScrapesAddUp, Upgraded, Successes
<1> QED BY <1>1, InvHolds, PTL

\* The report of an attempt comes before its count, so no scrape counts an attempt
\* that no manager has heard of; and until a reload replaces the manager and keeps
\* the counters, the one that has heard of it is the one the scrape prints.
THEOREM CountsFollowReports == MSpec => []CountedAttemptsWereReported
<1>1. Inv => CountedAttemptsWereReported
  <2> SUFFICES ASSUME Inv, scrape.pc = "shown", NEW p \in Pool
               PROVE  LET heard == IF runtime = 0 THEN known[p] ELSE told[p]
                      IN  /\ Counted(p, Faults) <= heard.bad
                          /\ Counted(p, {"success"}) <= heard.good
    BY DEF CountedAttemptsWereReported
  <2>1. WasHeard(scrape)
    BY DEF Inv, Taken
  <2>2. Faults # {"success"}
    BY DEF Faults
  <2>3. \A outcomes : Counted(p, outcomes) = Attempts(scrape.proxyRequests, p, outcomes)
    BY DEF Counted, Attempts
  <2>4. Heard(p, Faults) = told[p].bad /\ Heard(p, {"success"}) = told[p].good
    BY <2>2 DEF Heard
  <2>5. Counted(p, Faults) <= told[p].bad /\ Counted(p, {"success"}) <= told[p].good
    BY <2>1, <2>3, <2>4 DEF WasHeard
  <2>6. runtime = 0 => known = told
    BY DEF Inv, OneManager
  <2> QED BY <2>5, <2>6
<1> QED BY <1>1, InvHolds, PTL
=============================================================================
