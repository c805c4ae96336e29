------------------------- MODULE HealthManagerProofs -------------------------
(***************************************************************************)
(* What MCHealthHistory checks on four pools and a short clock, proved for  *)
(* every set of pools, every policy config.Validate accepts, every bound.   *)
(***************************************************************************)
EXTENDS HealthHistory, TLAPS

\* NewManagerWithClock turns every accepted policy into a threshold of at
\* least one and a cooldown that is a duration (health.go:41-50).
LEMMA PolicyLemma ==
    ASSUME NEW b \in Pool
    PROVE  /\ Threshold(b) \in Nat
           /\ Threshold(b) >= 1
           /\ Cooldown(b) \in Int
  BY PolicyAssumption, DefaultAssumption DEF HealthPolicies, Threshold, Cooldown

\* The fields of every backendState keep their types, and the counters never
\* go below zero.
THEOREM Typing == Spec => []TypeOK
<1>1. Init => TypeOK
  BY DEF Init, TypeOK
<1>2. TypeOK /\ [Next]_vars => TypeOK'
  <2> SUFFICES ASSUME TypeOK, [Next]_vars
               PROVE  TypeOK'
    OBVIOUS
  <2> USE DEF TypeOK
  <2>1. ASSUME NEW b \in Pool \cup Stranger, ReportSuccess(b)
        PROVE  TypeOK'
    BY <2>1 DEF ReportSuccess, vars
  <2>2. ASSUME NEW b \in Pool \cup Stranger, ReportFailure(b)
        PROVE  TypeOK'
    <3>1. CASE b \in Watched
      BY <2>2, <3>1, PolicyLemma DEF ReportFailure, Watched
    <3>2. CASE b \notin Watched
      BY <2>2, <3>2 DEF ReportFailure, vars
    <3> QED BY <3>1, <3>2
  <2>3. CASE Snapshot
    BY <2>3 DEF Snapshot
  <2>4. CASE Tick
    BY <2>4 DEF Tick
  <2>5. CASE UNCHANGED vars
    BY <2>5 DEF vars
  <2> QED BY <2>1, <2>2, <2>3, <2>4, <2>5 DEF Next
<1> QED BY <1>1, <1>2, PTL DEF Spec

\* The counter of a pool has reached the threshold exactly when the pool has a
\* deadline: the two fields that ReportSuccess, ReportFailure and Snapshot
\* write never drift apart.
THEOREM DeadlineMatchesCounter == Spec => []DeadlineIffThreshold
<1>1. Init => DeadlineIffThreshold
  <2> SUFFICES ASSUME Init, NEW b \in Pool
               PROVE  unhealthyUntil[b] # NoTime <=> failures[b] >= Threshold(b)
    BY DEF DeadlineIffThreshold
  <2> QED BY PolicyLemma DEF Init
<1>2. TypeOK /\ DeadlineIffThreshold /\ [Next]_vars => DeadlineIffThreshold'
  <2> SUFFICES ASSUME TypeOK, DeadlineIffThreshold, [Next]_vars, NEW b \in Pool
               PROVE  (unhealthyUntil[b] # NoTime <=> failures[b] >= Threshold(b))'
    BY DEF DeadlineIffThreshold
  <2>a. /\ failures[b] \in Nat
        /\ unhealthyUntil[b] \in Int \cup {NoTime}
        /\ now \in Nat
        /\ unhealthyUntil[b] # NoTime <=> failures[b] >= Threshold(b)
    BY DEF TypeOK, DeadlineIffThreshold
  <2>b. Threshold(b)' = Threshold(b) /\ Threshold(b) \in Nat /\ Threshold(b) >= 1
    BY PolicyLemma DEF Threshold
  <2>1. ASSUME NEW c \in Pool \cup Stranger, ReportSuccess(c)
        PROVE  (unhealthyUntil[b] # NoTime <=> failures[b] >= Threshold(b))'
    BY <2>1, <2>a, <2>b DEF ReportSuccess, vars, TypeOK
  <2>2. ASSUME NEW c \in Pool \cup Stranger, ReportFailure(c)
        PROVE  (unhealthyUntil[b] # NoTime <=> failures[b] >= Threshold(b))'
    <3>1. CASE c \in Watched /\ c = b
      <4>1. failures'[b] = failures[b] + 1
        BY <2>2, <3>1 DEF ReportFailure, TypeOK
      <4>2. now + Cooldown(b) # NoTime
        BY <2>a, PolicyLemma, SentinelAssumption
      <4>3. unhealthyUntil'[b] = IF failures[b] + 1 >= Threshold(b)
                                 THEN now + Cooldown(b) ELSE unhealthyUntil[b]
        BY <2>2, <3>1 DEF ReportFailure, TypeOK
      <4> QED BY <4>1, <4>2, <4>3, <2>a, <2>b
    <3>2. CASE c \in Watched /\ c # b
      BY <2>2, <3>2, <2>a, <2>b DEF ReportFailure, TypeOK
    <3>3. CASE c \notin Watched
      BY <2>2, <3>3, <2>a, <2>b DEF ReportFailure, vars
    <3> QED BY <3>1, <3>2, <3>3
  <2>3. CASE Snapshot
    BY <2>3, <2>a, <2>b DEF Snapshot
  <2>4. CASE Tick
    BY <2>4, <2>a, <2>b DEF Tick
  <2>5. CASE UNCHANGED vars
    BY <2>5, <2>a, <2>b DEF vars
  <2> QED BY <2>1, <2>2, <2>3, <2>4, <2>5 DEF Next
<1> QED BY <1>1, <1>2, Typing, PTL DEF Spec

\* No sequence of reports, however the goroutines interleave, puts a pool out
\* for longer than one cooldown from now.
THEOREM DeadlineBounded == Spec => []DeadlineWithinCooldown
<1>1. Init => DeadlineWithinCooldown
  BY DEF Init, DeadlineWithinCooldown
<1>2. TypeOK /\ DeadlineWithinCooldown /\ [Next]_vars => DeadlineWithinCooldown'
  <2> SUFFICES ASSUME TypeOK, DeadlineWithinCooldown, [Next]_vars, NEW b \in Pool
               PROVE  (unhealthyUntil[b] # NoTime
                         => unhealthyUntil[b] <= now + Cooldown(b))'
    BY DEF DeadlineWithinCooldown
  <2>a. /\ unhealthyUntil[b] \in Int \cup {NoTime}
        /\ now \in Nat
        /\ unhealthyUntil[b] # NoTime => unhealthyUntil[b] <= now + Cooldown(b)
    BY DEF TypeOK, DeadlineWithinCooldown
  <2>b. Cooldown(b)' = Cooldown(b) /\ Cooldown(b) \in Int
    BY PolicyLemma DEF Cooldown
  <2>1. ASSUME NEW c \in Pool \cup Stranger, ReportSuccess(c)
        PROVE  (unhealthyUntil[b] # NoTime
                  => unhealthyUntil[b] <= now + Cooldown(b))'
    BY <2>1, <2>a, <2>b DEF ReportSuccess, vars, TypeOK
  <2>2. ASSUME NEW c \in Pool \cup Stranger, ReportFailure(c)
        PROVE  (unhealthyUntil[b] # NoTime
                  => unhealthyUntil[b] <= now + Cooldown(b))'
    <3>1. \/ unhealthyUntil'[b] = unhealthyUntil[b]
          \/ unhealthyUntil'[b] = now + Cooldown(b)
      BY <2>2 DEF ReportFailure, vars, TypeOK
    <3>2. now' = now
      BY <2>2 DEF ReportFailure, vars
    <3> QED BY <3>1, <3>2, <2>a, <2>b
  <2>3. CASE Snapshot
    BY <2>3, <2>a, <2>b DEF Snapshot
  <2>4. CASE Tick
    BY <2>4, <2>a, <2>b DEF Tick
  <2>5. CASE UNCHANGED vars
    BY <2>5, <2>a, <2>b DEF vars
  <2> QED BY <2>1, <2>2, <2>3, <2>4, <2>5 DEF Next
<1> QED BY <1>1, <1>2, Typing, PTL DEF Spec

\* A pool that is out of rotation comes back only because time passes: nothing
\* the router hears of it can bring its deadline closer.
THEOREM EjectionServed == Spec => CooldownServed
<1>1. TypeOK /\ DeadlineWithinCooldown /\ [Next]_vars =>
        [\A b \in Pool :
           Ejected(b) => /\ unhealthyUntil'[b] # NoTime
                         /\ unhealthyUntil'[b] >= unhealthyUntil[b]]_vars
  <2> SUFFICES ASSUME TypeOK, DeadlineWithinCooldown, [Next]_vars,
                      NEW b \in Pool, Ejected(b)
               PROVE  /\ unhealthyUntil'[b] # NoTime
                      /\ unhealthyUntil'[b] >= unhealthyUntil[b]
    OBVIOUS
  <2>a. /\ unhealthyUntil[b] \in Int
        /\ unhealthyUntil[b] # NoTime
        /\ now \in Nat
        /\ unhealthyUntil[b] <= now + Cooldown(b)
    BY DEF TypeOK, DeadlineWithinCooldown, Ejected
  <2>b. Cooldown(b) \in Int
    BY PolicyLemma
  <2>1. ASSUME NEW c \in Pool \cup Stranger, ReportSuccess(c)
        PROVE  unhealthyUntil'[b] = unhealthyUntil[b]
    BY <2>1 DEF ReportSuccess, vars, TypeOK
  <2>2. ASSUME NEW c \in Pool \cup Stranger, ReportFailure(c)
        PROVE  \/ unhealthyUntil'[b] = unhealthyUntil[b]
               \/ unhealthyUntil'[b] = now + Cooldown(b)
    BY <2>2 DEF ReportFailure, vars, TypeOK
  <2>3. ASSUME Snapshot
        PROVE  unhealthyUntil'[b] = unhealthyUntil[b]
    BY <2>3, <2>a DEF Snapshot, Ejected, Expired
  <2>4. ASSUME Tick \/ UNCHANGED vars
        PROVE  unhealthyUntil'[b] = unhealthyUntil[b]
    BY <2>4 DEF Tick, vars
  <2>5. now + Cooldown(b) # NoTime
    BY <2>a, <2>b, SentinelAssumption
  <2> QED BY <2>1, <2>2, <2>3, <2>4, <2>5, <2>a, <2>b DEF Next
<1> QED BY <1>1, Typing, DeadlineBounded, PTL DEF Spec, CooldownServed

-----------------------------------------------------------------------------

\* Every step of the manager is a step of the circuit breaker of each pool it
\* watches, or leaves all of them as they are. The counter tells a counted
\* strike from a tripping one only because it matches the deadline.
THEOREM Refinement == Spec => IsCircuitBreaker
<1>1. Init => CB!Init
  BY DEF Init, CB!Init, Mode, Strikes, Left, Ejected, Watched
<1>2. TypeOK /\ DeadlineIffThreshold /\ [Next]_vars => [CB!Next]_(CB!vars)
  <2> SUFFICES ASSUME TypeOK, DeadlineIffThreshold, [Next]_vars
               PROVE  CB!Next \/ UNCHANGED CB!vars
    OBVIOUS
  <2>a. \A b \in Watched :
          /\ b \in Pool
          /\ failures[b] \in Nat
          /\ unhealthyUntil[b] \in Int \cup {NoTime}
          /\ unhealthyUntil[b] # NoTime <=> failures[b] >= Threshold(b)
          /\ Threshold(b) \in Nat
          /\ Threshold(b) >= 1
          /\ Cooldown(b) \in Int
          /\ now + Cooldown(b) # NoTime
    BY PolicyLemma, SentinelAssumption DEF TypeOK, DeadlineIffThreshold, Watched
  <2>b. now \in Nat
    BY DEF TypeOK
  <2>0. ASSUME UNCHANGED vars
        PROVE  UNCHANGED CB!vars
    BY <2>0 DEF vars, CB!vars, Mode, Strikes, Left, Ejected
  <2>1. ASSUME NEW c \in Pool \cup Stranger, ReportSuccess(c)
        PROVE  CB!Next \/ UNCHANGED CB!vars
    <3>1. CASE c \in Watched /\ ~Ejected(c)
      <4>1. /\ failures' = [failures EXCEPT ![c] = 0]
            /\ unhealthyUntil' = [unhealthyUntil EXCEPT ![c] = NoTime]
            /\ now' = now
        BY <2>1, <3>1 DEF ReportSuccess
      <4>2. Mode' = [Mode EXCEPT ![c] = "closed"]
        BY <4>1, <3>1, <2>a DEF Mode, Ejected, TypeOK
      <4>3. Strikes' = [Strikes EXCEPT ![c] = 0]
        BY <4>1, <3>1, <2>a DEF Strikes, TypeOK
      <4>4. Left' = Left
        BY <4>1, <3>1, <2>a DEF Left, Ejected, TypeOK
      <4>5. CB!InRotation(c)
        BY <3>1 DEF CB!InRotation, Mode
      <4>6. CB!Acquit(c)
        BY <4>2, <4>3, <4>4, <4>5 DEF CB!Acquit
      <4> QED BY <4>6, <3>1 DEF CB!Next
    <3>2. CASE ~(c \in Watched /\ ~Ejected(c))
      BY <2>0, <2>1, <3>2 DEF ReportSuccess
    <3> QED BY <3>1, <3>2
  <2>2. ASSUME NEW c \in Pool \cup Stranger, ReportFailure(c)
        PROVE  CB!Next \/ UNCHANGED CB!vars
    <3>1. CASE c \in Watched /\ failures[c] + 1 < Threshold(c)
      <4>1. /\ failures' = [failures EXCEPT ![c] = failures[c] + 1]
            /\ unhealthyUntil' = unhealthyUntil
            /\ now' = now
        BY <2>2, <3>1, <2>a DEF ReportFailure
      <4>2. unhealthyUntil[c] = NoTime
        BY <3>1, <2>a
      <4>3. Mode' = Mode /\ Left' = Left
        BY <4>1 DEF Mode, Left, Ejected
      <4>4. Strikes' = [Strikes EXCEPT ![c] = Strikes[c] + 1]
        BY <4>1, <4>2, <3>1, <2>a DEF Strikes, TypeOK
      <4>5. Mode[c] = "closed" /\ Strikes[c] = failures[c]
        BY <4>2, <3>1 DEF Mode, Strikes
      <4>6. CB!Count(c)
        BY <4>3, <4>4, <4>5, <3>1 DEF CB!Count
      <4> QED BY <4>6, <3>1 DEF CB!Next
    <3>2. CASE c \in Watched /\ failures[c] + 1 >= Threshold(c)
      <4>1. /\ failures' = [failures EXCEPT ![c] = failures[c] + 1]
            /\ unhealthyUntil' = [unhealthyUntil EXCEPT ![c] = now + Cooldown(c)]
            /\ now' = now
        BY <2>2, <3>2, <2>a DEF ReportFailure
      <4>a. Ejected(c)' <=> Cooldown(c) > 0
        BY <4>1, <3>2, <2>a, <2>b DEF Ejected, TypeOK
      <4>b. \A b \in Watched : b # c => /\ Ejected(b)' <=> Ejected(b)
                                        /\ unhealthyUntil'[b] = unhealthyUntil[b]
        BY <4>1, <3>2, <2>a, <2>b DEF Ejected, TypeOK
      <4>c. unhealthyUntil'[c] = now + Cooldown(c) /\ unhealthyUntil'[c] # NoTime
        BY <4>1, <3>2, <2>a DEF TypeOK
      <4>2. Mode' = [Mode EXCEPT ![c] = IF Cooldown(c) > 0 THEN "open" ELSE "halfopen"]
        BY <4>a, <4>b, <4>c, <3>2 DEF Mode
      <4>3. Strikes' = [Strikes EXCEPT ![c] = 0]
        BY <4>1, <3>2, <2>a DEF Strikes, TypeOK
      <4>4. Left' = [Left EXCEPT ![c] = IF Cooldown(c) > 0 THEN Cooldown(c) ELSE 0]
        <5> DEFINE rest(b) == IF Ejected(b) THEN unhealthyUntil[b] - now ELSE 0
        <5>1. Cooldown(c) \in Int /\ now' = now
          BY <4>1, <3>2, <2>a
        <5>2. (rest(c))' = IF Cooldown(c) > 0 THEN Cooldown(c) ELSE 0
          BY <5>1, <4>a, <4>c, <2>b
        <5>3. \A b \in Watched : b # c => (rest(b))' = rest(b)
          BY <5>1, <4>b
        <5>4. Left = [b \in Watched |-> rest(b)] /\ Left' = [b \in Watched |-> (rest(b))']
          BY DEF Left, Watched
        <5> HIDE DEF rest
        <5> QED BY <5>2, <5>3, <5>4, <3>2
      <4>5. Mode[c] = "closed" => Strikes[c] + 1 >= Threshold(c)
        BY <3>2, <2>a DEF Mode, Strikes
      <4> DEFINE limit == [b \in Watched |-> Threshold(b)]
                 penalty == [b \in Watched |-> IF Cooldown(b) > 0 THEN Cooldown(b) ELSE 0]
      <4>6. /\ limit[c] = Threshold(c)
            /\ penalty[c] = IF Cooldown(c) > 0 THEN Cooldown(c) ELSE 0
            /\ penalty[c] > 0 <=> Cooldown(c) > 0
        BY <3>2, <2>a
      <4> HIDE DEF limit, penalty
      <4>7. /\ Mode[c] = "closed" => Strikes[c] + 1 >= limit[c]
            /\ Mode' = [Mode EXCEPT ![c] = IF penalty[c] > 0 THEN "open" ELSE "halfopen"]
            /\ Strikes' = [Strikes EXCEPT ![c] = 0]
            /\ Left' = [Left EXCEPT ![c] = penalty[c]]
        BY <4>2, <4>3, <4>4, <4>5, <4>6
      <4>8. CB!Trip(c)
        BY <4>7 DEF CB!Trip, limit, penalty
      <4> QED BY <4>8, <3>2 DEF CB!Next
    <3>3. CASE c \notin Watched
      BY <2>0, <2>2, <3>3 DEF ReportFailure
    <3> QED BY <3>1, <3>2, <3>3, <2>a
  <2>3. ASSUME Snapshot
        PROVE  CB!Next
    <3>1. Mode' = [b \in Watched |-> IF Mode[b] = "halfopen" THEN "closed" ELSE Mode[b]]
      BY <2>3, <2>a, <2>b DEF Snapshot, Mode, Ejected, Expired
    <3>2. Strikes' = Strikes
      BY <2>3, <2>a, <2>b DEF Snapshot, Strikes, Expired
    <3>3. Left' = Left
      BY <2>3, <2>a, <2>b DEF Snapshot, Left, Ejected, Expired
    <3> QED BY <3>1, <3>2, <3>3 DEF CB!Next, CB!Amnesty
  <2>4. ASSUME Tick
        PROVE  CB!Next
    <3>1. Left' = [b \in Watched |-> IF Left[b] > 0 THEN Left[b] - 1 ELSE 0]
      BY <2>4, <2>a, <2>b DEF Tick, Left, Ejected
    <3>2. Mode' = [b \in Watched |-> IF Left[b] = 1 THEN "halfopen" ELSE Mode[b]]
      BY <2>4, <2>a, <2>b DEF Tick, Mode, Left, Ejected
    <3>3. Strikes' = Strikes
      BY <2>4 DEF Tick, Strikes
    <3> QED BY <3>1, <3>2, <3>3 DEF CB!Next, CB!Elapse
  <2> QED BY <2>0, <2>1, <2>2, <2>3, <2>4 DEF Next
<1> QED
  BY <1>1, <1>2, Typing, DeadlineMatchesCounter, PTL DEF Spec, IsCircuitBreaker, CB!Safety

-----------------------------------------------------------------------------
\* The manager compared with what really was reported to it: why its counter
\* and its deadline can stand for a history it does not keep.

HistoryOK ==
    /\ streak \in [Pool -> Nat]
    /\ comeback \in [Pool -> Nat]
    /\ lastFailure \in [Pool -> Int \cup {NoTime}]

\* A deadline is one cooldown after the failure that was reported last.
DeadlineFromLastFailure(b) ==
    unhealthyUntil[b] # NoTime => /\ lastFailure[b] # NoTime
                                  /\ unhealthyUntil[b] = lastFailure[b] + Cooldown(b)

\* The counter forgets failures, when a cooldown ends, and never invents one.
CounterIsBetween(b) ==
    /\ failures[b] <= streak[b]
    /\ Cooldown(b) > 0 => comeback[b] <= failures[b]

\* A pool whose cooldown is over has failed no more since: the first failure of
\* its probation sets a new deadline.
FreshOnProbation(b) == Cooldown(b) > 0 /\ Expired(b) => comeback[b] = 0

FailedBefore(b) ==
    /\ lastFailure[b] # NoTime => lastFailure[b] <= now
    /\ comeback[b] > 0 => lastFailure[b] # NoTime

HistoryAgrees(b) ==
    /\ unhealthyUntil[b] # NoTime <=> failures[b] >= Threshold(b)
    /\ DeadlineFromLastFailure(b)
    /\ CounterIsBetween(b)
    /\ FreshOnProbation(b)
    /\ FailedBefore(b)

HInv == TypeOK /\ HistoryOK /\ \A b \in Pool : HistoryAgrees(b)

-----------------------------------------------------------------------------

LEMMA HInvInit == HInit => HInv
<1> SUFFICES ASSUME HInit
             PROVE  HInv
  OBVIOUS
<1>1. TypeOK /\ HistoryOK
  BY DEF HInit, Init, TypeOK, HistoryOK
<1>2. ASSUME NEW b \in Pool
      PROVE  HistoryAgrees(b)
  BY <1>2, PolicyLemma
  DEF HInit, Init, HistoryAgrees, DeadlineFromLastFailure, CounterIsBetween,
      FreshOnProbation, FailedBefore, Expired
<1> QED BY <1>1, <1>2 DEF HInv

\* What a step leaves alone of one pool stays as it was for that pool.
LEMMA UntouchedLemma ==
    ASSUME HInv, NEW b \in Pool,
           now' = now,
           failures'[b] = failures[b], unhealthyUntil'[b] = unhealthyUntil[b],
           streak'[b] = streak[b], comeback'[b] = comeback[b],
           lastFailure'[b] = lastFailure[b]
    PROVE  HistoryAgrees(b)'
  BY DEF HInv, HistoryAgrees, DeadlineFromLastFailure, CounterIsBetween,
         FreshOnProbation, FailedBefore, Expired, Threshold, Cooldown

LEMMA HInvInductive == HInv /\ [HNext]_<<vars, history>> => HInv'
<1> SUFFICES ASSUME HInv, [HNext]_<<vars, history>>
             PROVE  HInv'
  OBVIOUS
<1>a. TypeOK /\ HistoryOK
  BY DEF HInv
<1>b. ASSUME NEW b \in Pool
      PROVE  /\ Threshold(b) \in Nat /\ Threshold(b) >= 1
             /\ Threshold(b)' = Threshold(b)
             /\ Cooldown(b) \in Int
             /\ Cooldown(b)' = Cooldown(b)
             /\ now \in Nat
             /\ failures[b] \in Nat
             /\ streak[b] \in Nat
             /\ comeback[b] \in Nat
             /\ unhealthyUntil[b] \in Int \cup {NoTime}
             /\ lastFailure[b] \in Int \cup {NoTime}
             /\ now # NoTime
             /\ now + Cooldown(b) # NoTime
             /\ HistoryAgrees(b)
  BY <1>a, <1>b, PolicyLemma, SentinelAssumption
  DEF TypeOK, HistoryOK, HInv, Threshold, Cooldown
<1>1. ASSUME NEW c \in Pool \cup Stranger, HReportSuccess(c)
      PROVE  HInv'
  <2>1. CASE c \in Watched /\ ~Ejected(c)
    <3>1. /\ c \in Pool
          /\ failures' = [failures EXCEPT ![c] = 0]
          /\ unhealthyUntil' = [unhealthyUntil EXCEPT ![c] = NoTime]
          /\ streak' = [streak EXCEPT ![c] = 0]
          /\ comeback' = [comeback EXCEPT ![c] = 0]
          /\ lastFailure' = lastFailure
          /\ now' = now
      BY <1>1, <2>1 DEF HReportSuccess, ReportSuccess, Watched
    <3>2. TypeOK' /\ HistoryOK'
      BY <3>1, <1>a DEF TypeOK, HistoryOK
    <3>3. HistoryAgrees(c)'
      BY <3>1, <1>a, <1>b
      DEF TypeOK, HistoryOK, HistoryAgrees, DeadlineFromLastFailure,
          CounterIsBetween, FreshOnProbation, FailedBefore, Expired
    <3>4. ASSUME NEW b \in Pool, b # c
          PROVE  HistoryAgrees(b)'
      BY <3>1, <3>4, <1>a, UntouchedLemma DEF TypeOK, HistoryOK
    <3> QED BY <3>2, <3>3, <3>4 DEF HInv
  <2>2. CASE ~(c \in Watched /\ ~Ejected(c))
    <3>1. UNCHANGED <<vars, history>>
      BY <1>1, <2>2 DEF HReportSuccess, ReportSuccess, history
    <3> QED BY <3>1, <1>a, UntouchedLemma DEF HInv, TypeOK, HistoryOK, vars, history
  <2> QED BY <2>1, <2>2
<1>2. ASSUME NEW c \in Pool \cup Stranger, HReportFailure(c)
      PROVE  HInv'
  <2>1. CASE c \in Watched
    <3>1. /\ c \in Pool
          /\ failures' = [failures EXCEPT ![c] = failures[c] + 1]
          /\ unhealthyUntil' = IF failures[c] + 1 >= Threshold(c)
                               THEN [unhealthyUntil EXCEPT ![c] = now + Cooldown(c)]
                               ELSE unhealthyUntil
          /\ streak' = [streak EXCEPT ![c] = streak[c] + 1]
          /\ comeback' = [comeback EXCEPT ![c] = comeback[c] + 1]
          /\ lastFailure' = [lastFailure EXCEPT ![c] = now]
          /\ now' = now
      BY <1>2, <2>1 DEF HReportFailure, ReportFailure, Watched
    <3>2. TypeOK' /\ HistoryOK'
      BY <3>1, <1>a, <1>b DEF TypeOK, HistoryOK
    <3>a. /\ failures'[c] = failures[c] + 1
          /\ unhealthyUntil'[c] = IF failures[c] + 1 >= Threshold(c)
                                  THEN now + Cooldown(c) ELSE NoTime
          /\ streak'[c] = streak[c] + 1
          /\ comeback'[c] = comeback[c] + 1
          /\ lastFailure'[c] = now
      BY <3>1, <1>a, <1>b DEF TypeOK, HistoryOK, HistoryAgrees
    <3>3. HistoryAgrees(c)'
      BY <3>1, <3>a, <1>b
      DEF HistoryAgrees, DeadlineFromLastFailure, CounterIsBetween,
          FreshOnProbation, FailedBefore, Expired
    <3>4. ASSUME NEW b \in Pool, b # c
          PROVE  HistoryAgrees(b)'
      BY <3>1, <3>4, <1>a, UntouchedLemma DEF TypeOK, HistoryOK
    <3> QED BY <3>2, <3>3, <3>4 DEF HInv
  <2>2. CASE c \notin Watched
    <3>1. UNCHANGED <<vars, history>>
      BY <1>2, <2>2 DEF HReportFailure, ReportFailure, history
    <3> QED BY <3>1, <1>a, UntouchedLemma DEF HInv, TypeOK, HistoryOK, vars, history
  <2> QED BY <2>1, <2>2
<1>3. CASE HSnapshot
  <2>1. /\ failures' = [b \in Pool |-> IF Expired(b) THEN 0 ELSE failures[b]]
        /\ unhealthyUntil' =
             [b \in Pool |-> IF Expired(b) THEN NoTime ELSE unhealthyUntil[b]]
        /\ comeback' = [b \in Pool |-> IF ComesBack(b) THEN 0 ELSE comeback[b]]
        /\ streak' = streak /\ lastFailure' = lastFailure /\ now' = now
    BY <1>3 DEF HSnapshot, Unreported, Snapshot
  <2>2. TypeOK' /\ HistoryOK'
    BY <2>1, <1>a DEF TypeOK, HistoryOK
  <2>3. ASSUME NEW b \in Pool
        PROVE  ~ComesBack(b)
    BY <2>1, <2>3, <1>b DEF ComesBack, Ejected, Expired
  <2>4. ASSUME NEW b \in Pool
        PROVE  HistoryAgrees(b)'
    <3>1. CASE Expired(b)
      <4>1. /\ failures'[b] = 0 /\ unhealthyUntil'[b] = NoTime
            /\ comeback'[b] = comeback[b]
        BY <2>1, <2>3, <3>1
      <4> QED
        BY <4>1, <3>1, <2>1, <1>b
        DEF HistoryAgrees, DeadlineFromLastFailure, CounterIsBetween,
            FreshOnProbation, FailedBefore, Expired
    <3>2. CASE ~Expired(b)
      BY <2>1, <2>3, <3>2, UntouchedLemma
    <3> QED BY <3>1, <3>2
  <2> QED BY <2>2, <2>4 DEF HInv
<1>4. CASE HTick
  <2>1. /\ now' = now + 1
        /\ comeback' = [b \in Pool |-> IF ComesBack(b) THEN 0 ELSE comeback[b]]
        /\ UNCHANGED <<failures, unhealthyUntil, streak, lastFailure>>
    BY <1>4 DEF HTick, Unreported, Tick
  <2>2. TypeOK' /\ HistoryOK'
    BY <2>1, <1>a DEF TypeOK, HistoryOK
  <2>3. ASSUME NEW b \in Pool
        PROVE  HistoryAgrees(b)'
    <3>1. CASE ComesBack(b)
      <4>1. comeback'[b] = 0
        BY <2>1, <3>1
      <4> QED
        BY <4>1, <2>1, <1>b
        DEF HistoryAgrees, DeadlineFromLastFailure, CounterIsBetween,
            FreshOnProbation, FailedBefore, Expired
    <3>2. CASE ~ComesBack(b)
      <4>1. comeback'[b] = comeback[b]
        BY <2>1, <3>2
      <4>2. Expired(b)' => Expired(b)
        BY <2>1, <3>2, <1>b DEF ComesBack, Ejected, Expired
      <4> QED
        BY <4>1, <4>2, <2>1, <1>b
        DEF HistoryAgrees, DeadlineFromLastFailure, CounterIsBetween,
            FreshOnProbation, FailedBefore
    <3> QED BY <3>1, <3>2
  <2> QED BY <2>2, <2>3 DEF HInv
<1>5. CASE UNCHANGED <<vars, history>>
  BY <1>5, <1>a, UntouchedLemma DEF HInv, TypeOK, HistoryOK, vars, history
<1> QED BY <1>1, <1>2, <1>3, <1>4, <1>5 DEF HNext

-----------------------------------------------------------------------------

\* A pool is out of rotation only for failures that really came in a row, as
\* many as its threshold, and at most one cooldown after the last of them.
THEOREM OutForCause == HSpec => []OutOnlyAfterThresholdInARow
<1>1. HInv => OutOnlyAfterThresholdInARow
  <2> SUFFICES ASSUME HInv, NEW b \in Pool, Ejected(b)
               PROVE  /\ streak[b] >= Threshold(b)
                      /\ now < lastFailure[b] + Cooldown(b)
    BY DEF OutOnlyAfterThresholdInARow
  <2>1. /\ failures[b] \in Nat /\ streak[b] \in Nat
        /\ Threshold(b) \in Nat /\ HistoryAgrees(b)
    BY PolicyLemma DEF HInv, TypeOK, HistoryOK
  <2> QED
    BY <2>1 DEF Ejected, HistoryAgrees, DeadlineFromLastFailure, CounterIsBetween
<1> QED BY <1>1, HInvInit, HInvInductive, PTL DEF HSpec

\* As many failures as the threshold since the pool was last let in put it out
\* for the whole cooldown: no late success and no scrape shortens it.
THEOREM ThresholdPutsOut == HSpec => []ThresholdInARowPutsOut
<1>1. HInv => ThresholdInARowPutsOut
  <2> SUFFICES ASSUME HInv, NEW b \in Watched,
                      comeback[b] >= Threshold(b),
                      now < lastFailure[b] + Cooldown(b)
               PROVE  Ejected(b)
    BY DEF ThresholdInARowPutsOut
  <2>1. /\ b \in Pool
        /\ now \in Nat /\ failures[b] \in Nat /\ comeback[b] \in Nat
        /\ lastFailure[b] \in Int \cup {NoTime}
        /\ Threshold(b) \in Nat /\ Threshold(b) >= 1 /\ Cooldown(b) \in Int
        /\ HistoryAgrees(b)
    BY PolicyLemma DEF HInv, TypeOK, HistoryOK, Watched
  <2>2. lastFailure[b] \in Int /\ lastFailure[b] <= now
    BY <2>1 DEF HistoryAgrees, FailedBefore
  <2>3. Cooldown(b) > 0
    BY <2>1, <2>2
  <2>4. unhealthyUntil[b] # NoTime
    BY <2>1, <2>3 DEF HistoryAgrees, CounterIsBetween
  <2>5. unhealthyUntil[b] = lastFailure[b] + Cooldown(b)
    BY <2>1, <2>4 DEF HistoryAgrees, DeadlineFromLastFailure
  <2> QED BY <2>4, <2>5 DEF Ejected
<1> QED BY <1>1, HInvInit, HInvInductive, PTL DEF HSpec
=============================================================================
