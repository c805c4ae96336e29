---------------------------- MODULE HealthManager ----------------------------
(***************************************************************************)
(* internal/health/health.go: the Manager of one Runtime. Every method     *)
(* holds Manager.mu from its first line to its last, so each is one step.   *)
(***************************************************************************)
EXTENDS Integers

CONSTANTS
    Pool,               \* ids of the configured backend pools
    Policy,             \* config.HealthPolicy of each pool
    Stranger,           \* ids that are in no configuration
    DefaultCooldown,    \* 30s, in ticks
    Unset,              \* the empty cooldown string
    NoTime,             \* the zero time.Time
    MaxTime,            \* bound on the clock
    MaxFailures         \* bound on a failure counter

\* What config.Validate lets through: the threshold may be zero and the
\* cooldown may be any duration, negative ones included (config.go:317-327).
HealthPolicies ==
    [enabled : BOOLEAN, failureThreshold : Nat, cooldown : Int \cup {Unset}]

ASSUME PolicyAssumption == Policy \in [Pool -> HealthPolicies]
ASSUME SentinelAssumption == Unset \notin Int /\ NoTime \notin Int
ASSUME StrangerAssumption == Stranger \cap Pool = {}
ASSUME DefaultAssumption == DefaultCooldown \in Nat \ {0}
ASSUME BoundAssumption == MaxTime \in Nat /\ MaxFailures \in Nat

VARIABLES
    now,                \* the clock the manager reads
    failures,           \* backendState.failures
    unhealthyUntil      \* backendState.unhealthyUntil

vars == <<now, failures, unhealthyUntil>>

\* NewManagerWithClock: what a pool's settings amount to.
Threshold(b) ==
    IF Policy[b].failureThreshold > 0 THEN Policy[b].failureThreshold ELSE 1

Cooldown(b) ==
    IF Policy[b].cooldown = Unset THEN DefaultCooldown ELSE Policy[b].cooldown

Watched == {b \in Pool : Policy[b].enabled}

TypeOK ==
    /\ now \in Nat
    /\ failures \in [Pool -> Nat]
    /\ unhealthyUntil \in [Pool -> Int \cup {NoTime}]

Ejected(b) == unhealthyUntil[b] # NoTime /\ unhealthyUntil[b] > now

\* The cooldown is over and nothing has cleared the record yet.
Expired(b) == unhealthyUntil[b] # NoTime /\ unhealthyUntil[b] <= now

Available(b) == b \in Pool /\ ~Ejected(b)

Init ==
    /\ now = 0
    /\ failures = [b \in Pool |-> 0]
    /\ unhealthyUntil = [b \in Pool |-> NoTime]

-----------------------------------------------------------------------------
\* Mutants of the three operations, each a bug the manager could have had.

\* The guard that keeps a success from ending a cooldown is missing.
ReportSuccessInCooldown(b) ==
    IF b \in Watched
    THEN /\ failures' = [failures EXCEPT ![b] = 0]
         /\ unhealthyUntil' = [unhealthyUntil EXCEPT ![b] = NoTime]
         /\ UNCHANGED now
    ELSE UNCHANGED vars

\* A success ends the probation and forgets to clear the counter.
ReportSuccessKeepsCount(b) ==
    IF b \in Watched /\ ~Ejected(b)
    THEN /\ unhealthyUntil' = [unhealthyUntil EXCEPT ![b] = NoTime]
         /\ UNCHANGED <<now, failures>>
    ELSE UNCHANGED vars

\* A success takes back one failure instead of all of them.
ReportSuccessDecrements(b) ==
    IF b \in Watched /\ ~Ejected(b)
    THEN /\ failures' = [failures EXCEPT ![b] = @ - 1]
         /\ UNCHANGED <<now, unhealthyUntil>>
    ELSE UNCHANGED vars

\* Off by one: the pool trips on the failure after the threshold.
ReportFailureLate(b) ==
    IF b \in Watched
    THEN /\ failures' = [failures EXCEPT ![b] = @ + 1]
         /\ unhealthyUntil' =
              IF failures[b] >= Threshold(b)
              THEN [unhealthyUntil EXCEPT ![b] = now + Cooldown(b)]
              ELSE unhealthyUntil
         /\ UNCHANGED now
    ELSE UNCHANGED vars

\* Only the failure that reaches the threshold sets the deadline.
ReportFailureOnce(b) ==
    IF b \in Watched
    THEN /\ failures' = [failures EXCEPT ![b] = @ + 1]
         /\ unhealthyUntil' =
              IF failures[b] + 1 = Threshold(b)
              THEN [unhealthyUntil EXCEPT ![b] = now + Cooldown(b)]
              ELSE unhealthyUntil
         /\ UNCHANGED now
    ELSE UNCHANGED vars

\* The deadline grows from the previous one instead of from now.
ReportFailureAddsUp(b) ==
    IF b \in Watched
    THEN /\ failures' = [failures EXCEPT ![b] = @ + 1]
         /\ unhealthyUntil' =
              IF failures[b] + 1 >= Threshold(b)
              THEN [unhealthyUntil EXCEPT
                     ![b] = (IF Ejected(b) THEN @ ELSE now) + Cooldown(b)]
              ELSE unhealthyUntil
         /\ UNCHANGED now
    ELSE UNCHANGED vars

\* A scrape forgets the deadline and keeps the counter.
SnapshotKeepsCount ==
    /\ unhealthyUntil' =
         [b \in Pool |-> IF Expired(b) THEN NoTime ELSE unhealthyUntil[b]]
    /\ UNCHANGED <<now, failures>>

-----------------------------------------------------------------------------

\* An unknown id, a pool whose health is not watched and a pool in cooldown
\* are early returns.
ReportSuccess(b) ==
    IF b \in Watched /\ ~Ejected(b)
    THEN /\ failures' = [failures EXCEPT ![b] = 0]
         /\ unhealthyUntil' = [unhealthyUntil EXCEPT ![b] = NoTime]
         /\ UNCHANGED now
    ELSE UNCHANGED vars

ReportFailure(b) ==
    IF b \in Watched
    THEN /\ failures' = [failures EXCEPT ![b] = @ + 1]
         /\ unhealthyUntil' =
              IF failures[b] + 1 >= Threshold(b)
              THEN [unhealthyUntil EXCEPT ![b] = now + Cooldown(b)]
              ELSE unhealthyUntil
         /\ UNCHANGED now
    ELSE UNCHANGED vars

\* Snapshot, which every scrape of /metrics calls, clears the pools whose
\* cooldown is over.
Snapshot ==
    /\ failures' = [b \in Pool |-> IF Expired(b) THEN 0 ELSE failures[b]]
    /\ unhealthyUntil' =
         [b \in Pool |-> IF Expired(b) THEN NoTime ELSE unhealthyUntil[b]]
    /\ UNCHANGED now

Tick ==
    /\ now < MaxTime
    /\ now' = now + 1
    /\ UNCHANGED <<failures, unhealthyUntil>>

Next ==
    \/ \E b \in Pool \cup Stranger : ReportSuccess(b)
    \/ \E b \in Pool \cup Stranger :
         /\ b \in Pool => failures[b] < MaxFailures
         /\ ReportFailure(b)
    \/ Snapshot
    \/ Tick

Spec == Init /\ [][Next]_vars

-----------------------------------------------------------------------------

\* A deadline is set exactly for the pools whose counter reached the
\* threshold: ReportSuccess, ReportFailure and Snapshot keep the two fields of
\* backendState in step (health.go:89-90, 104-107, 120-123), whatever order
\* their callers come in.
DeadlineIffThreshold ==
    \A b \in Pool : unhealthyUntil[b] # NoTime <=> failures[b] >= Threshold(b)

\* No deadline lies further ahead than one cooldown from now: reports that
\* overlap, and follow-ups that keep failing, restart the cooldown and never
\* pile one on another (health.go:104-107).
DeadlineWithinCooldown ==
    \A b \in Pool :
        unhealthyUntil[b] # NoTime => unhealthyUntil[b] <= now + Cooldown(b)

\* Only time ends an ejection: no success of a request sent earlier, no scrape
\* and no further failure brings the deadline of an ejected pool closer
\* (health.go:86-88, 106, 120).
CooldownServed ==
    [][\A b \in Pool :
         Ejected(b) => /\ unhealthyUntil'[b] # NoTime
                       /\ unhealthyUntil'[b] >= unhealthyUntil[b]]_vars

-----------------------------------------------------------------------------
\* The manager as a circuit breaker for each of the pools it watches.

Mode ==
    [b \in Watched |->
        IF unhealthyUntil[b] = NoTime THEN "closed"
        ELSE IF Ejected(b) THEN "open" ELSE "halfopen"]

Strikes == [b \in Watched |-> IF unhealthyUntil[b] = NoTime THEN failures[b] ELSE 0]
Left == [b \in Watched |-> IF Ejected(b) THEN unhealthyUntil[b] - now ELSE 0]

CB == INSTANCE CircuitBreaker WITH
        Pool <- Watched,
        Limit <- [b \in Watched |-> Threshold(b)],
        Penalty <- [b \in Watched |-> IF Cooldown(b) > 0 THEN Cooldown(b) ELSE 0],
        mode <- Mode,
        strikes <- Strikes,
        left <- Left

\* Every step of the manager is a step of the circuit breaker, or none of its
\* business (the reports on pools it does not watch, time with no pool out).
IsCircuitBreaker == CB!Safety
=============================================================================
