---------------------------- MODULE HealthHistory ----------------------------
(***************************************************************************)
(* HealthManager with a memory: what was reported of each pool, and when.   *)
(* The operations are the manager's; the history only records them, so that *)
(* the counter and the deadline can be compared with what really happened.  *)
(***************************************************************************)
EXTENDS HealthManager

VARIABLES
    streak,         \* failures reported since the last success that counted
    comeback,       \* failures reported since the pool was last let back in
    lastFailure     \* when the last failure was reported

history == <<streak, comeback, lastFailure>>

HInit ==
    /\ Init
    /\ streak = [b \in Pool |-> 0]
    /\ comeback = [b \in Pool |-> 0]
    /\ lastFailure = [b \in Pool |-> NoTime]

\* A pool comes back in this step.
ComesBack(b) == Ejected(b) /\ ~Ejected(b)'

HReportSuccess(b) ==
    /\ ReportSuccess(b)
    /\ IF b \in Watched /\ ~Ejected(b)
       THEN /\ streak' = [streak EXCEPT ![b] = 0]
            /\ comeback' = [comeback EXCEPT ![b] = 0]
       ELSE UNCHANGED <<streak, comeback>>
    /\ UNCHANGED lastFailure

HReportFailure(b) ==
    /\ b \in Pool => streak[b] < MaxFailures
    /\ ReportFailure(b)
    /\ IF b \in Watched
       THEN /\ streak' = [streak EXCEPT ![b] = @ + 1]
            /\ comeback' = [comeback EXCEPT ![b] = @ + 1]
            /\ lastFailure' = [lastFailure EXCEPT ![b] = now]
       ELSE UNCHANGED <<streak, comeback, lastFailure>>

\* The steps that report nothing: a pool that comes back starts afresh.
Unreported(A) ==
    /\ A
    /\ comeback' = [b \in Pool |-> IF ComesBack(b) THEN 0 ELSE comeback[b]]
    /\ UNCHANGED <<streak, lastFailure>>

HSnapshot == Unreported(Snapshot)
HTick == Unreported(Tick)

HNext ==
    \/ \E b \in Pool \cup Stranger : HReportSuccess(b)
    \/ \E b \in Pool \cup Stranger : HReportFailure(b)
    \/ HSnapshot
    \/ HTick

HSpec == HInit /\ [][HNext]_<<vars, history>>

-----------------------------------------------------------------------------

\* No pool is out of rotation with fewer failures in a row than its
\* threshold (a success that reached the pool while it was in rotation, even one
\* that raced with the failures, starts the count again), nor for longer than one
\* cooldown after the last of them: a pool that nobody uses is never lost
\* (health.go:89, 104-107, 197-199).
OutOnlyAfterThresholdInARow ==
    \A b \in Pool :
        Ejected(b) => /\ streak[b] >= Threshold(b)
                      /\ now < lastFailure[b] + Cooldown(b)

\* A pool that failed as often as its threshold since it was let back in is
\* out for the whole cooldown after its last failure: no scrape, and no
\* success that comes late, lets it in before (health.go:86-88, 104-107, 120).
ThresholdInARowPutsOut ==
    \A b \in Watched :
        /\ comeback[b] >= Threshold(b)
        /\ now < lastFailure[b] + Cooldown(b)
        => Ejected(b)
=============================================================================
