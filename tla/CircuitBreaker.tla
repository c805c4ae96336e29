--------------------------- MODULE CircuitBreaker ---------------------------
(***************************************************************************)
(* What the health manager promises of one backend pool, told without its  *)
(* clock: a pool is in rotation ("closed"), out of it for a while ("open"), *)
(* or back in rotation but on probation ("halfopen"), where one more strike *)
(* puts it out again and one success, or one scrape, clears its record.     *)
(* HealthManager refines this specification; its countdown makes the state  *)
(* space finite, so liveness is stated here.                                *)
(***************************************************************************)
EXTENDS Integers

CONSTANTS
    Pool,           \* the pools whose health is watched
    Limit,          \* strikes in a row that put a pool out of rotation
    Penalty         \* how long it then stays out

ASSUME LimitAssumption == Limit \in [Pool -> Nat \ {0}]
ASSUME PenaltyAssumption == Penalty \in [Pool -> Nat]

VARIABLES
    mode,           \* "closed", "open" or "halfopen"
    strikes,        \* strikes in a row, counted while closed
    left            \* time still to stay out, while open

vars == <<mode, strikes, left>>

InRotation(p) == mode[p] # "open"

Init ==
    /\ mode = [p \in Pool |-> "closed"]
    /\ strikes = [p \in Pool |-> 0]
    /\ left = [p \in Pool |-> 0]

-----------------------------------------------------------------------------

\* Mutant: the penalty of a pool that has served it is never lifted.
ElapseStuck ==
    /\ left' = [p \in Pool |-> IF left[p] > 0 THEN left[p] - 1 ELSE 0]
    /\ UNCHANGED <<mode, strikes>>

\* A strike that stays below the limit is only counted.
Count(p) ==
    /\ mode[p] = "closed"
    /\ strikes[p] + 1 < Limit[p]
    /\ strikes' = [strikes EXCEPT ![p] = @ + 1]
    /\ UNCHANGED <<mode, left>>

\* A strike at the limit, on probation, or while already out, starts the
\* whole penalty from now. A pool with no penalty goes straight to probation.
Trip(p) ==
    /\ mode[p] = "closed" => strikes[p] + 1 >= Limit[p]
    /\ mode' = [mode EXCEPT ![p] = IF Penalty[p] > 0 THEN "open" ELSE "halfopen"]
    /\ strikes' = [strikes EXCEPT ![p] = 0]
    /\ left' = [left EXCEPT ![p] = Penalty[p]]

Strike(p) == Count(p) \/ Trip(p)

\* A success clears the record of a pool in rotation and no other.
Acquit(p) ==
    /\ InRotation(p)
    /\ mode' = [mode EXCEPT ![p] = "closed"]
    /\ strikes' = [strikes EXCEPT ![p] = 0]
    /\ UNCHANGED left

\* A scrape ends every probation at once.
Amnesty ==
    /\ mode' = [p \in Pool |-> IF mode[p] = "halfopen" THEN "closed" ELSE mode[p]]
    /\ UNCHANGED <<strikes, left>>

\* One unit of time passes for every pool that is out.
Elapse ==
    /\ left' = [p \in Pool |-> IF left[p] > 0 THEN left[p] - 1 ELSE 0]
    /\ mode' = [p \in Pool |-> IF left[p] = 1 THEN "halfopen" ELSE mode[p]]
    /\ UNCHANGED strikes

Next ==
    \/ \E p \in Pool : Count(p)
    \/ \E p \in Pool : Trip(p)
    \/ \E p \in Pool : Acquit(p)
    \/ Amnesty
    \/ Elapse

Safety == Init /\ [][Next]_vars

\* Time passes; nothing else is promised to happen.
Spec == Safety /\ WF_vars(Elapse)

-----------------------------------------------------------------------------

\* Once a pool is struck no more it comes back into rotation and stays there,
\* whatever else the router does: no success has to reach it, no scrape has to
\* happen (backendState.available, health.go:197-199).
EventuallyBackInRotation ==
    \A p \in Pool :
        (<>[][~Strike(p)]_vars) => <>[]InRotation(p)
=============================================================================
