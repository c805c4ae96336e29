-------------------------- MODULE MCHealthHistory --------------------------
(* Pools that trip on the second failure in a row, on the first (the        *)
(* threshold of zero needs normalising) with the default cooldown, with a   *)
(* negative cooldown, and one whose health is not watched; and an id nobody *)
(* configured.                                                              *)
EXTENDS HealthHistory

CONSTANTS twice, once, instant, unwatched

MCPolicy ==
    [b \in {twice, once, instant, unwatched} |->
        CASE b = twice     -> [enabled |-> TRUE, failureThreshold |-> 2, cooldown |-> 2]
          [] b = once      -> [enabled |-> TRUE, failureThreshold |-> 0, cooldown |-> Unset]
          [] b = instant   -> [enabled |-> TRUE, failureThreshold |-> 1, cooldown |-> -1]
          [] b = unwatched -> [enabled |-> FALSE, failureThreshold |-> 1, cooldown |-> 1]]

MCTwoPolicies == [b \in {twice, once} |-> MCPolicy[b]]
=============================================================================
