------------------------------ MODULE MCReload ------------------------------
(* Three versions of router.json: the first, one that adds a pool (going    *)
(* back drops it), and one that does not validate.                          *)
EXTENDS Reload

CONSTANTS first, second, broken, a, b, host1, host2

MCConfig ==
    [v \in {first, second} |->
        IF v = first THEN {[id |-> a, endpoint |-> host1]}
                     ELSE {[id |-> a, endpoint |-> host1], [id |-> b, endpoint |-> host2]}]
=============================================================================
