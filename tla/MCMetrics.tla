------------------------------ MODULE MCMetrics ------------------------------
(* Two requests to two pools, a strict one and a lenient one with a shorter *)
(* penalty, and one reload; a new session, a Playwright session, and a side *)
(* endpoint of such a session, which may be upgraded as well.               *)
EXTENDS Metrics

CONSTANTS strict, lenient

MCLimit == [p \in {strict, lenient} |-> IF p = strict THEN 1 ELSE 2]
MCPenalty == [p \in {strict, lenient} |-> 1]

MCPaths == { <<"session">>, <<"playwright", "chrome", "120">>, <<"vnc", "r1_t_pw_1">> }
=============================================================================
