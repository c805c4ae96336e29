----------------------------- MODULE MCLifecycle -----------------------------
(* The router and the metrics listener, two requests and three ticks of       *)
(* grace.                                                                     *)
EXTENDS Lifecycle

CONSTANTS router, metrics

MCServers == <<router, metrics>>
=============================================================================
