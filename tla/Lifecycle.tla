------------------------------ MODULE Lifecycle ------------------------------
(***************************************************************************)
(* internal/app/server.go: Run starts a goroutine per listener, waits for   *)
(* SIGTERM or for a listener to fail, and drains the listeners one after    *)
(* the other against one deadline. net/http's Server is external: Shutdown  *)
(* closes the listener, then waits until no connection is busy or its       *)
(* context is done, and does not know the connections a handler took over.  *)
(***************************************************************************)
EXTENDS Naturals, Sequences

CONSTANTS
    Servers,            \* the http.Servers of Run, in the order it drains them
    Requests,           \* requests
    GracefulPeriod,     \* opts.GracefulPeriod, in ticks
    NoServer

Server == {Servers[k] : k \in DOMAIN Servers}

\* The router, and with -metrics-listen the metrics server.
Router == Servers[1]

ASSUME ServersAssumption ==
    /\ Servers \in Seq(Server) /\ Len(Servers) \in 1..2
    /\ \A k, l \in DOMAIN Servers : Servers[k] = Servers[l] => k = l
    /\ NoServer \notin Server
ASSUME GraceAssumption == GracefulPeriod \in Nat

VARIABLES
    ctx,        \* whether SIGINT or SIGTERM has cancelled the context
    serve,      \* the goroutine that calls ListenAndServe, for each server
    inShutdown, \* whether Shutdown has been called, for each server
    errCh,      \* what those goroutines sent, a channel of capacity two
    conn,       \* the request's server, and whether a handler holds its connection
    run,        \* the goroutine of Run
    elapsed     \* ticks since Run left its select

runVars == <<ctx, serve, inShutdown, errCh, conn, run, elapsed>>

ErrChCapacity == 2
Errors == {"failure", "ErrServerClosed"}
NoConn == [server |-> NoServer, state |-> "none"]

ConnType == [server : Server \cup {NoServer}, state : {"none", "busy", "hijacked"}]

RunType ==
    [pc : {"select", "drain", "done"},
     at : 1..(Len(Servers) + 1),
     left : 0..GracefulPeriod,
     err : Errors \cup {"nil"},
     shutdownErr : {"nil", "deadline"},
     result : Errors \cup {"none", "nil", "deadline"}]

RunTypeOK ==
    /\ ctx \in BOOLEAN
    /\ serve \in [Server -> {"starting", "serving", "ended"}]
    /\ inShutdown \in [Server -> BOOLEAN]
    /\ errCh \in Seq(Errors) /\ Len(errCh) <= ErrChCapacity
    /\ conn \in [Requests -> ConnType]
    /\ run \in RunType
    /\ elapsed \in Nat

RunInit ==
    /\ ctx = FALSE
    /\ serve = [s \in Server |-> "starting"]
    /\ inShutdown = [s \in Server |-> FALSE]
    /\ errCh = <<>>
    /\ conn = [r \in Requests |-> NoConn]
    /\ run = [pc |-> "select", at |-> 1, left |-> GracefulPeriod, err |-> "nil",
              shutdownErr |-> "nil", result |-> "none"]
    /\ elapsed = 0

Running == run.pc # "done"
Busy(s) == \E r \in Requests : conn[r] = [server |-> s, state |-> "busy"]

-----------------------------------------------------------------------------
\* The operator, the clients and the listeners. All end with the process, that
\* is when Run returns.

Cancel ==
    /\ Running
    /\ ~ctx
    /\ ctx' = TRUE
    /\ UNCHANGED <<serve, inShutdown, errCh, conn, run, elapsed>>

Listen(s) ==
    /\ Running
    /\ serve[s] = "starting"
    /\ ~inShutdown[s]
    /\ serve' = [serve EXCEPT ![s] = "serving"]
    /\ UNCHANGED <<ctx, inShutdown, errCh, conn, run, elapsed>>

Send(s, error) ==
    /\ Len(errCh) < ErrChCapacity
    /\ errCh' = Append(errCh, error)
    /\ serve' = [serve EXCEPT ![s] = "ended"]
    /\ UNCHANGED <<ctx, inShutdown, conn, run, elapsed>>

\* The address cannot be bound, or Accept fails.
ListenerFails(s) ==
    /\ Running
    /\ serve[s] # "ended"
    /\ ~inShutdown[s]
    /\ Send(s, "failure")

\* ListenAndServe returns as soon as Shutdown is called, also when it is called
\* before the listener is open.
ListenerCloses(s) ==
    /\ Running
    /\ serve[s] # "ended"
    /\ inShutdown[s]
    /\ Send(s, "ErrServerClosed")

Accept(s, r) ==
    /\ Running
    /\ serve[s] = "serving"
    /\ ~inShutdown[s]
    /\ conn[r] = NoConn
    /\ conn' = [conn EXCEPT ![r] = [server |-> s, state |-> "busy"]]
    /\ UNCHANGED <<ctx, serve, inShutdown, errCh, run, elapsed>>

\* A WebSocket upgrade takes the connection from the server.
Hijack(r) ==
    /\ Running
    /\ conn[r] = [server |-> Router, state |-> "busy"]
    /\ conn' = [conn EXCEPT ![r].state = "hijacked"]
    /\ UNCHANGED <<ctx, serve, inShutdown, errCh, run, elapsed>>

Answer(r) ==
    /\ Running
    /\ conn[r] # NoConn
    /\ conn' = [conn EXCEPT ![r] = NoConn]
    /\ UNCHANGED <<ctx, serve, inShutdown, errCh, run, elapsed>>

-----------------------------------------------------------------------------
\* Run.

\* The select of Run: with both cases ready it takes either.
StopOnContext ==
    /\ run.pc = "select"
    /\ ctx
    /\ run' = [run EXCEPT !.pc = "drain"]
    /\ UNCHANGED <<ctx, serve, inShutdown, errCh, conn, elapsed>>

StopOnError ==
    /\ run.pc = "select"
    /\ errCh # <<>>
    /\ errCh' = Tail(errCh)
    /\ run' = [run EXCEPT !.pc = "drain", !.err = Head(errCh)]
    /\ UNCHANGED <<ctx, serve, inShutdown, conn, elapsed>>

Draining == run.pc = "drain" /\ run.at <= Len(Servers)

\* shutdownServers, the call of Shutdown on the next server.
Shutdown ==
    /\ Draining
    /\ ~inShutdown[Servers[run.at]]
    /\ inShutdown' = [inShutdown EXCEPT ![Servers[run.at]] = TRUE]
    /\ UNCHANGED <<ctx, serve, errCh, conn, run, elapsed>>

\* Mutant: the last error counts.
DrainedOverwrites ==
    /\ Draining
    /\ inShutdown[Servers[run.at]]
    /\ ~Busy(Servers[run.at])
    /\ run' = [run EXCEPT !.at = @ + 1, !.shutdownErr = "nil"]
    /\ UNCHANGED <<ctx, serve, inShutdown, errCh, conn, elapsed>>

Drained ==
    /\ Draining
    /\ inShutdown[Servers[run.at]]
    /\ ~Busy(Servers[run.at])
    /\ run' = [run EXCEPT !.at = @ + 1]
    /\ UNCHANGED <<ctx, serve, inShutdown, errCh, conn, elapsed>>

\* Mutants: every server has a period of its own; Shutdown gets a context
\* without a deadline; the drain's error takes the place of the listener's.
DrainTimesOutAnew ==
    /\ Draining
    /\ inShutdown[Servers[run.at]]
    /\ Busy(Servers[run.at])
    /\ run.left = 0
    /\ run' = [run EXCEPT !.at = @ + 1, !.shutdownErr = "deadline", !.left = GracefulPeriod]
    /\ UNCHANGED <<ctx, serve, inShutdown, errCh, conn, elapsed>>

DrainWithoutDeadline == Drained

DrainTimesOutReplaces ==
    /\ Draining
    /\ inShutdown[Servers[run.at]]
    /\ Busy(Servers[run.at])
    /\ run.left = 0
    /\ run' = [run EXCEPT !.at = @ + 1, !.err = "deadline"]
    /\ UNCHANGED <<ctx, serve, inShutdown, errCh, conn, elapsed>>

\* The deadline of all the servers together is over; the first error is kept.
DrainTimesOut ==
    /\ Draining
    /\ inShutdown[Servers[run.at]]
    /\ Busy(Servers[run.at])
    /\ run.left = 0
    /\ run' = [run EXCEPT !.at = @ + 1, !.shutdownErr = "deadline"]
    /\ UNCHANGED <<ctx, serve, inShutdown, errCh, conn, elapsed>>

\* Mutant: Run returns what the drain returned, whatever made it stop.
ReturnDrain ==
    /\ run.pc = "drain"
    /\ run.at > Len(Servers)
    /\ run' = [run EXCEPT !.pc = "done", !.result = run.shutdownErr]
    /\ UNCHANGED <<ctx, serve, inShutdown, errCh, conn, elapsed>>

\* The error of a listener goes before that of the drain it caused.
Return ==
    /\ run.pc = "drain"
    /\ run.at > Len(Servers)
    /\ run' = [run EXCEPT !.pc = "done",
                          !.result = IF run.err = "nil" THEN run.shutdownErr ELSE run.err]
    /\ UNCHANGED <<ctx, serve, inShutdown, errCh, conn, elapsed>>

\* Time passes while Run waits for busy connections; what Run does itself takes
\* none.
Tick ==
    /\ Draining
    /\ Busy(Servers[run.at]) /\ inShutdown[Servers[run.at]]
    /\ run.left > 0
    /\ run' = [run EXCEPT !.left = @ - 1]
    /\ elapsed' = elapsed + 1
    /\ UNCHANGED <<ctx, serve, inShutdown, errCh, conn>>

\* The process has ended.
Exited == run.pc = "done" /\ UNCHANGED runVars

Main ==
    StopOnContext \/ StopOnError \/ Shutdown \/ Drained \/ DrainTimesOut \/ Return

RunNext ==
    \/ Cancel
    \/ \E s \in Server : Listen(s)
    \/ \E s \in Server : ListenerFails(s)
    \/ \E s \in Server : ListenerCloses(s)
    \/ \E s \in Server, r \in Requests : Accept(s, r)
    \/ \E r \in Requests : Hijack(r)
    \/ \E r \in Requests : Answer(r)
    \/ Main
    \/ Tick
    \/ Exited

Safety == RunInit /\ [][RunNext]_runVars

\* Run is one goroutine, and time passes; requests may never end.
RunSpec == Safety /\ WF_runVars(Main) /\ WF_runVars(Tick)

-----------------------------------------------------------------------------

\* Run returns nil only after a signal and with no request left on a connection
\* the servers still had: a drain that ran out of time on one server is not
\* forgotten when the next one drains, and the error of a listener is not lost
\* behind a clean drain (server.go:81-84, 94-103).
NilMeansDrained ==
    run.result = "nil" => ctx /\ \A s \in Server : ~Busy(s)

\* What Run returns because of a listener is why it failed, never the
\* ErrServerClosed that the shutdown itself makes the listeners send: main exits
\* with 0 on that one (server.go:78-85, main.go:43).
CauseIsReported ==
    run.pc = "done" =>
        /\ run.result # "ErrServerClosed"
        /\ ~ctx => run.result = "failure"

\* The two drains share one period: Run returns within it, whatever the
\* requests do (server.go:88-104).
OneGracefulPeriod == elapsed <= GracefulPeriod

\* A signal, or a listener that fails, ends Run, though requests hang.
RunEnds == (ctx \/ errCh # <<>>) ~> run.pc = "done"
=============================================================================
