----------------------------- MODULE GrpcServer -----------------------------
(***************************************************************************)
(* AsyncGRPCServer and its GracefulExit (src/communication/grpc/server.py) *)
(* as one process: start(), the signals SIGTERM and SIGINT, and stop(5),   *)
(* which refuses new calls and ends after the grace period at the latest.  *)
(* grpc, the clients and the operating system are external.                *)
(***************************************************************************)
EXTENDS Naturals

CONSTANTS Rpcs,         \* calls of clients
          MaxSignals    \* bound on the signals

VARIABLES server,     \* start() is "off", "loading", "listening", "started", "serving" or over
          signals,    \* signals so far
          shutdowns,  \* _shutdown() tasks that have not run yet
          draining,   \* stop() has been called
          rpc         \* each call: "none", "active", "answered" or "aborted"

serverVars == <<server, signals, shutdowns, draining, rpc>>

Over == {"returned", "raised", "killed"}

ServerInit ==
    /\ server = "off" /\ signals = 0 /\ shutdowns = 0
    /\ draining = FALSE
    /\ rpc = [r \in Rpcs |-> "none"]

Active == {r \in Rpcs : rpc[r] = "active"}

\* The end of the process is the end of its calls.
Exit(how) ==
    /\ server' = how
    /\ rpc' = [r \in Rpcs |-> IF r \in Active THEN "aborted" ELSE rpc[r]]

\* The constructor, which raises when the certificates cannot be read.
LaunchServer ==
    /\ server = "off"
    /\ server' \in {"loading", "raised"}
    /\ UNCHANGED <<signals, shutdowns, draining, rpc>>

\* _load_services(), then the metrics server and the port, which may be
\* taken: the exception ends the process.
LoadServices ==
    /\ server = "loading"
    /\ server' \in {"listening", "raised"}
    /\ UNCHANGED <<signals, shutdowns, draining, rpc>>

StartServer ==
    /\ server = "listening"
    /\ server' = "started"
    /\ UNCHANGED <<signals, shutdowns, draining, rpc>>

\* GracefulExit.__enter__(): the signal handlers are in place only now.
EnterGracefulExit ==
    /\ server = "started"
    /\ server' = "serving"
    /\ UNCHANGED <<signals, shutdowns, draining, rpc>>

\* A signal before that: SIGTERM kills the process.  SIGINT leaves start()
\* for the handler of KeyboardInterrupt, which calls stop() itself, if
\* there is a server to stop; start() may go on meanwhile.
Unhandled ==
    /\ server \in {"loading", "listening", "started"} /\ ~draining
    /\ signals < MaxSignals /\ signals' = signals + 1
    /\ \/ Exit("killed") /\ UNCHANGED draining
       \/ server = "loading" /\ Exit("raised") /\ UNCHANGED draining
       \/ draining' = TRUE /\ UNCHANGED <<server, rpc>>
    /\ UNCHANGED shutdowns

\* Afterwards every signal creates a task, ...
SignalHandler ==
    /\ server = "serving"
    /\ signals < MaxSignals /\ signals' = signals + 1
    /\ shutdowns' = shutdowns + 1
    /\ UNCHANGED <<server, draining, rpc>>

\* ... and while stop() runs in the handler of KeyboardInterrupt a further
\* one ends the process.
SignalAgain ==
    /\ server \in {"loading", "listening", "started"} /\ draining
    /\ signals < MaxSignals /\ signals' = signals + 1
    /\ Exit("killed")
    /\ UNCHANGED <<shutdowns, draining>>

Shutdown ==
    /\ server = "serving" /\ shutdowns > 0
    /\ shutdowns' = shutdowns - 1
    /\ draining' = TRUE
    /\ UNCHANGED <<server, signals, rpc>>

\* wait_for_termination(), or stop(), returns when no call is left.
Terminate ==
    /\ server \in {"loading", "listening", "started", "serving"}
    /\ draining /\ Active = {}
    /\ server' = "returned"
    /\ UNCHANGED <<signals, shutdowns, draining, rpc>>

\* MUTANT of Grace: stop() waits for the calls as long as they take.
GraceUnlimited == FALSE

\* stop(5) aborts the calls that are left.
Grace == draining /\ server \notin Over

GraceEnds ==
    /\ Grace /\ Active # {}
    /\ rpc' = [r \in Rpcs |-> IF r \in Active THEN "aborted" ELSE rpc[r]]
    /\ UNCHANGED <<server, signals, shutdowns, draining>>

(* The clients. *)
Accept(r) ==
    /\ server \in {"started", "serving"} /\ ~draining /\ rpc[r] = "none"
    /\ rpc' = [rpc EXCEPT ![r] = "active"]
    /\ UNCHANGED <<server, signals, shutdowns, draining>>

Respond(r) ==
    /\ r \in Active
    /\ rpc' = [rpc EXCEPT ![r] = "answered"]
    /\ UNCHANGED <<server, signals, shutdowns, draining>>

ServerNext ==
    \/ LaunchServer \/ LoadServices \/ StartServer \/ EnterGracefulExit
    \/ Unhandled \/ SignalHandler \/ SignalAgain \/ Shutdown \/ Terminate \/ GraceEnds
    \/ \E r \in Rpcs : Accept(r) \/ Respond(r)

ServerSpec == ServerInit /\ [][ServerNext]_serverVars

\* The event loop goes on; whether a call is ever answered is up to its
\* servicer.
ServerFairness == WF_serverVars(Shutdown \/ Terminate \/ GraceEnds)
-----------------------------------------------------------------------------
(* A signal that is handled ends the server, whatever its calls are doing, *)
(* when further signals arrive and when it comes before the server listens *)
(* (server.py:52-66, 147-148, 157-162).                                    *)
SignalEndsServer == shutdowns > 0 \/ draining ~> server \in Over
=============================================================================
