--------------------------- MODULE SyslogHandler ---------------------------
(***************************************************************************)
(* The syslog handler (src/security/audit/syslog_handler.py): callers put  *)
(* messages into a bounded queue, one worker thread takes them out and     *)
(* sends them with retries, and close() waits for the worker.  The socket  *)
(* is guarded by _connect_lock, which is not reentrant.                    *)
(***************************************************************************)
EXTENDS Naturals

CONSTANTS QueueSize,   \* config.queue_size
          Retries,     \* config.retries
          MaxEmits     \* bound on the messages of a behaviour

ASSUME SyslogAssumption == QueueSize \in Nat \ {0} /\ Retries \in Nat

VARIABLES queued,      \* messages in _queue
          emits,       \* calls of emit() so far
          worker,      \* where the worker thread is in _process_queue()
          attempt,     \* its attempt at the current message
          socket,      \* _socket is set
          shutdown,    \* _shutdown_flag
          flusher,     \* the thread in flush(): "idle", "waiting" or, with a timeout, "timed"
          closer       \* the thread in close()

syslogVars == <<queued, emits, worker, attempt, socket, shutdown, flusher, closer>>

\* _initialize(): the worker starts with the first handler.
SyslogInit ==
    /\ queued = 0 /\ emits = 0 /\ attempt = 0
    /\ worker = "check" /\ flusher = "idle" /\ closer = "open"
    /\ socket = FALSE /\ shutdown = FALSE

\* emit(): put_nowait() drops the message when the queue is full.
Emit ==
    /\ emits < MaxEmits
    /\ emits' = emits + 1
    /\ queued' = IF queued < QueueSize THEN queued + 1 ELSE queued
    /\ UNCHANGED <<worker, attempt, socket, shutdown, flusher, closer>>

\* The loop condition, and a message taken before get() times out.
CheckFlag ==
    /\ worker = "check"
    /\ worker' = IF shutdown THEN "done" ELSE "get"
    /\ UNCHANGED <<queued, emits, attempt, socket, shutdown, flusher, closer>>

Take ==
    /\ worker = "get"
    /\ \/ /\ queued > 0
          /\ queued' = queued - 1 /\ worker' = "connect" /\ attempt' = 0
       \/ /\ queued = 0                                   \* Empty
          /\ worker' = "check" /\ UNCHANGED <<queued, attempt>>
    /\ UNCHANGED <<emits, socket, shutdown, flusher, closer>>

\* _connect(): a failure is handled while the lock is held, and handling
\* it disconnects, which takes the lock again.
ConnectSocket ==
    /\ worker = "connect"
    /\ \/ worker' = "send" /\ socket' = TRUE
       \/ ~socket /\ worker' = "deadlocked" /\ UNCHANGED socket
    /\ UNCHANGED <<queued, emits, attempt, shutdown, flusher, closer>>

\* MUTANT of NextAttempt: the attempts are not counted.
NextAttemptUncounted(a) == a

\* A failing sendall(): the next attempt, or the end of the message.
NextAttempt(a) == a + 1

SendMessage ==
    /\ worker = "send"
    /\ \/ worker' = "check" /\ UNCHANGED attempt
       \/ attempt = Retries /\ worker' = "give up" /\ UNCHANGED attempt
       \/ attempt < Retries /\ worker' = "pause" /\ attempt' = NextAttempt(attempt)
    /\ UNCHANGED <<queued, emits, socket, shutdown, flusher, closer>>

\* _disconnect() of the worker, after the pause or in _handle_error().
WorkerDisconnect ==
    /\ worker \in {"pause", "give up"}
    /\ socket' = FALSE
    /\ worker' = IF worker = "pause" THEN "connect" ELSE "check"
    /\ UNCHANGED <<queued, emits, attempt, shutdown, flusher, closer>>

\* flush() polls the queue, which says nothing of the message being sent.
Flush ==
    /\ \/ flusher = "idle" /\ flusher' \in {"waiting", "timed"}
       \/ flusher # "idle" /\ queued = 0 /\ flusher' = "idle"
       \/ flusher = "timed" /\ flusher' = "idle"   \* TimeoutError
    /\ UNCHANGED <<queued, emits, worker, attempt, socket, shutdown, closer>>

\* close(): the flag, the join, and _disconnect() with the lock free.
CloseBegin ==
    /\ closer = "open"
    /\ closer' = "joining" /\ shutdown' = TRUE
    /\ UNCHANGED <<queued, emits, worker, attempt, socket, flusher>>

CloseEnd ==
    /\ closer = "joining" /\ worker = "done"
    /\ closer' = "closed" /\ socket' = FALSE
    /\ UNCHANGED <<queued, emits, worker, attempt, shutdown, flusher>>

WorkerStep == CheckFlag \/ Take \/ ConnectSocket \/ SendMessage \/ WorkerDisconnect

SyslogNext == WorkerStep \/ Emit \/ Flush \/ CloseBegin \/ CloseEnd

SyslogSpec == SyslogInit /\ [][SyslogNext]_syslogVars

\* Both threads are scheduled; connect and send are bounded by a timeout.
SyslogFairness == WF_syslogVars(WorkerStep) /\ WF_syslogVars(CloseEnd)
-----------------------------------------------------------------------------
(* close() returns, unless the worker failed to connect: then it waits for *)
(* ever for the lock it holds itself and close() waits for the worker.     *)
(* Messages still queued and the attempts of the current one do not keep   *)
(* close() from returning.                                                 *)
CloseReturns == closer = "joining" ~> (closer = "closed" \/ worker = "deadlocked")
=============================================================================
