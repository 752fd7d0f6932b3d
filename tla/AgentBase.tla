----------------------------- MODULE AgentBase -----------------------------
(***************************************************************************)
(* One agent of core/agent/base.py: its lifecycle state, its heartbeat     *)
(* task, and the coroutines that call start() and stop() on it.  The       *)
(* event loop is cooperative, so an action is everything that runs between *)
(* two suspension points.  The lock of AgentLifecycleState is taken and    *)
(* released without a suspension in between, so a transition is part of    *)
(* the step that makes it.                                                 *)
(***************************************************************************)
EXTENDS Naturals, FiniteSets

CONSTANTS
    Callers,       \* coroutines that call start() and stop()
    Tasks,         \* heartbeat tasks that can exist at one time (a bound)
    NoTask,        \* _heartbeat_task before the first start()
    Failures       \* the external calls that may raise

ASSUME NoTaskAssumption == NoTask \notin Tasks
ASSUME FailuresAssumption == Failures \subseteq {"deps", "publish", "unsubscribe"}

VARIABLES
    state,           \* AgentLifecycleState._state
    heartbeat_task,  \* AgentBase._heartbeat_task
    tasks,           \* what has become of each heartbeat task
    cancelling,      \* tasks whose cancel() has not been delivered yet
    pc,              \* where each caller is suspended
    joined,          \* the task each caller of stop() is waiting for
    entered,         \* callers that started the agent and have not stopped it
    paired           \* TRUE: the agent is only used as "async with agent"

vars == <<state, heartbeat_task, tasks, cancelling, pc, joined, entered, paired>>

States == {"INIT", "STARTING", "RUNNING", "PAUSED", "STOPPING", "TERMINATED"}

(* A task is created, runs its loop, and ends in one of three ways: it     *)
(* breaks out of the loop, it is cancelled before its first step, or it    *)
(* dies of an exception of publish().                                      *)
Done == {"ended", "cancelled", "failed"}
TaskStates == {"absent", "new", "looping"} \cup Done

Pending(t) == tasks[t] \in {"new", "looping"}

(* A task object nobody refers to any more can be used for a new task. *)
Unused(t) ==
    /\ ~Pending(t)
    /\ t # heartbeat_task
    /\ \A c \in Callers : joined[c] # t

Busy(c) == pc[c] # "idle" \/ c \in entered

TypeOK ==
    /\ state \in States
    /\ heartbeat_task \in Tasks \cup {NoTask}
    /\ tasks \in [Tasks -> TaskStates]
    /\ cancelling \subseteq Tasks
    /\ pc \in [Callers -> {"idle", "deps", "join", "unsubscribe"}]
    /\ joined \in [Callers -> Tasks \cup {NoTask}]
    /\ entered \subseteq Callers
    /\ paired \in BOOLEAN

Init ==
    /\ state = "INIT"
    /\ heartbeat_task = NoTask
    /\ tasks = [t \in Tasks |-> "absent"]
    /\ cancelling = {}
    /\ pc = [c \in Callers |-> "idle"]
    /\ joined = [c \in Callers |-> NoTask]
    /\ entered = {}
    /\ paired \in BOOLEAN

----------------------------------------------------------------------------
(* start() *)

(* Inside "async with" nobody calls start() before the last user has left. *)
MayStart(c) == paired => \A d \in Callers : ~Busy(d)

(* The end of start(): a new heartbeat task replaces the old one. *)
Launch(c, t) ==
    /\ Unused(t)
    /\ tasks' = [tasks EXCEPT ![t] = "new"]
    /\ heartbeat_task' = t
    /\ state' = "RUNNING"
    /\ pc' = [pc EXCEPT ![c] = "idle"]
    /\ entered' = entered \cup {c}
    /\ UNCHANGED <<cancelling, joined, paired>>

(* start() suspends only if a dependency is awaitable and not ready. *)
StartAtOnce(c, t) ==
    /\ pc[c] = "idle"
    /\ MayStart(c)
    /\ Launch(c, t)

StartAwaitingDeps(c) ==
    /\ pc[c] = "idle"
    /\ MayStart(c)
    /\ state' = "STARTING"
    /\ pc' = [pc EXCEPT ![c] = "deps"]
    /\ UNCHANGED <<heartbeat_task, tasks, cancelling, joined, entered, paired>>

DepsReady(c, t) ==
    /\ pc[c] = "deps"
    /\ Launch(c, t)

(* An awaited dependency raises: start() raises and the state stays. *)
DepsFail(c) ==
    /\ pc[c] = "deps"
    /\ "deps" \in Failures
    /\ pc' = [pc EXCEPT ![c] = "idle"]
    /\ UNCHANGED <<state, heartbeat_task, tasks, cancelling, joined, entered, paired>>

----------------------------------------------------------------------------
(* stop() *)

MayStop(c) == paired => c \in entered

(* stop() of an agent that was never started: _heartbeat_task does not     *)
(* exist and the AttributeError leaves the agent in STOPPING.              *)
StopUnstarted(c) ==
    /\ pc[c] = "idle"
    /\ MayStop(c)
    /\ heartbeat_task = NoTask
    /\ state' = "STOPPING"
    /\ entered' = entered \ {c}
    /\ UNCHANGED <<heartbeat_task, tasks, cancelling, pc, joined, paired>>

(* MUTANT of Cancel: nothing is cancelled. *)
CancelNothing(t) == cancelling

Cancel(t) == cancelling \cup {t}

(* stop() cancels the pending heartbeat task and suspends until it ends. *)
StopPending(c) ==
    /\ pc[c] = "idle"
    /\ MayStop(c)
    /\ heartbeat_task # NoTask
    /\ Pending(heartbeat_task)
    /\ state' = "STOPPING"
    /\ cancelling' = Cancel(heartbeat_task)
    /\ pc' = [pc EXCEPT ![c] = "join"]
    /\ joined' = [joined EXCEPT ![c] = heartbeat_task]
    /\ entered' = entered \ {c}
    /\ UNCHANGED <<heartbeat_task, tasks, paired>>

(* What awaiting the finished task t does: its exception is raised again   *)
(* out of stop(), unless it is a CancelledError.                           *)
AfterJoin(t) == IF tasks[t] = "failed" THEN "idle" ELSE "unsubscribe"

(* cancel() has no effect on a finished task and awaiting it does not      *)
(* suspend.                                                                *)
StopFinished(c) ==
    /\ pc[c] = "idle"
    /\ MayStop(c)
    /\ heartbeat_task # NoTask
    /\ ~Pending(heartbeat_task)
    /\ state' = "STOPPING"
    /\ pc' = [pc EXCEPT ![c] = AfterJoin(heartbeat_task)]
    /\ entered' = entered \ {c}
    /\ UNCHANGED <<heartbeat_task, tasks, cancelling, joined, paired>>

(* MUTANT of Joinable: the task is not awaited. *)
JoinableAtOnce(c) == TRUE

Joinable(c) == ~Pending(joined[c])

Join(c) ==
    /\ pc[c] = "join"
    /\ Joinable(c)
    /\ pc' = [pc EXCEPT ![c] = AfterJoin(joined[c])]
    /\ joined' = [joined EXCEPT ![c] = NoTask]
    /\ UNCHANGED <<state, heartbeat_task, tasks, cancelling, entered, paired>>

Terminate(c) ==
    /\ pc[c] = "unsubscribe"
    /\ state' = "TERMINATED"
    /\ pc' = [pc EXCEPT ![c] = "idle"]
    /\ UNCHANGED <<heartbeat_task, tasks, cancelling, joined, entered, paired>>

UnsubscribeFails(c) ==
    /\ pc[c] = "unsubscribe"
    /\ "unsubscribe" \in Failures
    /\ pc' = [pc EXCEPT ![c] = "idle"]
    /\ UNCHANGED <<state, heartbeat_task, tasks, cancelling, joined, entered, paired>>

----------------------------------------------------------------------------
(* _heartbeat() *)

HeartbeatEnters(t) ==
    /\ tasks[t] = "new"
    /\ t \notin cancelling
    /\ tasks' = [tasks EXCEPT ![t] = "looping"]
    /\ UNCHANGED <<state, heartbeat_task, cancelling, pc, joined, entered, paired>>

(* MUTANT of OnCancel: the handler continues instead of breaking. *)
OnCancelContinuing(t) == "looping"

(* The loop breaks; a task that never ran just ends as cancelled. *)
OnCancel(t) == IF tasks[t] = "new" THEN "cancelled" ELSE "ended"

HeartbeatCancelled(t) ==
    /\ Pending(t)
    /\ t \in cancelling
    /\ tasks' = [tasks EXCEPT ![t] = OnCancel(t)]
    /\ cancelling' = cancelling \ {t}
    /\ UNCHANGED <<state, heartbeat_task, pc, joined, entered, paired>>

(* Only CancelledError is caught: any other exception ends the task. *)
HeartbeatFails(t) ==
    /\ tasks[t] = "looping"
    /\ t \notin cancelling
    /\ "publish" \in Failures
    /\ tasks' = [tasks EXCEPT ![t] = "failed"]
    /\ UNCHANGED <<state, heartbeat_task, cancelling, pc, joined, entered, paired>>

----------------------------------------------------------------------------
StopStep(c) == Join(c) \/ Terminate(c) \/ UnsubscribeFails(c)

HeartbeatStep(t) == HeartbeatEnters(t) \/ HeartbeatCancelled(t)

Next ==
    \/ \E c \in Callers :
        \/ \E t \in Tasks : StartAtOnce(c, t) \/ DepsReady(c, t)
        \/ StartAwaitingDeps(c)
        \/ DepsFail(c)
        \/ StopUnstarted(c)
        \/ StopPending(c)
        \/ StopFinished(c)
        \/ StopStep(c)
    \/ \E t \in Tasks : HeartbeatStep(t) \/ HeartbeatFails(t)

(* The event loop runs every ready callback, so the steps of stop() and of *)
(* the heartbeat are taken; calls of start() and stop() and failures of    *)
(* the external services are not promised.                                 *)
Fairness ==
    /\ \A c \in Callers : WF_vars(StopStep(c))
    /\ \A t \in Tasks : WF_vars(HeartbeatStep(t))

Spec == Init /\ [][Next]_vars /\ Fairness

----------------------------------------------------------------------------
(* Used as a context manager, a TERMINATED agent has no heartbeat task     *)
(* left: stop() cancelled the background work it is documented to cancel,  *)
(* whichever external calls failed before (base.py:202-212).               *)
TerminatedQuiesced ==
    paired /\ state = "TERMINATED" => \A t \in Tasks : ~Pending(t)

(* Used as a context manager, at most one heartbeat task of the agent is   *)
(* alive, so it never reports twice per interval although start() replaces *)
(* the task without looking at it (base.py:194).                           *)
OneHeartbeat ==
    paired => \A t, u \in Tasks : Pending(t) /\ Pending(u) => t = u

(* A caller waiting in stop() waits for a task that has been told to end   *)
(* or has ended: whatever other callers do meanwhile, nobody waits for a   *)
(* heartbeat that will loop for ever.                                      *)
JoinsCancelledTask ==
    \A c \in Callers :
        pc[c] = "join" =>
            /\ joined[c] \in Tasks
            /\ joined[c] \in cancelling \/ ~Pending(joined[c])

(* Every call of stop() that suspends comes back (base.py:198-212). *)
StopReturns ==
    \A c \in Callers :
        pc[c] \in {"join", "unsubscribe"} ~> pc[c] = "idle"

(* Used as a context manager, the shutdown begun by stop() reaches         *)
(* TERMINATED or is overtaken by a new start ("Graceful shutdown           *)
(* procedure", base.py:199).                                               *)
StoppingTerminates ==
    paired /\ state = "STOPPING" ~> state # "STOPPING"

----------------------------------------------------------------------------
(* Invariants that make TerminatedQuiesced inductive for paired use. *)

(* Only one caller is using the agent, and it is in one place. *)
OneUser ==
    /\ \A c, d \in Callers : Busy(c) /\ Busy(d) => c = d
    /\ \A c \in entered : pc[c] = "idle"

(* A pending task is the agent's current one, and it is either in use or   *)
(* being joined by the caller that is stopping the agent.                  *)
PendingIsOwned ==
    \A t \in Tasks : Pending(t) =>
        /\ t = heartbeat_task
        /\ \/ entered # {}
           \/ \E c \in Callers : pc[c] = "join" /\ joined[c] = t

TerminatedIdle ==
    state = "TERMINATED" => \A c \in Callers : ~Busy(c)

PairedInv == OneUser /\ PendingIsOwned /\ TerminatedIdle

AgentInv == TypeOK /\ (paired => PairedInv)
=============================================================================
