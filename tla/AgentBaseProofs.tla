-------------------------- MODULE AgentBaseProofs --------------------------
(***************************************************************************)
(* Proofs about the agent of AgentBase for any number of callers and       *)
(* heartbeat tasks.                                                        *)
(***************************************************************************)
EXTENDS AgentBase, TLAPS

(* Every action of start(), stop() and _heartbeat() keeps the agent's      *)
(* variables within their types.                                           *)
LEMMA TypeStep == TypeOK /\ [Next]_vars => TypeOK'
<1> SUFFICES ASSUME TypeOK, [Next]_vars PROVE TypeOK'
  OBVIOUS
<1> USE DEF TypeOK, States, TaskStates, Done
<1>1. ASSUME NEW c \in Callers, NEW t \in Tasks, Launch(c, t) PROVE TypeOK'
  BY <1>1 DEF Launch
<1>2. ASSUME NEW c \in Callers, StartAwaitingDeps(c) \/ DepsFail(c)
      PROVE  TypeOK'
  BY <1>2 DEF StartAwaitingDeps, DepsFail
<1>3. ASSUME NEW c \in Callers,
             StopUnstarted(c) \/ StopPending(c) \/ StopFinished(c)
      PROVE  TypeOK'
  BY <1>3 DEF StopUnstarted, StopPending, Cancel, StopFinished, AfterJoin
<1>4. ASSUME NEW c \in Callers, StopStep(c) PROVE TypeOK'
  BY <1>4 DEF StopStep, Join, Joinable, Terminate, UnsubscribeFails, AfterJoin
<1>5. ASSUME NEW t \in Tasks, HeartbeatStep(t) \/ HeartbeatFails(t)
      PROVE  TypeOK'
  BY <1>5 DEF HeartbeatStep, HeartbeatEnters, HeartbeatCancelled, OnCancel,
              HeartbeatFails, Pending
<1>6. CASE UNCHANGED vars
  BY <1>6 DEF vars
<1> QED
  BY <1>1, <1>2, <1>3, <1>4, <1>5, <1>6 DEF Next, StartAtOnce, DepsReady

(* The lifecycle state is always one of AgentLifecycleState._states and    *)
(* the task references stay valid, however start() and stop() overlap.     *)
THEOREM TypeCorrect == Spec => []TypeOK
<1>1. Init => TypeOK
  BY DEF Init, TypeOK, States, TaskStates
<1> QED
  BY <1>1, TypeStep, PTL DEF Spec

(* A step keeps the waiting callers of stop() on tasks that will end: a    *)
(* task object that is being waited for is not used for a new task, and a  *)
(* cancellation request only disappears when its task ends.                *)
LEMMA JoinStep ==
    TypeOK /\ JoinsCancelledTask /\ [Next]_vars => JoinsCancelledTask'
<1> DEFINE Safe(d) == /\ joined[d] \in Tasks
                      /\ joined[d] \in cancelling \/ ~Pending(joined[d])
<1> SUFFICES ASSUME TypeOK, JoinsCancelledTask, [Next]_vars,
                    NEW d \in Callers, pc'[d] = "join"
             PROVE  Safe(d)'
  BY DEF JoinsCancelledTask
<1> USE DEF TypeOK, JoinsCancelledTask, Pending
<1>1. ASSUME NEW c \in Callers, NEW t \in Tasks, Launch(c, t)
      PROVE  Safe(d)'
  BY <1>1 DEF Launch, Unused
<1>2. ASSUME NEW c \in Callers, StartAwaitingDeps(c) \/ DepsFail(c)
      PROVE  Safe(d)'
  BY <1>2 DEF StartAwaitingDeps, DepsFail
<1>3. ASSUME NEW c \in Callers,
             StopUnstarted(c) \/ StopPending(c) \/ StopFinished(c)
      PROVE  Safe(d)'
  BY <1>3 DEF StopUnstarted, StopPending, Cancel, StopFinished, AfterJoin
<1>4. ASSUME NEW c \in Callers, StopStep(c)
      PROVE  Safe(d)'
  BY <1>4 DEF StopStep, Join, Joinable, Terminate, UnsubscribeFails, AfterJoin
<1>5. ASSUME NEW t \in Tasks, HeartbeatStep(t) \/ HeartbeatFails(t)
      PROVE  Safe(d)'
  BY <1>5 DEF HeartbeatStep, HeartbeatEnters, HeartbeatCancelled, OnCancel,
              HeartbeatFails
<1>6. CASE UNCHANGED vars
  BY <1>6 DEF vars
<1> QED
  BY <1>1, <1>2, <1>3, <1>4, <1>5, <1>6 DEF Next, StartAtOnce, DepsReady

(* However many callers overlap, none waits in stop() for a heartbeat that *)
(* nobody has cancelled.                                                   *)
THEOREM JoinsCancelled == Spec => []JoinsCancelledTask
<1>1. Init => JoinsCancelledTask
  BY DEF Init, JoinsCancelledTask
<1> QED
  BY <1>1, JoinStep, TypeCorrect, PTL DEF Spec

----------------------------------------------------------------------------
(* Under "async with" one caller at a time uses the agent. *)
LEMMA UserStep ==
    paired /\ TypeOK /\ OneUser /\ [Next]_vars => OneUser'
<1> SUFFICES ASSUME paired, TypeOK, OneUser, [Next]_vars PROVE OneUser'
  OBVIOUS
<1> USE DEF TypeOK, OneUser, Busy
<1>1. ASSUME NEW c \in Callers, NEW t \in Tasks, StartAtOnce(c, t)
      PROVE  OneUser'
  BY <1>1 DEF StartAtOnce, Launch, MayStart
<1>2. ASSUME NEW c \in Callers, NEW t \in Tasks, DepsReady(c, t)
      PROVE  OneUser'
  BY <1>2 DEF DepsReady, Launch
<1>3. ASSUME NEW c \in Callers, StartAwaitingDeps(c) \/ DepsFail(c)
      PROVE  OneUser'
  BY <1>3 DEF StartAwaitingDeps, DepsFail, MayStart
<1>4. ASSUME NEW c \in Callers,
             StopUnstarted(c) \/ StopPending(c) \/ StopFinished(c)
      PROVE  OneUser'
  BY <1>4 DEF StopUnstarted, StopPending, Cancel, StopFinished, MayStop, AfterJoin
<1>5. ASSUME NEW c \in Callers, StopStep(c) PROVE OneUser'
  BY <1>5 DEF StopStep, Join, Joinable, Terminate, UnsubscribeFails, AfterJoin
<1>6. ASSUME NEW t \in Tasks, HeartbeatStep(t) \/ HeartbeatFails(t)
      PROVE  OneUser'
  BY <1>6 DEF HeartbeatStep, HeartbeatEnters, HeartbeatCancelled, OnCancel,
              HeartbeatFails
<1>7. CASE UNCHANGED vars
  BY <1>7 DEF vars
<1> QED
  BY <1>1, <1>2, <1>3, <1>4, <1>5, <1>6, <1>7 DEF Next

(* Under "async with" a pending heartbeat always has an owner. *)
LEMMA OwnedStep ==
    paired /\ TypeOK /\ PairedInv /\ [Next]_vars => PendingIsOwned'
<1> SUFFICES ASSUME paired, TypeOK, PairedInv, [Next]_vars PROVE PendingIsOwned'
  OBVIOUS
<1> USE DEF PairedInv, TypeOK, OneUser, Busy, PendingIsOwned, Pending
<1>1. ASSUME NEW c \in Callers, NEW t \in Tasks, StartAtOnce(c, t)
      PROVE  PendingIsOwned'
  BY <1>1 DEF StartAtOnce, Launch, MayStart
<1>2. ASSUME NEW c \in Callers, NEW t \in Tasks, DepsReady(c, t)
      PROVE  PendingIsOwned'
  BY <1>2 DEF DepsReady, Launch
<1>3. ASSUME NEW c \in Callers, StartAwaitingDeps(c) \/ DepsFail(c)
      PROVE  PendingIsOwned'
  BY <1>3 DEF StartAwaitingDeps, DepsFail, MayStart
<1>4. ASSUME NEW c \in Callers, StopUnstarted(c) PROVE PendingIsOwned'
  BY <1>4, NoTaskAssumption DEF StopUnstarted
<1>5. ASSUME NEW c \in Callers, StopPending(c) PROVE PendingIsOwned'
  BY <1>5 DEF StopPending, Cancel
<1>6. ASSUME NEW c \in Callers, StopFinished(c) PROVE PendingIsOwned'
  BY <1>6 DEF StopFinished, AfterJoin
<1>7. ASSUME NEW c \in Callers, StopStep(c) PROVE PendingIsOwned'
  BY <1>7 DEF StopStep, Join, Joinable, Terminate, UnsubscribeFails, AfterJoin
<1>8. ASSUME NEW t \in Tasks, HeartbeatStep(t) \/ HeartbeatFails(t)
      PROVE  PendingIsOwned'
  <2>1. UNCHANGED <<heartbeat_task, pc, joined, entered>>
    BY <1>8 DEF HeartbeatStep, HeartbeatEnters, HeartbeatCancelled, OnCancel,
                HeartbeatFails
  <2>2. Pending(t)
    BY <1>8 DEF HeartbeatStep, HeartbeatEnters, HeartbeatCancelled, HeartbeatFails
  <2>3. \A u \in Tasks : u # t => tasks'[u] = tasks[u]
    <3>1. PICK v : tasks' = [tasks EXCEPT ![t] = v]
      BY <1>8, Zenon DEF HeartbeatStep, HeartbeatEnters, HeartbeatCancelled, HeartbeatFails
    <3> QED
      BY <3>1
  <2>4. \A u \in Tasks : Pending(u)' => Pending(u)
    BY <2>2, <2>3
  <2> QED
    BY <2>1, <2>4
<1>9. CASE UNCHANGED vars
  BY <1>9 DEF vars
<1> QED
  BY <1>1, <1>2, <1>3, <1>4, <1>5, <1>6, <1>7, <1>8, <1>9 DEF Next

(* Under "async with" nobody is using an agent that is TERMINATED. *)
LEMMA IdleStep ==
    paired /\ TypeOK /\ PairedInv /\ [Next]_vars => TerminatedIdle'
<1> SUFFICES ASSUME paired, TypeOK, PairedInv, [Next]_vars PROVE TerminatedIdle'
  OBVIOUS
<1> USE DEF PairedInv, TypeOK, OneUser, Busy, TerminatedIdle
<1>1. ASSUME NEW c \in Callers, NEW t \in Tasks, Launch(c, t)
      PROVE  TerminatedIdle'
  BY <1>1 DEF Launch
<1>2. ASSUME NEW c \in Callers, StartAwaitingDeps(c) \/ DepsFail(c)
      PROVE  TerminatedIdle'
  BY <1>2 DEF StartAwaitingDeps, DepsFail
<1>3. ASSUME NEW c \in Callers,
             StopUnstarted(c) \/ StopPending(c) \/ StopFinished(c)
      PROVE  TerminatedIdle'
  BY <1>3 DEF StopUnstarted, StopPending, Cancel, StopFinished
<1>4. ASSUME NEW c \in Callers, StopStep(c) PROVE TerminatedIdle'
  BY <1>4 DEF StopStep, Join, Joinable, Terminate, UnsubscribeFails
<1>5. ASSUME NEW t \in Tasks, HeartbeatStep(t) \/ HeartbeatFails(t)
      PROVE  TerminatedIdle'
  BY <1>5 DEF HeartbeatStep, HeartbeatEnters, HeartbeatCancelled, OnCancel,
              HeartbeatFails
<1>6. CASE UNCHANGED vars
  BY <1>6 DEF vars
<1> QED
  BY <1>1, <1>2, <1>3, <1>4, <1>5, <1>6 DEF Next, StartAtOnce, DepsReady

(* How an agent is used does not change. *)
LEMMA UsageStep == [Next]_vars => paired' = paired
<1>1. ASSUME NEW c \in Callers, NEW t \in Tasks, Launch(c, t)
      PROVE  paired' = paired
  BY <1>1 DEF Launch
<1>2. ASSUME NEW c \in Callers, StartAwaitingDeps(c) \/ DepsFail(c)
      PROVE  paired' = paired
  BY <1>2 DEF StartAwaitingDeps, DepsFail
<1>3. ASSUME NEW c \in Callers,
             StopUnstarted(c) \/ StopPending(c) \/ StopFinished(c)
      PROVE  paired' = paired
  BY <1>3 DEF StopUnstarted, StopPending, Cancel, StopFinished
<1>4. ASSUME NEW c \in Callers, StopStep(c) PROVE paired' = paired
  BY <1>4 DEF StopStep, Join, Joinable, Terminate, UnsubscribeFails
<1>5. ASSUME NEW t \in Tasks, HeartbeatStep(t) \/ HeartbeatFails(t)
      PROVE  paired' = paired
  BY <1>5 DEF HeartbeatStep, HeartbeatEnters, HeartbeatCancelled, OnCancel,
              HeartbeatFails
<1>6. CASE UNCHANGED vars
  BY <1>6 DEF vars
<1> QED
  BY <1>1, <1>2, <1>3, <1>4, <1>5, <1>6 DEF Next, StartAtOnce, DepsReady

(* The strengthened invariant of an agent used only as "async with agent". *)
LEMMA PairedInvariant == Spec => []AgentInv
<1>1. Init => AgentInv
  BY DEF Init, AgentInv, PairedInv, TypeOK, OneUser, Busy, PendingIsOwned,
         Pending, TerminatedIdle, States, TaskStates
<1>2. AgentInv /\ [Next]_vars => AgentInv'
  <2> SUFFICES ASSUME AgentInv, [Next]_vars PROVE AgentInv'
    OBVIOUS
  <2>1. TypeOK' /\ paired' = paired
    BY TypeStep, UsageStep DEF AgentInv
  <2>2. CASE paired
    <3>1. OneUser' /\ PendingIsOwned' /\ TerminatedIdle'
      BY <2>2, UserStep, OwnedStep, IdleStep DEF AgentInv, PairedInv
    <3> QED
      BY <2>1, <3>1 DEF AgentInv, PairedInv
  <2>3. CASE ~paired
    BY <2>1, <2>3 DEF AgentInv
  <2> QED
    BY <2>2, <2>3
<1> QED
  BY <1>1, <1>2, PTL DEF Spec

(* Used as a context manager, an agent that reports TERMINATED has no      *)
(* heartbeat left, whichever external calls failed on the way.             *)
THEOREM PairedTermination == Spec => []TerminatedQuiesced
<1>1. AgentInv => TerminatedQuiesced
  BY DEF AgentInv, PairedInv, TypeOK, TerminatedQuiesced, PendingIsOwned,
         TerminatedIdle, Busy
<1> QED
  BY <1>1, PairedInvariant, PTL

(* Used as a context manager, an agent never has two heartbeats. *)
THEOREM PairedHeartbeat == Spec => []OneHeartbeat
<1>1. AgentInv => OneHeartbeat
  BY DEF AgentInv, PairedInv, OneHeartbeat, PendingIsOwned
<1> QED
  BY <1>1, PairedInvariant, PTL
=============================================================================
