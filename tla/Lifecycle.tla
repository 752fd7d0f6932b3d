----------------------------- MODULE Lifecycle -----------------------------
(***************************************************************************)
(* LifecycleManager (src/core/agent/lifecycle.py): coroutines call the     *)
(* operations of one manager, which take _state_lock in turn.              *)
(*                                                                         *)
(* _set_state() looks up a LifecyclePhase "transition_to_..." that does    *)
(* not exist.  So initialize() raises before it changes anything, the      *)
(* state stays CREATED, and the others are refused in that state: nothing  *)
(* behind these two points is reached, no agent is created and no health   *)
(* monitor runs.  What is left are the lock and the limit on restarts.     *)
(***************************************************************************)
EXTENDS Naturals, FiniteSets

CONSTANTS Users,        \* coroutines that call the manager
          MaxRestarts   \* config.max_restart_attempts

ASSUME LifecycleAssumption ==
    /\ IsFiniteSet(Users) /\ Users # {}
    /\ MaxRestarts \in Nat

VARIABLES restarts,   \* _restart_count
          calling,    \* what each coroutine called: "none", "restart" or an operation
          holder      \* the coroutine that has _state_lock, as a set

lifecycleVars == <<restarts, calling, holder>>

Operations == {"initialize", "start", "stop", "pause", "resume"}

LifecycleInit ==
    /\ restarts = 0
    /\ calling = [u \in Users |-> "none"]
    /\ holder = {}

\* __aenter__() and deploy_agent() begin with initialize(), __aexit__() is stop().
Call(u, o) ==
    /\ calling[u] = "none"
    /\ calling' = [calling EXCEPT ![u] = o]
    /\ UNCHANGED <<restarts, holder>>

\* MUTANT of MayRestart: one attempt more than configured.
MayRestartOnceMore == restarts <= MaxRestarts

MayRestart == restarts < MaxRestarts

\* restart() checks its limit before stop() waits for the lock.  A call
\* beyond the limit raises at once and changes nothing.
Restart(u) ==
    /\ calling[u] = "none" /\ MayRestart
    /\ calling' = [calling EXCEPT ![u] = "restart"]
    /\ UNCHANGED <<restarts, holder>>

\* The lock is given up for other coroutines to run even when it is free.
Acquire(u) ==
    /\ calling[u] # "none" /\ holder = {}
    /\ holder' = {u}
    /\ UNCHANGED <<restarts, calling>>

\* Every operation raises under the lock; restart() counts its stop().
OperationRaises(u) ==
    /\ holder = {u}
    /\ holder' = {}
    /\ restarts' = IF calling[u] = "restart" THEN restarts + 1 ELSE restarts
    /\ calling' = [calling EXCEPT ![u] = "none"]

\* A coroutine is cancelled at the lock; restart() does not count this.
CancelCall(u) ==
    /\ calling[u] # "none"
    /\ holder' = holder \ {u}
    /\ calling' = [calling EXCEPT ![u] = "none"]
    /\ UNCHANGED restarts

LifecycleNext ==
    \E u \in Users :
        \/ \E o \in Operations : Call(u, o)
        \/ Restart(u) \/ Acquire(u) \/ OperationRaises(u) \/ CancelCall(u)

LifecycleSpec == LifecycleInit /\ [][LifecycleNext]_lifecycleVars
-----------------------------------------------------------------------------
(* The limit holds up to the coroutines that passed the check together     *)
(* before any of them had failed: once the count has reached it, only      *)
(* those still add to it (lifecycle.py:316-327).                           *)
RestartsBounded == restarts <= MaxRestarts + Cardinality(Users) - 1
=============================================================================
