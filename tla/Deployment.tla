----------------------------- MODULE Deployment -----------------------------
(***************************************************************************)
(* deploy_full_stack() of the deployment engine                            *)
(* (src/core/cli/commands/deploy.py): a task group provisions the          *)
(* infrastructure, verifies the IAM settings and deploys the components,   *)
(* at most Concurrency of them past the semaphore and one inside the lock. *)
(* Every step of a task is a command run in a process of its own.          *)
(*                                                                         *)
(* The standard logger refuses the keyword arguments the engine gives it,  *)
(* so _execute_command() raises where it means to return FALSE, does not   *)
(* reach process.kill() after a timeout, and raises after a success too    *)
(* when the INFO level is enabled.  The processes are external.            *)
(***************************************************************************)
EXTENDS Naturals, FiniteSets

CONSTANTS Charts,        \* the components to deploy
          Concurrency    \* target.concurrency

ASSUME DeployAssumption == Charts \cap {"infra", "iam"} = {}

VARIABLES info,       \* INFO messages are enabled
          stage,      \* where deploy_full_stack() is
          member,     \* where each task of the group is
          process,    \* the process of the command a task waits for
          leftover,   \* processes nobody waits for any more
          installed   \* charts whose new version is installed

deployVars == <<info, stage, member, process, leftover, installed>>

Group == Charts \cup {"infra", "iam"}

Commands == {"init", "validate", "apply", "pre", "helm", "verify", "post", "rollback"}

Ended == {"done", "failed", "cancelled"}

\* What follows a command that succeeded.
Following == [init |-> "validate", validate |-> "apply", apply |-> "done",
          pre |-> "helm", helm |-> "verify", verify |-> "post", post |-> "done"]

DeployInit ==
    /\ info \in BOOLEAN
    /\ stage = "idle"
    /\ member = [t \in Group |-> "new"]
    /\ process = [t \in Group |-> "none"]
    /\ leftover = {} /\ installed = {}

DeployFullStack ==
    /\ stage = "idle"
    /\ stage' = "group"
    /\ UNCHANGED <<info, member, process, leftover, installed>>

(* A task that moves on to a command starts its process, which may fail.   *)
Goto(t, to) ==
    /\ member' = [member EXCEPT ![t] = to]
    /\ IF to \in Commands
       THEN \E p \in {"running", "absent"} : process' = [process EXCEPT ![t] = p]
       ELSE process' = [process EXCEPT ![t] = "none"]

\* A task that raises makes the group cancel the others, once.  A task
\* whose command has just ended may miss it (asyncio.wait_for()), and a
\* cancelled one leaves its process alone: `except Exception` does not
\* see the cancellation, so there is no rollback.
Raise(t) ==
    LET first   == \A u \in Group : member[u] # "failed"
        others  == {u \in Group \ {t} : member[u] \notin Ended}
        ending  == {u \in others : process[u] \in {"exit 0", "exit 1"}}
    IN  \E missed \in SUBSET ending :
            LET hit == IF first THEN others \ missed ELSE {}
            IN  /\ member' = [u \in Group |-> IF u = t THEN "failed"
                                            ELSE IF u \in hit THEN "cancelled" ELSE member[u]]
                /\ process' = [u \in Group |-> IF u \in hit \cup {t} THEN "none" ELSE process[u]]
                /\ leftover' = leftover \cup
                       {<<u, member[u]>> : u \in {v \in hit \cup {t} : process[v] = "running"}}

InGroup == stage = "group" /\ UNCHANGED <<info, stage, installed>>

StartInfra ==
    /\ InGroup /\ member["infra"] = "new"
    /\ Goto("infra", "init") /\ UNCHANGED leftover

VerifyIam ==
    /\ InGroup /\ member["iam"] = "new"
    /\ \/ Goto("iam", "done") /\ UNCHANGED leftover
       \/ Raise("iam")

Inside == {"deps"} \cup Commands   \* a component there holds the lock

\* limited_deploy(): the semaphore, then the lock.
EnterSemaphore(c) ==
    /\ InGroup /\ member[c] = "new"
    /\ Cardinality({d \in Charts : member[d] \in Inside \cup {"waiting"}}) < Concurrency
    /\ Goto(c, "waiting") /\ UNCHANGED leftover

EnterLock(c) ==
    /\ InGroup /\ member[c] = "waiting"
    /\ \A d \in Charts : member[d] \notin Inside
    /\ Goto(c, "deps") /\ UNCHANGED leftover

\* validate_dependencies(), then the hooks; its failure is followed by a
\* rollback like that of any later step.
ValidateDependencies(c) ==
    /\ InGroup /\ member[c] = "deps"
    /\ Goto(c, "pre") \/ Goto(c, "rollback")
    /\ UNCHANGED leftover

\* What a process does to the cluster when it succeeds.
Effect(t, command) ==
    CASE command = "helm" -> installed \cup {t}
      [] command = "rollback" -> installed \ {t}
      [] OTHER -> installed

ProcessEnds(t) ==
    /\ process[t] = "running"
    /\ \/ process' = [process EXCEPT ![t] = "exit 0"] /\ installed' = Effect(t, member[t])
       \/ process' = [process EXCEPT ![t] = "exit 1"] /\ UNCHANGED installed
    /\ UNCHANGED <<info, stage, member, leftover>>

LeftoverEnds(x) ==
    /\ leftover' = leftover \ {x}
    /\ installed' \in {installed, Effect(x[1], x[2])}
    /\ UNCHANGED <<info, stage, member, process>>

\* _execute_command() returns TRUE.
Succeeds(t) == process[t] = "exit 0" /\ ~info

\* MUTANT of Failed: a component whose rollback succeeds is taken as dealt with.
FailedSwallowed(t) ==
    IF member[t] \in {"pre", "helm", "verify", "post"}
    THEN Goto(t, "rollback") /\ leftover' = leftover \cup
             (IF process[t] = "running" THEN {<<t, member[t]>>} ELSE {})
    ELSE IF Succeeds(t) THEN Goto(t, "done") /\ UNCHANGED leftover ELSE Raise(t)

\* A command of the task has not returned TRUE: a component is rolled back
\* first, and after the rollback, whatever came of it, the task raises.
Failed(t) ==
    IF member[t] \in {"pre", "helm", "verify", "post"}
    THEN Goto(t, "rollback") /\ leftover' = leftover \cup
             (IF process[t] = "running" THEN {<<t, member[t]>>} ELSE {})
    ELSE Raise(t)

\* The command ended, was never started, or is given up after its timeout.
CommandReturns(t) ==
    /\ InGroup /\ member[t] \in Commands
    /\ IF Succeeds(t) /\ member[t] # "rollback"
       THEN Goto(t, Following[member[t]]) /\ UNCHANGED leftover
       ELSE Failed(t)

GroupEnds ==
    /\ stage = "group" /\ \A t \in Group : member[t] \in Ended
    /\ stage' = IF \E t \in Group : member[t] = "failed" THEN "failed" ELSE "security"
    /\ UNCHANGED <<info, member, process, leftover, installed>>

\* _validate_security() and run_smoke_tests() raise past the handler, which
\* is for the exceptions of the group.
PostValidation ==
    /\ stage \in {"security", "smoke"}
    /\ stage' \in {IF stage = "security" THEN "smoke" ELSE "complete", "raised"}
    /\ UNCHANGED <<info, member, process, leftover, installed>>

DeployNext ==
    \/ DeployFullStack \/ StartInfra \/ VerifyIam \/ GroupEnds \/ PostValidation
    \/ \E c \in Charts : EnterSemaphore(c) \/ EnterLock(c) \/ ValidateDependencies(c)
    \/ \E t \in Group : ProcessEnds(t) \/ CommandReturns(t)
    \/ \E x \in leftover : LeftoverEnds(x)

DeploySpec == DeployInit /\ [][DeployNext]_deployVars
-----------------------------------------------------------------------------
(* A deployment that gets past its task group, and so may be reported      *)
(* complete, has every chart installed and none rolled back, whatever      *)
(* failed, timed out or was cancelled on the way, and no process of it is  *)
(* still changing the cluster (deploy.py:91-153, 203-237).                 *)
DeployedWhole ==
    stage \in {"security", "smoke", "complete"} =>
        installed = Charts /\ leftover = {}
=============================================================================
