--------------------------- MODULE CloudManagers ---------------------------
(***************************************************************************)
(* The managers of SageMaker jobs, AKS clusters and Synapse sessions       *)
(* (src/infrastructure/cloud/aws/sagemaker.py, azure/aks.py and            *)
(* azure/synapse.py).  Each remembers what it started in the cloud, and a  *)
(* monitor task is to forget it when it is over.                           *)
(***************************************************************************)
EXTENDS Naturals

CONSTANTS Jobs,       \* names of training jobs
          Clusters, NodePools,   \* ids of AKS resources; an operation goes by that id
          Runs,       \* ids of Synapse runs
          MaxPolls    \* polls of a pipeline run before its timeout

VARIABLES remote,      \* status of a training job in SageMaker
          launch,      \* launch_training_job() of the job: "none", "asked", "known", "lost"
          activeJobs,  \* _active_jobs
          monitor,     \* _monitor_training_job() of the job
          registered,  \* jobs with a model package
          operations,  \* _active_operations of the AKS manager
          tasks,       \* its monitor tasks per id that have not run yet
          sessions,    \* _active_sessions of the Synapse manager
          polls        \* monitor_pipeline_run(): polls so far, 0 when idle

jobVars == <<remote, launch, activeJobs, monitor, registered>>
azureVars == <<operations, tasks, sessions, polls>>
cloudVars == <<jobVars, azureVars>>

CloudInit ==
    /\ remote = [j \in Jobs |-> "none"]
    /\ launch = [j \in Jobs |-> "none"]
    /\ monitor = [j \in Jobs |-> "none"]
    /\ activeJobs = {} /\ registered = {} /\ operations = {} /\ sessions = {}
    /\ tasks = [i \in Clusters \cup NodePools |-> 0]
    /\ polls = 0

(* SageMaker: the job itself is external. *)
Over == {"Completed", "Failed", "Stopped"}

AskLaunch(j) ==
    /\ launch[j] = "none"
    /\ launch' = [launch EXCEPT ![j] = "asked"]
    /\ UNCHANGED <<remote, activeJobs, monitor, registered, azureVars>>

CreateJob(j) ==
    /\ launch[j] = "asked" /\ remote[j] = "none"
    /\ remote' = [remote EXCEPT ![j] = "InProgress"]
    /\ UNCHANGED <<launch, activeJobs, monitor, registered, azureVars>>

JobEnds(j) ==
    /\ remote[j] = "InProgress"
    /\ \E s \in Over : remote' = [remote EXCEPT ![j] = s]
    /\ UNCHANGED <<launch, activeJobs, monitor, registered, azureVars>>

\* The answer, or an exception: the job may run all the same, unwatched,
\* and another launch under its name is refused.
Launched(j) ==
    /\ launch[j] = "asked"
    /\ \/ /\ remote[j] # "none"
          /\ launch' = [launch EXCEPT ![j] = "known"]
          /\ activeJobs' = activeJobs \cup {j}
          /\ monitor' = [monitor EXCEPT ![j] = "describe"]
       \/ /\ launch' = [launch EXCEPT ![j] = IF remote[j] = "none" THEN "none" ELSE "lost"]
          /\ UNCHANGED <<activeJobs, monitor>>
    /\ UNCHANGED <<remote, registered, azureVars>>

\* MUTANT of AfterPoll: a job is forgotten before it is registered.
AfterPollEarly(j) ==
    [active |-> activeJobs \ {j}, at |-> IF remote[j] = "Completed" THEN "register" ELSE "ended"]

\* A poll that finds the job over: a completed one is registered first.
AfterPoll(j) ==
    IF remote[j] = "Completed" THEN [active |-> activeJobs, at |-> "register"]
                               ELSE [active |-> activeJobs \ {j}, at |-> "ended"]

\* A poll may also raise, which ends the monitor and nothing else.
Describe(j) ==
    /\ monitor[j] = "describe"
    /\ \/ /\ remote[j] \in Over
          /\ activeJobs' = AfterPoll(j).active
          /\ monitor' = [monitor EXCEPT ![j] = AfterPoll(j).at]
       \/ monitor' = [monitor EXCEPT ![j] = "died"] /\ UNCHANGED activeJobs
    /\ UNCHANGED <<remote, launch, registered, azureVars>>

\* _register_model(), which may raise as well.
Register(j) ==
    /\ monitor[j] = "register"
    /\ \/ /\ registered' = registered \cup {j}
          /\ activeJobs' = activeJobs \ {j}
          /\ monitor' = [monitor EXCEPT ![j] = "ended"]
       \/ monitor' = [monitor EXCEPT ![j] = "died"] /\ UNCHANGED <<registered, activeJobs>>
    /\ UNCHANGED <<remote, launch, azureVars>>

MaxTasks == 2   \* bound on the monitors of one AKS id that are to come

(* AKS: poller.result() blocks the event loop until the operation is over, *)
(* so its monitor finds it done.  Only create_cluster() remembers it;      *)
(* scale_node_pool() starts a monitor that finds nothing and ends with a   *)
(* KeyError.  The result of a deletion or of a rotation of certificates is *)
(* None, which has no id, so these raise and start none.                   *)
CreateCluster(c) ==
    /\ tasks[c] < MaxTasks
    /\ operations' = operations \cup {c}
    /\ tasks' = [tasks EXCEPT ![c] = @ + 1]
    /\ UNCHANGED <<jobVars, sessions, polls>>

ScaleNodePool(p) ==
    /\ tasks[p] < MaxTasks
    /\ tasks' = [tasks EXCEPT ![p] = @ + 1]
    /\ UNCHANGED <<jobVars, operations, sessions, polls>>

MonitorOperation(i) ==
    /\ tasks[i] > 0
    /\ tasks' = [tasks EXCEPT ![i] = @ - 1]
    /\ operations' = operations \ {i}
    /\ UNCHANGED <<jobVars, sessions, polls>>

(* Synapse: sessions are remembered and never forgotten. *)
SubmitSparkJob(r) ==
    /\ r \notin sessions
    /\ sessions' = sessions \cup {r}
    /\ UNCHANGED <<jobVars, operations, tasks, polls>>

ExecuteSqlScript(r) == SubmitSparkJob(r)

\* monitor_pipeline_run() polls until the run is over, a poll raises, or
\* the timeout has passed.
MonitorPipelineRun ==
    /\ \/ polls < MaxPolls /\ polls' = polls + 1
       \/ polls > 0 /\ polls' = 0
    /\ UNCHANGED <<jobVars, operations, tasks, sessions>>

CloudNext ==
    \/ \E j \in Jobs : \/ AskLaunch(j) \/ CreateJob(j) \/ JobEnds(j) \/ Launched(j)
                       \/ Describe(j) \/ Register(j)
    \/ \E c \in Clusters : CreateCluster(c)
    \/ \E p \in NodePools : ScaleNodePool(p)
    \/ \E i \in Clusters \cup NodePools : MonitorOperation(i)
    \/ \E r \in Runs : SubmitSparkJob(r) \/ ExecuteSqlScript(r)
    \/ MonitorPipelineRun

CloudSpec == CloudInit /\ [][CloudNext]_cloudVars
-----------------------------------------------------------------------------
(* A job whose launch succeeded is remembered until it is over and, if it  *)
(* completed, until its model is registered, even when a monitor fails     *)
(* half-way; an AKS operation is remembered only as long as a monitor of   *)
(* its id is still to come.                                                *)
WorkAccounted ==
    /\ \A j \in Jobs : launch[j] = "known" /\ j \notin activeJobs =>
          remote[j] \in Over /\ (remote[j] = "Completed" => j \in registered)
    /\ \A c \in operations : tasks[c] > 0
=============================================================================
