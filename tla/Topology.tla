------------------------------ MODULE Topology -----------------------------
(***************************************************************************)
(* NetworkTopology of core/orchestration/scheduler/graph_based/            *)
(* topology_manager.py: which node runs which agent, as seen by the        *)
(* coroutines that change it.  update_topology() holds the lock;           *)
(* handle_node_failure() does not, so its migrations overlap with those of *)
(* an update and with changes of the set of nodes.  A coroutine suspends   *)
(* only while it waits for an answer over HTTP or for a backoff, so an     *)
(* action is everything between two such points.                           *)
(***************************************************************************)
EXTENDS Integers, FiniteSets, Sequences

CONSTANTS
    Nodes,           \* node number k has the identifier kuva-node-k
    Agents,
    Updaters,        \* coroutines that call update_topology()
    Failovers,       \* coroutines that call handle_node_failure()
    Updates,         \* what discover_topology() may return
    Strategies,      \* the values of config.balancing_strategy considered
    Answers,         \* what a POST to /migrate may lead to
    EvictBatch,      \* agents evicted from a node at a time: 5 in the code
    AutoScaling,     \* config.enable_auto_scaling
    MinNodeCount,    \* config.min_node_count
    MaxNodeCount,    \* config.max_node_count
    AnyNode, NoMove, NoOne

(* A _migrate_agent() call, and one that an update has still to make. *)
Move == [agent : Agents, source : Nodes, target : Nodes]
Pending == [agent : Agents, target : Nodes \cup {AnyNode}]

ASSUME NodesAssumption ==
    Nodes \subseteq Nat \ {0} /\ IsFiniteSet(Nodes) /\ IsFiniteSet(Agents)
ASSUME ProcsAssumption == Updaters \cap Failovers = {} /\ NoOne \notin Updaters
ASSUME UpdatesAssumption ==
    Updates \subseteq [nodes : SUBSET Nodes, linked : SUBSET Nodes,
                       removed : SUBSET Nodes]
ASSUME StrategyAssumption ==
    Strategies \subseteq {"round_robin", "latency_aware", "resource_based",
                          "geo_affinity"}
ASSUME AnswersAssumption == Answers \subseteq {"accepted", "rejected", "error"}
ASSUME CountsAssumption ==
    EvictBatch \in Nat \ {0} /\ MinNodeCount \in Nat /\ MaxNodeCount \in Nat
ASSUME NullsAssumption == AnyNode \notin Nodes /\ NoMove \notin Move

VARIABLES
    strategy,   \* config.balancing_strategy
    graph,      \* nodes of the networkx graph
    nodes,      \* keys of node_states
    agents,     \* node_states[n].agents; empty for a node without state
    lock,       \* the updater that holds the lock
    pc,         \* where each coroutine is suspended
    move,       \* the arguments of the _migrate_agent() call in flight
    queue,      \* the migrations an update has still to look at
    unvisited,  \* the nodes an update has still to check for overload
    failed,     \* the node each failover is about
    to_move,    \* agents_to_move
    refused,    \* the agents whose migration by the last update was refused,
                \* as record_migration(success=False) and the log tell
    pods        \* kuva-node pods of the cluster, by number

vars == <<strategy, graph, nodes, agents, lock, pc, move, queue, unvisited,
          failed, to_move, refused, pods>>

Procs == Updaters \cup Failovers

TypeOK ==
    /\ strategy \in Strategies
    /\ graph \subseteq Nodes
    /\ nodes \subseteq Nodes
    /\ agents \in [Nodes -> SUBSET Agents]
    /\ lock \in Updaters \cup {NoOne}
    /\ pc \in [Procs -> {"idle", "post", "health", "backoff"}]
    /\ move \in [Procs -> Move \cup {NoMove}]
    /\ queue \in [Updaters -> Seq(Pending)]
    /\ unvisited \in [Updaters -> SUBSET Nodes]
    /\ failed \in [Failovers -> Nodes \cup {AnyNode}]
    /\ to_move \in [Failovers -> SUBSET Agents]
    /\ refused \subseteq Agents
    /\ pods \subseteq Nat

(* Agents are placed by the deployment, which is not part of the           *)
(* repository: every agent is on one node when the manager starts.         *)
Init ==
    /\ strategy \in Strategies
    /\ nodes \in (SUBSET Nodes) \ {{}}
    /\ graph = nodes
    /\ \E home \in [Agents -> nodes] :
          agents = [n \in Nodes |-> {a \in Agents : home[a] = n}]
    /\ lock = NoOne
    /\ pc = [p \in Procs |-> "idle"]
    /\ move = [p \in Procs |-> NoMove]
    /\ queue = [u \in Updaters |-> <<>>]
    /\ unvisited = [u \in Updaters |-> {}]
    /\ failed = [f \in Failovers |-> AnyNode]
    /\ to_move = [f \in Failovers |-> {}]
    /\ refused = {}
    /\ pods = nodes

----------------------------------------------------------------------------
(* _migrate_agent() *)

(* MUTANT of Leaves: discard() instead of remove(). *)
LeavesDiscarding(m) == m.source \in nodes

(* The answer arrives: 202 takes the agent from its source and then gives  *)
(* it to its target, and either lookup may fail by then.                   *)
Leaves(m) == m.source \in nodes /\ m.agent \in agents[m.source]

Settle(m, answer) ==
    LET without == [agents EXCEPT ![m.source] = @ \ {m.agent}]
    IN  IF answer # "accepted" \/ ~Leaves(m) THEN agents
        ELSE IF m.target \notin nodes THEN without
        ELSE [without EXCEPT ![m.target] = @ \cup {m.agent}]

Raises(m, answer) ==
    \/ answer = "error"
    \/ answer = "accepted" /\ (~Leaves(m) \/ m.target \notin nodes)

(* The node that runs an agent, if one does. *)
Homes(a, ns, ag) == {n \in ns : a \in ag[n]}

----------------------------------------------------------------------------
(* The end of update_topology(): partitions are only reported, pods are    *)
(* created or deleted through the Kubernetes API, and the lock is freed.   *)

Release(u) ==
    /\ lock' = NoOne
    /\ pc' = [pc EXCEPT ![u] = "idle"]
    /\ move' = [move EXCEPT ![u] = NoMove]
    /\ queue' = [queue EXCEPT ![u] = <<>>]
    /\ unvisited' = [unvisited EXCEPT ![u] = {}]

Fewest(ns, ag) ==
    {n \in ns : \A m \in ns : Cardinality(ag[n]) <= Cardinality(ag[m])}

MayScaleUp(ns) == Cardinality(ns) < MaxNodeCount

(* Loads are reported by the nodes, so the average may be high, low or in  *)
(* between; the API calls may fail.  Without nodes the average divides by  *)
(* zero and update_topology() raises instead.                              *)
AutoScale(ns, ag) ==
    \/ pods' = pods
    \/ /\ AutoScaling /\ ns # {}
       /\ MayScaleUp(ns)
       /\ pods' = pods \cup {Cardinality(ns) + 1}
    \/ /\ AutoScaling /\ ns # {}
       /\ Cardinality(ns) > MinNodeCount
       /\ \E n \in Fewest(ns, ag) : pods' = pods \ {n}

Finish(u, ns, ag) ==
    /\ AutoScale(ns, ag)
    /\ Release(u)

(* MUTANT of Abort: the lock is not released by an exception. *)
AbortKeepingLock(u) ==
    /\ pc' = [pc EXCEPT ![u] = "idle"]
    /\ UNCHANGED <<lock, move, queue, unvisited, pods>>

(* An exception ends update_topology(). *)
Abort(u) == Release(u) /\ UNCHANGED pods

----------------------------------------------------------------------------
(* _rebalance_clusters() *)

Orders(S) ==
    {s \in [1..Cardinality(S) -> S] : \A i, j \in DOMAIN s : s[i] = s[j] => i = j}

(* MUTANT of RingIndex: the last node is left out. *)
RingIndexShort(i, n) == IF n > 1 THEN (i % (n - 1)) + 1 ELSE 1

RingIndex(i, n) == ((i - 1) % n) + 1

(* _round_robin_balance(): agent i belongs on node i modulo the number of  *)
(* nodes, in whatever order dictionaries and sets are iterated.            *)
RoundRobin(ns, ag, gr) ==
    {[i \in 1..Len(order) |->
        [agent |-> order[i], target |-> ring[RingIndex(i, Len(ring))]]] :
        order \in Orders(UNION {ag[n] : n \in ns}), ring \in Orders(gr)}

(* list(agents)[:5] *)
Evictions(S) ==
    {[i \in 1..Len(order) |-> [agent |-> order[i], target |-> AnyNode]] :
        order \in UNION {Orders(T) : T \in
            {T \in SUBSET S : \/ T = S /\ Cardinality(S) <= EvictBatch
                              \/ Cardinality(T) = EvictBatch}}}

(* The first migration of q that is needed, if any: round robin skips an   *)
(* agent that is on its target.                                            *)
Needed(q, ns, ag) ==
    {i \in DOMAIN q : q[i].target \in ns => q[i].agent \notin ag[q[i].target]}

(* _find_optimal_node(): any node may report the least load. *)
Targets(target, ns) == IF target = AnyNode THEN ns ELSE {target}

(* The update posts the next migration and suspends, or raises: KeyError   *)
(* for a target without state, StopIteration for an agent on no node.      *)
PostNext(u, q, left, ns, ag) ==
    \E i \in Needed(q, ns, ag) :
      /\ \A j \in Needed(q, ns, ag) : i <= j
      /\ \E t \in Targets(q[i].target, ns) :
           \/ /\ t \in ns
              /\ \E s \in Homes(q[i].agent, ns, ag) :
                   move' = [move EXCEPT ![u] =
                              [agent |-> q[i].agent, source |-> s, target |-> t]]
              /\ lock' = u
              /\ pc' = [pc EXCEPT ![u] = "post"]
              /\ queue' = [queue EXCEPT ![u] = SubSeq(q, i + 1, Len(q))]
              /\ unvisited' = [unvisited EXCEPT ![u] = left]
              /\ UNCHANGED pods
           \/ /\ t \notin ns \/ Homes(q[i].agent, ns, ag) = {}
              /\ Abort(u)

(* The rest of the update until it suspends or returns.  Which nodes are   *)
(* overloaded when the loop reaches them depends on reported loads.        *)
Rebalance(u, q, left, ns, ag) ==
    \/ /\ Needed(q, ns, ag) # {}
       /\ PostNext(u, q, left, ns, ag)
    \/ /\ Needed(q, ns, ag) = {}
       /\ Finish(u, ns, ag)
    \/ /\ Needed(q, ns, ag) = {}
       /\ \E n \in left \cap ns : \E later \in SUBSET (left \ {n}) :
             /\ ag[n] # {}
             /\ \E r \in Evictions(ag[n]) : PostNext(u, r, later, ns, ag)

(* latency_aware calls a method that does not exist and raises; for        *)
(* geo_affinity there is nothing to do.                                    *)
BeginRebalance(u, ns, ag, gr) ==
    \/ /\ strategy = "round_robin"
       /\ \E q \in RoundRobin(ns, ag, gr) : Rebalance(u, q, {}, ns, ag)
    \/ /\ strategy = "resource_based"
       /\ Rebalance(u, <<>>, ns, ns, ag)
    \/ /\ strategy = "geo_affinity"
       /\ Finish(u, ns, ag)
    \/ /\ strategy = "latency_aware"
       /\ Abort(u)

----------------------------------------------------------------------------
(* update_topology() *)

Without(ag, gone) == [n \in Nodes |-> IF n \in gone THEN {} ELSE ag[n]]

(* MUTANT of States: states are removed before new ones are added. *)
StatesRemovingFirst(update, gone) == (nodes \ gone) \cup update.nodes

States(update, gone) == (nodes \cup update.nodes) \ gone

(* What _apply_update() does: nodes get state, links only get graph nodes, *)
(* and a removed node takes its agents with it.                            *)
Applied(update, gone) ==
    /\ graph' = (graph \cup update.nodes \cup update.linked) \ gone
    /\ nodes' = States(update, gone)
    /\ agents' = Without(agents, gone)

(* MUTANT of Unlocked: nobody acquires the lock. *)
UnlockedAlways == TRUE

Unlocked == lock = NoOne

Update(u, update) ==
    /\ pc[u] = "idle"
    /\ Unlocked
    /\ update.removed \subseteq graph \cup update.nodes \cup update.linked
    /\ Applied(update, update.removed)
    /\ BeginRebalance(u, nodes', agents', graph')
    /\ refused' = {}
    /\ UNCHANGED <<strategy, failed, to_move>>

(* remove_node() raises for a node that is not in the graph, after some of *)
(* the others were removed.                                                *)
UpdateUnknownNode(u, update) ==
    LET known == graph \cup update.nodes \cup update.linked
    IN  /\ pc[u] = "idle"
        /\ Unlocked
        /\ ~(update.removed \subseteq known)
        /\ \E gone \in SUBSET (update.removed \cap known) : Applied(update, gone)
        /\ Abort(u)
        /\ refused' = {}
        /\ UNCHANGED <<strategy, failed, to_move>>

Refused(m, answer) ==
    IF answer = "rejected" THEN refused \cup {m.agent} ELSE refused

(* An update's migration is answered: an exception ends the update, and a  *)
(* refusal leaves the agent where it is and the update goes on.            *)
UpdateAnswer(u) ==
    /\ pc[u] = "post"
    /\ \E answer \in Answers :
          /\ agents' = Settle(move[u], answer)
          /\ refused' = Refused(move[u], answer)
          /\ IF Raises(move[u], answer)
             THEN Abort(u)
             ELSE Rebalance(u, queue[u], unvisited[u], nodes, agents')
    /\ UNCHANGED <<strategy, graph, nodes, failed, to_move>>

(* TopologyManager.stop() cancels the monitor task while it waits. *)
CancelUpdate(u) ==
    /\ pc[u] = "post"
    /\ Abort(u)
    /\ UNCHANGED <<strategy, graph, nodes, agents, failed, to_move, refused>>

----------------------------------------------------------------------------
(* handle_node_failure() and _failover_agents() *)

topologyVars == <<strategy, graph, nodes, lock, queue, unvisited, refused, pods>>

HandleNodeFailure(f, n) ==
    /\ pc[f] = "idle"
    /\ pc' = [pc EXCEPT ![f] = "health"]
    /\ failed' = [failed EXCEPT ![f] = n]
    /\ UNCHANGED <<agents, move, to_move>>
    /\ UNCHANGED topologyVars

FailoverReturns(f) ==
    /\ pc' = [pc EXCEPT ![f] = "idle"]
    /\ move' = [move EXCEPT ![f] = NoMove]
    /\ to_move' = [to_move EXCEPT ![f] = {}]
    /\ failed' = [failed EXCEPT ![f] = AnyNode]

HealthOK(f) ==
    /\ pc[f] = "health"
    /\ FailoverReturns(f)
    /\ UNCHANGED agents
    /\ UNCHANGED topologyVars

BackOff(f, S) ==
    /\ pc' = [pc EXCEPT ![f] = "backoff"]
    /\ move' = [move EXCEPT ![f] = NoMove]
    /\ to_move' = [to_move EXCEPT ![f] = S]
    /\ UNCHANGED failed

(* The loop of _failover_agents() until it suspends or returns.  Any node  *)
(* may report the least load, the failed one included; without nodes       *)
(* min() raises outside the try.                                           *)
Relocate(f, S, ag) ==
    \/ /\ S = {} \/ nodes = {}
       /\ FailoverReturns(f)
    \/ \E a \in S, t \in nodes :
          \/ /\ \E s \in Homes(a, nodes, ag) :
                  move' = [move EXCEPT ![f] =
                             [agent |-> a, source |-> s, target |-> t]]
             /\ pc' = [pc EXCEPT ![f] = "post"]
             /\ to_move' = [to_move EXCEPT ![f] = S \ {a}]
             /\ UNCHANGED failed
          \/ /\ Homes(a, nodes, ag) = {}
             /\ BackOff(f, S)

(* The health check fails.  Without state for the node there is nothing to *)
(* move and a KeyError is raised.                                          *)
HealthBad(f) ==
    /\ pc[f] = "health"
    /\ IF failed[f] \in nodes
       THEN Relocate(f, agents[failed[f]], agents)
       ELSE FailoverReturns(f)
    /\ UNCHANGED agents
    /\ UNCHANGED topologyVars

FailoverAnswer(f) ==
    /\ pc[f] = "post"
    /\ \E answer \in Answers :
          /\ agents' = Settle(move[f], answer)
          /\ IF Raises(move[f], answer)
             THEN BackOff(f, to_move[f] \cup {move[f].agent})
             ELSE Relocate(f, to_move[f], agents')
    /\ UNCHANGED topologyVars

FailoverRetry(f) ==
    /\ pc[f] = "backoff"
    /\ Relocate(f, to_move[f], agents)
    /\ UNCHANGED agents
    /\ UNCHANGED topologyVars

----------------------------------------------------------------------------
FailoverStep(f) ==
    HealthOK(f) \/ HealthBad(f) \/ FailoverAnswer(f) \/ FailoverRetry(f)

Next ==
    \/ \E u \in Updaters :
        \/ \E update \in Updates : Update(u, update) \/ UpdateUnknownNode(u, update)
        \/ UpdateAnswer(u)
        \/ CancelUpdate(u)
    \/ \E f \in Failovers :
        \/ \E n \in Nodes : HandleNodeFailure(f, n)
        \/ FailoverStep(f)

(* HTTP requests have timeouts and backoffs end, so a suspended coroutine  *)
(* resumes; nothing obliges anyone to call update_topology(),              *)
(* handle_node_failure() or stop().                                        *)
Fairness ==
    /\ \A u \in Updaters : WF_vars(UpdateAnswer(u))
    /\ \A f \in Failovers : WF_vars(FailoverStep(f))

Spec == Init /\ [][Next]_vars /\ Fairness

----------------------------------------------------------------------------
(* However many migrations of an agent are in flight, the agent is never   *)
(* recorded on two nodes (topology_manager.py:138-139 without the lock).   *)
OneHome ==
    \A n, m \in Nodes : agents[n] \cap agents[m] # {} => n = m

(* Every node with state is in the graph, so _round_robin_balance() never  *)
(* has agents to place and no node to place them on.                       *)
StatesInGraph ==
    /\ nodes \subseteq graph
    /\ \A n \in Nodes : agents[n] # {} => n \in nodes

(* A migration never loses its agent ("Safely migrate agent between        *)
(* nodes"): agents disappear only together with a removed node.            *)
MigrationKeepsAgents ==
    [][\A a \in Agents :
          /\ \E n \in Nodes : a \in agents[n]
          /\ nodes \subseteq nodes'
          => \E n \in Nodes : a \in agents'[n]]_vars

(* A plan sends every agent on a node to a node of the graph. *)
Housed(ns, ag) == UNION {ag[n] : n \in ns}

Share(plan, n) == {a \in DOMAIN plan : plan[a] = n}

Even(plan, gr) ==
    \A n, m \in gr : Cardinality(Share(plan, n)) <= Cardinality(Share(plan, m)) + 1

(* When a round-robin update completes, after its last answer, the agents  *)
(* are spread evenly ("Distribute agents evenly across available nodes",   *)
(* topology_manager.py:98) but for those whose migration was refused       *)
(* (141-143): some even plan has every other agent where it is.            *)
RoundRobinEven ==
    [][\A u \in Updaters :
          /\ lock = u /\ lock' = NoOne
          /\ agents' # agents \/ refused' # refused
          /\ Needed(queue[u], nodes, agents') = {}
          => \E plan \in [Housed(nodes, agents') -> graph] :
                /\ Even(plan, graph)
                /\ \A a \in DOMAIN plan \ refused' : a \in agents'[plan[a]]]_vars

(* An update ends and frees the lock for the next one, whatever failovers  *)
(* and failed migrations it meets.                                         *)
LockReleased == lock # NoOne ~> lock = NoOne
=============================================================================
