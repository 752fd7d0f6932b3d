--------------------------- MODULE TopologyProofs --------------------------
(* Proofs about Topology, for any nodes, agents, updates and strategy. *)
EXTENDS Topology, FiniteSetTheorems, SequenceTheorems, TLAPS

(* How a stretch of update_topology() ends: the update is over, or it has  *)
(* posted a migration to a node that has state.                            *)
Ended(u) ==
    /\ lock' = NoOne
    /\ pc' = [pc EXCEPT ![u] = "idle"]
    /\ move' = [move EXCEPT ![u] = NoMove]
    /\ queue' = [queue EXCEPT ![u] = <<>>]
    /\ unvisited' = [unvisited EXCEPT ![u] = {}]

Posted(u, ns) ==
    /\ lock' = u
    /\ pc' = [pc EXCEPT ![u] = "post"]
    /\ \E m \in Move : m.target \in ns /\ move' = [move EXCEPT ![u] = m]
    /\ \E q \in Seq(Pending) : queue' = [queue EXCEPT ![u] = q]
    /\ \E left \in SUBSET Nodes : unvisited' = [unvisited EXCEPT ![u] = left]

(* What the pods may be after an update. *)
PodsStep ==
    \A k \in pods' : k \in pods \/ k \in Nat

(* A sequence of migrations built from an ordering is well typed. *)
LEMMA OrderedSeq ==
    ASSUME NEW S, IsFiniteSet(S), NEW order \in Orders(S)
    PROVE  /\ Len(order) \in Nat
           /\ \A i \in 1..Len(order) : order[i] \in S
  <1>1. Cardinality(S) \in Nat
    BY FS_CardinalityType
  <1>2. order \in [1..Cardinality(S) -> S]
    BY DEF Orders
  <1>3. order \in Seq(S)
    BY <1>1, <1>2, SeqDef
  <1> QED
    BY <1>3

(* Every eviction of _evict_agents() is a well-typed list of migrations. *)
LEMMA EvictionsType ==
    ASSUME NEW S \in SUBSET Agents, NEW r \in Evictions(S)
    PROVE  r \in Seq(Pending)
  <1>1. PICK T \in SUBSET S : \E order \in Orders(T) :
           r = [i \in 1..Len(order) |-> [agent |-> order[i], target |-> AnyNode]]
    BY DEF Evictions
  <1>0. PICK order \in Orders(T) :
           r = [i \in 1..Len(order) |-> [agent |-> order[i], target |-> AnyNode]]
    BY <1>1
  <1>2. IsFiniteSet(T)
    BY NodesAssumption, FS_Subset
  <1>3. /\ Len(order) \in Nat
        /\ \A i \in 1..Len(order) : order[i] \in T
    BY <1>2, OrderedSeq
  <1>4. \A i \in 1..Len(order) :
           [agent |-> order[i], target |-> AnyNode] \in Pending
    BY <1>3 DEF Pending
  <1>5. r \in [1..Len(order) -> Pending]
    BY <1>0, <1>4
  <1> QED
    BY <1>3, <1>5, SeqDef

(* Whatever _round_robin_balance() plans is a well-typed list as well.     *)
LEMMA RoundRobinType ==
    ASSUME NEW ns \in SUBSET Nodes, NEW ag \in [Nodes -> SUBSET Agents],
           NEW gr \in SUBSET Nodes,
           ns \subseteq gr, \A n \in Nodes : ag[n] # {} => n \in ns,
           NEW q \in RoundRobin(ns, ag, gr)
    PROVE  q \in Seq(Pending)
  <1> DEFINE A == UNION {ag[n] : n \in ns}
  <1>1. PICK order \in Orders(A), ring \in Orders(gr) :
           q = [i \in 1..Len(order) |->
                  [agent |-> order[i],
                   target |-> ring[((i - 1) % Len(ring)) + 1]]]
    BY DEF RoundRobin, RingIndex
  <1>2. A \subseteq Agents
    OBVIOUS
  <1>3. IsFiniteSet(A) /\ IsFiniteSet(gr)
    BY <1>2, NodesAssumption, FS_Subset
  <1> HIDE DEF A
  <1>4. /\ Len(order) \in Nat
        /\ \A i \in 1..Len(order) : order[i] \in A
    BY <1>3, OrderedSeq
  <1>5. /\ Len(ring) \in Nat
        /\ \A i \in 1..Len(ring) : ring[i] \in gr
    BY <1>3, OrderedSeq
  <1>6. ASSUME NEW i \in 1..Len(order)
        PROVE  [agent |-> order[i],
                target |-> ring[((i - 1) % Len(ring)) + 1]] \in Pending
    <2>1. order[i] \in Agents
      BY <1>2, <1>4
    <2>2. PICK n \in ns : order[i] \in ag[n]
      BY <1>4 DEF A
    <2>3. n \in gr
      BY <2>2
    <2>4. Len(ring) = Cardinality(gr)
      <3>1. Cardinality(gr) \in Nat
        BY <1>3, FS_CardinalityType
      <3>2. ring \in [1..Cardinality(gr) -> gr]
        BY DEF Orders
      <3> QED
        BY <3>1, <3>2, SeqDef
    <2>5. Len(ring) # 0
      BY <2>3, <2>4, <1>3, FS_EmptySet
    <2>6. i \in Int /\ i - 1 \in Int
      BY <1>4
    <2>7. (i - 1) % Len(ring) \in 0..(Len(ring) - 1)
      BY <2>5, <2>6, <1>5
    <2>8. ((i - 1) % Len(ring)) + 1 \in 1..Len(ring)
      BY <2>7, <1>5
    <2>9. ring[((i - 1) % Len(ring)) + 1] \in Nodes
      BY <2>8, <1>5
    <2> QED
      BY <2>1, <2>9 DEF Pending
  <1>7. q \in [1..Len(order) -> Pending]
    BY <1>1, <1>6
  <1> QED
    BY <1>4, <1>7, SeqDef

(* AutoScale creates pods that have a number. *)
LEMMA ScaleStep ==
    ASSUME NEW ns \in SUBSET Nodes, NEW ag, AutoScale(ns, ag)
    PROVE  PodsStep
  <1>1. Cardinality(ns) \in Nat
    BY NodesAssumption, FS_Subset, FS_CardinalityType
  <1>2. CASE pods' = pods
    BY <1>2 DEF PodsStep
  <1>3. CASE pods' = pods \cup {Cardinality(ns) + 1}
    <2>1. Cardinality(ns) + 1 \in Nat
      BY <1>1
    <2> QED
      BY <1>3, <2>1 DEF PodsStep
  <1>4. CASE \E n \in Fewest(ns, ag) : pods' = pods \ {n}
    BY <1>4 DEF PodsStep
  <1> QED
    BY <1>2, <1>3, <1>4 DEF AutoScale

(* Posting the next migration of a list. *)
LEMMA PostOutcome ==
    ASSUME NEW u, NEW q \in Seq(Pending), NEW left \in SUBSET Nodes,
           NEW ns \in SUBSET Nodes, NEW ag \in [Nodes -> SUBSET Agents],
           PostNext(u, q, left, ns, ag)
    PROVE  (Ended(u) \/ Posted(u, ns)) /\ PodsStep
  <1>1. PICK i \in DOMAIN q : \E t \in Targets(q[i].target, ns) :
           \/ /\ t \in ns
              /\ \E s \in Homes(q[i].agent, ns, ag) :
                   move' = [move EXCEPT ![u] =
                              [agent |-> q[i].agent, source |-> s, target |-> t]]
              /\ lock' = u
              /\ pc' = [pc EXCEPT ![u] = "post"]
              /\ queue' = [queue EXCEPT ![u] = SubSeq(q, i + 1, Len(q))]
              /\ unvisited' = [unvisited EXCEPT ![u] = left]
              /\ UNCHANGED pods
           \/ Abort(u)
    BY DEF PostNext, Needed
  <1>0. PICK t \in Targets(q[i].target, ns) :
           \/ /\ t \in ns
              /\ \E s \in Homes(q[i].agent, ns, ag) :
                   move' = [move EXCEPT ![u] =
                              [agent |-> q[i].agent, source |-> s, target |-> t]]
              /\ lock' = u
              /\ pc' = [pc EXCEPT ![u] = "post"]
              /\ queue' = [queue EXCEPT ![u] = SubSeq(q, i + 1, Len(q))]
              /\ unvisited' = [unvisited EXCEPT ![u] = left]
              /\ UNCHANGED pods
           \/ Abort(u)
    BY <1>1
  <1>2. CASE Abort(u)
    BY <1>2 DEF Abort, Release, Ended, PodsStep
  <1>3. CASE ~Abort(u)
    <2>1. /\ t \in ns /\ UNCHANGED pods /\ lock' = u
          /\ pc' = [pc EXCEPT ![u] = "post"]
          /\ queue' = [queue EXCEPT ![u] = SubSeq(q, i + 1, Len(q))]
          /\ unvisited' = [unvisited EXCEPT ![u] = left]
      BY <1>0, <1>3
    <2>2. PICK s \in Homes(q[i].agent, ns, ag) :
             move' = [move EXCEPT ![u] =
                        [agent |-> q[i].agent, source |-> s, target |-> t]]
      BY <1>0, <1>3
    <2>3. [agent |-> q[i].agent, source |-> s, target |-> t] \in Move
      BY <2>1, <2>2 DEF Homes, Move
    <2>4. i \in Nat /\ Len(q) \in Nat /\ i \in 1..Len(q)
      OBVIOUS
    <2>5. SubSeq(q, i + 1, Len(q)) \in Seq(Pending)
      BY <2>4, SubSeqProperties
    <2>6. Posted(u, ns)
      BY <2>1, <2>2, <2>3, <2>5 DEF Posted
    <2> QED
      BY <2>1, <2>6 DEF PodsStep
  <1> QED
    BY <1>2, <1>3

(* The rest of a rebalancing. *)
LEMMA RebalanceOutcome ==
    ASSUME NEW u, NEW q \in Seq(Pending), NEW left \in SUBSET Nodes,
           NEW ns \in SUBSET Nodes, NEW ag \in [Nodes -> SUBSET Agents],
           Rebalance(u, q, left, ns, ag)
    PROVE  (Ended(u) \/ Posted(u, ns)) /\ PodsStep
  <1>1. CASE PostNext(u, q, left, ns, ag)
    BY <1>1, PostOutcome
  <1>2. CASE Finish(u, ns, ag)
    BY <1>2, ScaleStep DEF Finish, Release, Ended
  <1>3. CASE \E n \in left \cap ns : \E later \in SUBSET (left \ {n}) :
               \E r \in Evictions(ag[n]) : PostNext(u, r, later, ns, ag)
    <2>1. PICK n \in left \cap ns : \E later \in SUBSET (left \ {n}) :
             \E r \in Evictions(ag[n]) : PostNext(u, r, later, ns, ag)
      BY <1>3
    <2>0. PICK later \in SUBSET (left \ {n}), r \in Evictions(ag[n]) :
             PostNext(u, r, later, ns, ag)
      BY <2>1
    <2>2. ag[n] \in SUBSET Agents /\ later \in SUBSET Nodes
      BY <2>1
    <2>3. r \in Seq(Pending)
      BY <2>2, EvictionsType
    <2> QED
      BY <2>0, <2>2, <2>3, PostOutcome
  <1> QED
    BY <1>1, <1>2, <1>3 DEF Rebalance

(* Any strategy. *)
LEMMA BeginOutcome ==
    ASSUME NEW u, NEW ns \in SUBSET Nodes, NEW gr \in SUBSET Nodes,
           NEW ag \in [Nodes -> SUBSET Agents],
           ns \subseteq gr, \A n \in Nodes : ag[n] # {} => n \in ns,
           BeginRebalance(u, ns, ag, gr)
    PROVE  (Ended(u) \/ Posted(u, ns)) /\ PodsStep
  <1>1. CASE \E q \in RoundRobin(ns, ag, gr) : Rebalance(u, q, {}, ns, ag)
    <2>1. PICK q \in RoundRobin(ns, ag, gr) : Rebalance(u, q, {}, ns, ag)
      BY <1>1
    <2>2. q \in Seq(Pending)
      BY RoundRobinType
    <2> QED
      BY <2>1, <2>2, RebalanceOutcome
  <1>2. CASE Rebalance(u, <<>>, ns, ns, ag)
    <2>1. <<>> \in Seq(Pending)
      OBVIOUS
    <2> QED
      BY <1>2, <2>1, RebalanceOutcome
  <1>3. CASE Finish(u, ns, ag)
    BY <1>3, ScaleStep DEF Finish, Release, Ended
  <1>4. CASE Abort(u)
    BY <1>4 DEF Abort, Release, Ended, PodsStep
  <1> QED
    BY <1>1, <1>2, <1>3, <1>4 DEF BeginRebalance
----------------------------------------------------------------------------
(* Agents are typed, on one node each, and on nodes that have state. *)
Placed ==
    /\ nodes \subseteq Nodes
    /\ agents \in [Nodes -> SUBSET Agents]
    /\ OneHome
    /\ \A n \in Nodes : agents[n] # {} => n \in nodes

(* The effect of an answer to _migrate_agent() on the agents. *)
LEMMA SettleStep ==
    ASSUME Placed, NEW m, NEW answer, UNCHANGED nodes,
           agents' = Settle(m, answer)
    PROVE  Placed'
  <1>1. CASE agents' = agents
    BY <1>1 DEF Placed, OneHome
  <1>2. CASE /\ Leaves(m) /\ m.target \in nodes
             /\ agents' = [[agents EXCEPT ![m.source] = @ \ {m.agent}]
                             EXCEPT ![m.target] = @ \cup {m.agent}]
    <2>1. m.source \in Nodes /\ m.target \in Nodes /\ m.agent \in Agents
      BY <1>2 DEF Leaves, Placed
    <2>2. m.agent \in agents[m.source] /\ m.source \in nodes
      BY <1>2 DEF Leaves
    <2>3. agents' \in [Nodes -> SUBSET Agents]
      BY <1>2, <2>1 DEF Placed
    <2>4. \A n \in Nodes : agents'[n] \subseteq agents[n] \cup {m.agent}
      BY <1>2, <2>1 DEF Placed
    <2>5. \A n \in Nodes : m.agent \in agents'[n] => n = m.target
      BY <1>2, <2>1, <2>2 DEF Placed, OneHome
    <2>6. OneHome'
      BY <2>4, <2>5 DEF Placed, OneHome
    <2>7. \A n \in Nodes : agents'[n] # {} => n \in nodes
      BY <2>4, <2>5, <1>2 DEF Placed
    <2> QED
      BY <2>3, <2>6, <2>7 DEF Placed
  <1>3. CASE /\ Leaves(m)
             /\ agents' = [agents EXCEPT ![m.source] = @ \ {m.agent}]
    <2>1. m.source \in Nodes
      BY <1>3 DEF Leaves, Placed
    <2>2. agents' \in [Nodes -> SUBSET Agents]
      BY <1>3, <2>1 DEF Placed
    <2>3. \A n \in Nodes : agents'[n] \subseteq agents[n]
      BY <1>3, <2>1 DEF Placed
    <2> QED
      BY <2>2, <2>3 DEF Placed, OneHome
  <1> QED
    BY <1>1, <1>2, <1>3 DEF Settle

(* The effect of _apply_update(). *)
LEMMA AppliedStep ==
    ASSUME Placed, NEW update \in Updates, NEW gone \in SUBSET Nodes,
           Applied(update, gone)
    PROVE  Placed'
  <1>1. update.nodes \subseteq Nodes
    BY UpdatesAssumption
  <1>2. /\ nodes' = (nodes \cup update.nodes) \ gone
        /\ agents' = [n \in Nodes |-> IF n \in gone THEN {} ELSE agents[n]]
    BY DEF Applied, States, Without
  <1>3. nodes' \subseteq Nodes /\ agents' \in [Nodes -> SUBSET Agents]
    BY <1>1, <1>2 DEF Placed
  <1>4. \A n \in Nodes :
           /\ agents'[n] \subseteq agents[n]
           /\ n \in gone => agents'[n] = {}
    BY <1>2 DEF Placed
  <1>5. OneHome'
    BY <1>4 DEF Placed, OneHome
  <1>6. \A n \in Nodes : agents'[n] # {} => n \in nodes'
    BY <1>2, <1>4 DEF Placed
  <1> QED
    BY <1>3, <1>5, <1>6 DEF Placed

(* Every step keeps Placed. *)
LEMMA PlacedStep ==
    ASSUME Placed, [Next]_vars
    PROVE  Placed'
  <1>1. ASSUME NEW u \in Updaters, NEW update \in Updates, Update(u, update)
        PROVE  Placed'
    <2>1. Applied(update, update.removed) /\ update.removed \in SUBSET Nodes
      BY <1>1, UpdatesAssumption DEF Update
    <2> QED
      BY <2>1, AppliedStep
  <1>2. ASSUME NEW u \in Updaters, NEW update \in Updates,
               UpdateUnknownNode(u, update)
        PROVE  Placed'
    <2>1. PICK gone \in SUBSET update.removed : Applied(update, gone)
      BY <1>2 DEF UpdateUnknownNode
    <2>2. gone \in SUBSET Nodes
      BY <2>1, UpdatesAssumption
    <2> QED
      BY <2>1, <2>2, AppliedStep
  <1>3. ASSUME NEW u \in Updaters, UpdateAnswer(u)
        PROVE  Placed'
    BY <1>3, SettleStep DEF UpdateAnswer
  <1>4. ASSUME NEW u \in Updaters, CancelUpdate(u)
        PROVE  Placed'
    BY <1>4 DEF CancelUpdate, Placed, OneHome
  <1>5. ASSUME NEW f \in Failovers, NEW n \in Nodes, HandleNodeFailure(f, n)
        PROVE  Placed'
    BY <1>5 DEF HandleNodeFailure, topologyVars, Placed, OneHome
  <1>6. ASSUME NEW f \in Failovers, FailoverAnswer(f)
        PROVE  Placed'
    BY <1>6, SettleStep DEF FailoverAnswer, topologyVars
  <1>7. ASSUME NEW f \in Failovers,
               HealthOK(f) \/ HealthBad(f) \/ FailoverRetry(f)
        PROVE  Placed'
    <2>1. UNCHANGED <<nodes, agents>>
      BY <1>7 DEF HealthOK, HealthBad, FailoverRetry, topologyVars
    <2> QED
      BY <2>1 DEF Placed, OneHome
  <1>8. CASE UNCHANGED vars
    BY <1>8 DEF vars, Placed, OneHome
  <1> QED
    BY <1>1, <1>2, <1>3, <1>4, <1>5, <1>6, <1>7, <1>8 DEF Next, FailoverStep

(* Placed holds initially. *)
LEMMA PlacedInit == Init => Placed
  <1> SUFFICES ASSUME Init PROVE Placed
    OBVIOUS
  <1>1. PICK home \in [Agents -> nodes] :
           agents = [n \in Nodes |-> {a \in Agents : home[a] = n}]
    BY DEF Init
  <1>2. nodes \subseteq Nodes
    BY DEF Init
  <1> QED
    BY <1>1, <1>2 DEF Placed, OneHome

(* However the migrations of updates and failovers interleave with changes *)
(* of the nodes, no agent is recorded on two nodes                         *)
(* (topology_manager.py:127-143).                                          *)
THEOREM AtMostOneHome == Spec => []OneHome
  <1>1. Placed => OneHome
    BY DEF Placed
  <1> QED
    BY <1>1, PlacedInit, PlacedStep, PTL DEF Spec

(* The part of StatesInGraph that Placed leaves open. *)
GraphInv == Placed /\ nodes \subseteq graph

(* Only _apply_update() changes the graph or the keys of node_states. *)
LEMMA GraphStep ==
    ASSUME GraphInv, [Next]_vars
    PROVE  GraphInv'
  <1> SUFFICES nodes' \subseteq graph'
    BY PlacedStep DEF GraphInv
  <1>1. ASSUME NEW u \in Updaters, NEW update \in Updates,
               Update(u, update) \/ UpdateUnknownNode(u, update)
        PROVE  nodes' \subseteq graph'
    BY <1>1 DEF Update, UpdateUnknownNode, Applied, States, GraphInv
  <1>2. CASE UNCHANGED <<graph, nodes>>
    BY <1>2 DEF GraphInv
  <1>3. ASSUME NEW u \in Updaters, UpdateAnswer(u) \/ CancelUpdate(u)
        PROVE  UNCHANGED <<graph, nodes>>
    BY <1>3 DEF UpdateAnswer, CancelUpdate
  <1>4. ASSUME NEW f \in Failovers, NEW n \in Nodes, HandleNodeFailure(f, n)
        PROVE  UNCHANGED <<graph, nodes>>
    BY <1>4 DEF HandleNodeFailure, topologyVars
  <1>5. ASSUME NEW f \in Failovers, FailoverStep(f)
        PROVE  UNCHANGED <<graph, nodes>>
    BY <1>5 DEF FailoverStep, HealthOK, HealthBad, FailoverAnswer,
                FailoverRetry, topologyVars
  <1>6. CASE UNCHANGED vars
    BY <1>6, <1>2 DEF vars
  <1> QED
    BY <1>1, <1>2, <1>3, <1>4, <1>5, <1>6 DEF Next

(* Every node with state, and so every node with agents, is a node of the  *)
(* graph that _round_robin_balance() distributes over                      *)
(* (topology_manager.py:71-83, 97-105).                                    *)
THEOREM InGraph == Spec => []StatesInGraph
  <1>1. Init => GraphInv
    BY PlacedInit DEF Init, GraphInv
  <1>2. GraphInv => StatesInGraph
    BY DEF GraphInv, Placed, StatesInGraph
  <1> QED
    BY <1>1, <1>2, GraphStep, PTL DEF Spec
----------------------------------------------------------------------------
(* A coroutine that waits for an answer has a migration in flight, and the *)
(* update that waits holds the lock and waits for a node that has state:   *)
(* node_states changes under the lock only.                                *)
InFlight ==
    /\ \A p \in Procs : pc[p] = "post" => move[p] \in Move
    /\ \A u \in Updaters : pc[u] = "post" => lock = u /\ move[u].target \in nodes

Inv == TypeOK /\ GraphInv /\ InFlight

(* Every step of an update ends the update or posts a migration, and it    *)
(* leaves failovers alone.                                                 *)
LEMMA UpdaterOutcome ==
    ASSUME Inv, NEW u \in Updaters,
           \/ \E update \in Updates :
                 Update(u, update) \/ UpdateUnknownNode(u, update)
           \/ UpdateAnswer(u)
           \/ CancelUpdate(u)
    PROVE  /\ Ended(u) \/ Posted(u, nodes')
           /\ PodsStep
           /\ UNCHANGED <<strategy, failed, to_move>>
  <1>1. ASSUME NEW update \in Updates, Update(u, update)
        PROVE  /\ Ended(u) \/ Posted(u, nodes')
               /\ PodsStep
               /\ UNCHANGED <<strategy, failed, to_move>>
    <2>1. update.removed \in SUBSET Nodes /\ Applied(update, update.removed)
      BY <1>1, UpdatesAssumption DEF Update
    <2>2. Placed'
      BY <2>1, AppliedStep DEF Inv, GraphInv
    <2>3. nodes' \subseteq graph' /\ graph' \subseteq Nodes
      BY <2>1, UpdatesAssumption DEF Inv, GraphInv, TypeOK, Applied, States
    <2>4. BeginRebalance(u, nodes', agents', graph')
      BY <1>1 DEF Update
    <2>5. (Ended(u) \/ Posted(u, nodes')) /\ PodsStep
      BY <2>2, <2>3, <2>4, BeginOutcome DEF Placed
    <2> QED
      BY <1>1, <2>5 DEF Update
  <1>2. ASSUME NEW update \in Updates, UpdateUnknownNode(u, update)
        PROVE  /\ Ended(u) \/ Posted(u, nodes')
               /\ PodsStep
               /\ UNCHANGED <<strategy, failed, to_move>>
    BY <1>2 DEF UpdateUnknownNode, Abort, Release, Ended, PodsStep
  <1>3. CASE UpdateAnswer(u)
    <2>1. PICK answer \in Answers :
             /\ agents' = Settle(move[u], answer)
             /\ \/ Abort(u)
                \/ Rebalance(u, queue[u], unvisited[u], nodes, agents')
      BY <1>3 DEF UpdateAnswer
    <2>2. UNCHANGED <<strategy, nodes, failed, to_move>>
      BY <1>3 DEF UpdateAnswer
    <2>3. Placed'
      BY <2>1, <2>2, SettleStep DEF Inv, GraphInv
    <2>4. CASE Abort(u)
      BY <2>2, <2>4 DEF Abort, Release, Ended, PodsStep
    <2>5. CASE Rebalance(u, queue[u], unvisited[u], nodes, agents')
      <3>1. queue[u] \in Seq(Pending) /\ unvisited[u] \in SUBSET Nodes
        BY DEF Inv, TypeOK
      <3>2. nodes \in SUBSET Nodes /\ agents' \in [Nodes -> SUBSET Agents]
        BY <2>2, <2>3 DEF Placed
      <3>3. (Ended(u) \/ Posted(u, nodes)) /\ PodsStep
        BY <3>1, <3>2, <2>5, RebalanceOutcome
      <3> QED
        BY <3>3, <2>2
    <2> QED
      BY <2>1, <2>4, <2>5
  <1>4. CASE CancelUpdate(u)
    BY <1>4 DEF CancelUpdate, Abort, Release, Ended, PodsStep
  <1> QED
    BY <1>1, <1>2, <1>3, <1>4

(* Type correctness of an updater's step, from its outcome. *)
LEMMA UpdaterType ==
    ASSUME Inv, Placed', graph' \subseteq Nodes, NEW u \in Updaters,
           Ended(u) \/ Posted(u, nodes'), PodsStep,
           UNCHANGED <<strategy, failed, to_move>>, refused' \subseteq Agents
    PROVE  TypeOK'
  <1>1. u \in Procs
    BY DEF Procs
  <1>2. pods' \subseteq Nat
    BY DEF PodsStep, Inv, TypeOK
  <1>3. nodes' \subseteq Nodes /\ agents' \in [Nodes -> SUBSET Agents]
    BY DEF Placed
  <1>4. /\ lock' \in Updaters \cup {NoOne}
        /\ pc' \in [Procs -> {"idle", "post", "health", "backoff"}]
    BY <1>1 DEF Ended, Posted, Inv, TypeOK
  <1>5. move' \in [Procs -> Move \cup {NoMove}]
    BY <1>1 DEF Ended, Posted, Inv, TypeOK
  <1>6. queue' \in [Updaters -> Seq(Pending)]
    <2>1. <<>> \in Seq(Pending)
      OBVIOUS
    <2> QED
      BY <2>1 DEF Ended, Posted, Inv, TypeOK
  <1>7. unvisited' \in [Updaters -> SUBSET Nodes]
    BY DEF Ended, Posted, Inv, TypeOK
  <1>8. /\ strategy' \in Strategies
        /\ failed' \in [Failovers -> Nodes \cup {AnyNode}]
        /\ to_move' \in [Failovers -> SUBSET Agents]
    BY DEF Inv, TypeOK
  <1> QED
    BY <1>2, <1>3, <1>4, <1>5, <1>6, <1>7, <1>8 DEF TypeOK

(* An updater's step leaves InFlight in place: no other update waits. *)
LEMMA UpdaterInFlight ==
    ASSUME Inv, NEW u \in Updaters, Ended(u) \/ Posted(u, nodes'),
           lock \in {u, NoOne}
    PROVE  InFlight'
  <1>1. u \in Procs /\ Updaters \subseteq Procs
    BY DEF Procs
  <1>2. \A v \in Updaters : v # u => pc[v] # "post"
    BY ProcsAssumption DEF Inv, InFlight
  <1>3. \A p \in Procs : p # u => pc'[p] = pc[p] /\ move'[p] = move[p]
    BY <1>1 DEF Ended, Posted, Inv, TypeOK
  <1>4. \A p \in Procs : p # u /\ pc'[p] = "post" => move'[p] \in Move
    BY <1>3 DEF Inv, InFlight
  <1>5. CASE Ended(u)
    <2>1. pc'[u] = "idle"
      BY <1>1, <1>5 DEF Ended, Inv, TypeOK
    <2> QED
      BY <1>1, <1>2, <1>3, <1>4, <2>1 DEF InFlight
  <1>6. CASE Posted(u, nodes')
    <2>1. lock' = u /\ move'[u] \in Move /\ move'[u].target \in nodes'
      BY <1>1, <1>6 DEF Posted, Inv, TypeOK
    <2> QED
      BY <1>1, <1>2, <1>3, <1>4, <2>1 DEF InFlight
  <1> QED
    BY <1>5, <1>6
----------------------------------------------------------------------------
(* What a step of a failover may leave behind: its local state is typed    *)
(* and a migration is in flight whenever it waits for an answer.           *)
FailoverLeft(f) ==
    /\ \/ \E c \in {"idle", "health", "backoff"} :
             /\ pc' = [pc EXCEPT ![f] = c]
             /\ move' = [move EXCEPT ![f] = NoMove] \/ UNCHANGED move
       \/ /\ pc' = [pc EXCEPT ![f] = "post"]
          /\ \E m \in Move : move' = [move EXCEPT ![f] = m]
    /\ failed' \in [Failovers -> Nodes \cup {AnyNode}]
    /\ to_move' \in [Failovers -> SUBSET Agents]

(* _failover_agents() returns or raises. *)
LEMMA ReturnsLeft ==
    ASSUME TypeOK, NEW f \in Failovers, FailoverReturns(f)
    PROVE  FailoverLeft(f)
  <1>1. /\ pc' = [pc EXCEPT ![f] = "idle"]
        /\ move' = [move EXCEPT ![f] = NoMove]
    BY DEF FailoverReturns
  <1>2. failed' \in [Failovers -> Nodes \cup {AnyNode}]
    BY DEF FailoverReturns, TypeOK
  <1>3. to_move' \in [Failovers -> SUBSET Agents]
    BY DEF FailoverReturns, TypeOK
  <1> QED
    BY <1>1, <1>2, <1>3 DEF FailoverLeft

(* _failover_agents() sleeps before it retries. *)
LEMMA BackOffLeft ==
    ASSUME TypeOK, NEW f \in Failovers, NEW S \in SUBSET Agents,
           BackOff(f, S)
    PROVE  FailoverLeft(f)
  <1>1. /\ pc' = [pc EXCEPT ![f] = "backoff"]
        /\ move' = [move EXCEPT ![f] = NoMove]
    BY DEF BackOff
  <1>2. failed' \in [Failovers -> Nodes \cup {AnyNode}]
    BY DEF BackOff, TypeOK
  <1>3. to_move' \in [Failovers -> SUBSET Agents]
    BY DEF BackOff, TypeOK
  <1> QED
    BY <1>1, <1>2, <1>3 DEF FailoverLeft

(* The loop of _failover_agents(). *)
LEMMA RelocateLeft ==
    ASSUME TypeOK, NEW f \in Failovers, NEW S \in SUBSET Agents,
           NEW ag \in [Nodes -> SUBSET Agents], Relocate(f, S, ag)
    PROVE  FailoverLeft(f)
  <1>1. CASE FailoverReturns(f)
    BY <1>1, ReturnsLeft
  <1>2. CASE BackOff(f, S)
    BY <1>2, BackOffLeft
  <1>3. CASE \E a \in S, t \in nodes :
               /\ \E s \in Homes(a, nodes, ag) :
                    move' = [move EXCEPT ![f] =
                               [agent |-> a, source |-> s, target |-> t]]
               /\ pc' = [pc EXCEPT ![f] = "post"]
               /\ to_move' = [to_move EXCEPT ![f] = S \ {a}]
               /\ UNCHANGED failed
    <2>1. PICK a \in S, t \in nodes :
               /\ \E s \in Homes(a, nodes, ag) :
                    move' = [move EXCEPT ![f] =
                               [agent |-> a, source |-> s, target |-> t]]
               /\ pc' = [pc EXCEPT ![f] = "post"]
               /\ to_move' = [to_move EXCEPT ![f] = S \ {a}]
               /\ UNCHANGED failed
      BY <1>3
    <2>2. PICK s \in Homes(a, nodes, ag) :
             move' = [move EXCEPT ![f] =
                        [agent |-> a, source |-> s, target |-> t]]
      BY <2>1
    <2>3. [agent |-> a, source |-> s, target |-> t] \in Move
      BY <2>1, <2>2 DEF Homes, Move, TypeOK
    <2>4. failed' \in [Failovers -> Nodes \cup {AnyNode}]
      BY <2>1 DEF TypeOK
    <2>5. to_move' \in [Failovers -> SUBSET Agents]
      BY <2>1 DEF TypeOK
    <2> QED
      BY <2>1, <2>2, <2>3, <2>4, <2>5 DEF FailoverLeft
  <1> QED
    BY <1>1, <1>2, <1>3 DEF Relocate

(* Every step of a failover. *)
LEMMA FailoverOutcome ==
    ASSUME Inv, NEW f \in Failovers,
           (\E n \in Nodes : HandleNodeFailure(f, n)) \/ FailoverStep(f)
    PROVE  FailoverLeft(f) /\ UNCHANGED topologyVars
  <1>1. TypeOK /\ Placed
    BY DEF Inv, GraphInv
  <1>2. ASSUME NEW n \in Nodes, HandleNodeFailure(f, n)
        PROVE  FailoverLeft(f) /\ UNCHANGED topologyVars
    <2>1. failed' \in [Failovers -> Nodes \cup {AnyNode}]
      BY <1>1, <1>2 DEF HandleNodeFailure, TypeOK
    <2> QED
      BY <1>1, <1>2, <2>1 DEF HandleNodeFailure, FailoverLeft, TypeOK
  <1>3. CASE HealthOK(f)
    BY <1>1, <1>3, ReturnsLeft DEF HealthOK
  <1>4. CASE HealthBad(f)
    <2>1. UNCHANGED topologyVars
      BY <1>4 DEF HealthBad
    <2>2. CASE FailoverReturns(f)
      BY <1>1, <2>1, <2>2, ReturnsLeft
    <2>3. CASE /\ failed[f] \in nodes
               /\ Relocate(f, agents[failed[f]], agents)
      <3>1. agents[failed[f]] \in SUBSET Agents
        BY <1>1, <2>3 DEF TypeOK
      <3>2. agents \in [Nodes -> SUBSET Agents]
        BY <1>1 DEF TypeOK
      <3> QED
        BY <1>1, <2>1, <2>3, <3>1, <3>2, RelocateLeft
    <2> QED
      BY <1>4, <2>2, <2>3 DEF HealthBad
  <1>5. CASE FailoverAnswer(f)
    <2>1. PICK answer \in Answers :
             /\ agents' = Settle(move[f], answer)
             /\ \/ BackOff(f, to_move[f] \cup {move[f].agent})
                \/ Relocate(f, to_move[f], agents')
      BY <1>5 DEF FailoverAnswer
    <2>2. UNCHANGED topologyVars /\ UNCHANGED nodes /\ pc[f] = "post"
      BY <1>5 DEF FailoverAnswer, topologyVars
    <2>3. agents' \in [Nodes -> SUBSET Agents]
      BY <1>1, <2>1, <2>2, SettleStep DEF Placed
    <2>4. move[f].agent \in Agents
      BY <2>2 DEF Inv, InFlight, Procs, Move
    <2>5. to_move[f] \in SUBSET Agents
      BY <1>1 DEF TypeOK
    <2>6. to_move[f] \cup {move[f].agent} \in SUBSET Agents
      BY <2>4, <2>5
    <2>7. FailoverLeft(f)
      BY <1>1, <2>1, <2>3, <2>5, <2>6, BackOffLeft, RelocateLeft
    <2> QED
      BY <2>2, <2>7
  <1>6. CASE FailoverRetry(f)
    <2>1. /\ to_move[f] \in SUBSET Agents
          /\ agents \in [Nodes -> SUBSET Agents]
      BY <1>1 DEF TypeOK
    <2> QED
      BY <1>1, <1>6, <2>1, RelocateLeft DEF FailoverRetry
  <1> QED
    BY <1>2, <1>3, <1>4, <1>5, <1>6 DEF FailoverStep

(* Inv is inductive. *)
LEMMA InvStep ==
    ASSUME Inv, [Next]_vars
    PROVE  Inv'
  <1>1. GraphInv' /\ Placed'
    BY GraphStep DEF Inv, GraphInv
  <1>2. ASSUME NEW u \in Updaters,
               \/ \E update \in Updates :
                     Update(u, update) \/ UpdateUnknownNode(u, update)
               \/ UpdateAnswer(u)
               \/ CancelUpdate(u)
        PROVE  TypeOK' /\ InFlight'
    <2>1. /\ Ended(u) \/ Posted(u, nodes')
          /\ PodsStep
          /\ UNCHANGED <<strategy, failed, to_move>>
      BY <1>2, UpdaterOutcome
    <2>2. graph' \subseteq Nodes
      BY <1>2, UpdatesAssumption DEF Update, UpdateUnknownNode, UpdateAnswer,
         CancelUpdate, Applied, Inv, TypeOK
    <2>3. lock \in {u, NoOne}
      BY <1>2 DEF Update, UpdateUnknownNode, Unlocked, UpdateAnswer, CancelUpdate, Inv, InFlight
    <2>4. refused' \subseteq Agents
      <3>1. CASE refused' \subseteq refused
        BY <3>1 DEF Inv, TypeOK
      <3>2. CASE UpdateAnswer(u)
        <4>1. u \in Procs /\ pc[u] = "post"
          BY <3>2 DEF UpdateAnswer, Procs
        <4>2. move[u].agent \in Agents
          BY <4>1 DEF Inv, InFlight, Move
        <4> QED
          BY <3>2, <4>2 DEF UpdateAnswer, Refused, Inv, TypeOK
      <3> QED
        BY <1>2, <3>1, <3>2 DEF Update, UpdateUnknownNode, CancelUpdate
    <2>5. TypeOK'
      BY <1>1, <2>1, <2>2, <2>4, UpdaterType
    <2> QED
      BY <2>1, <2>3, <2>5, UpdaterInFlight
  <1>3. ASSUME NEW f \in Failovers,
               (\E n \in Nodes : HandleNodeFailure(f, n)) \/ FailoverStep(f)
        PROVE  TypeOK' /\ InFlight'
    <2>1. FailoverLeft(f) /\ UNCHANGED <<strategy, graph, nodes, lock, queue, unvisited, refused, pods>>
      BY <1>3, FailoverOutcome DEF topologyVars
    <2>2. f \in Procs /\ f \notin Updaters /\ Updaters \subseteq Procs
      BY ProcsAssumption DEF Procs
    <2>3. /\ pc' \in [Procs -> {"idle", "post", "health", "backoff"}]
          /\ move' \in [Procs -> Move \cup {NoMove}]
      BY <2>1, <2>2 DEF FailoverLeft, Inv, TypeOK
    <2>4. TypeOK'
      BY <1>1, <2>1, <2>3 DEF FailoverLeft, Placed, Inv, TypeOK
    <2>5. \A p \in Procs : p # f => pc'[p] = pc[p] /\ move'[p] = move[p]
      BY <2>1, <2>2 DEF FailoverLeft, Inv, TypeOK
    <2>6. pc'[f] = "post" => move'[f] \in Move
      BY <2>1, <2>2 DEF FailoverLeft, Inv, TypeOK
    <2>7. InFlight'
      BY <2>1, <2>2, <2>5, <2>6 DEF Inv, InFlight
    <2> QED
      BY <2>4, <2>7
  <1>4. ASSUME UNCHANGED vars
        PROVE  TypeOK' /\ InFlight'
    <2>1. TypeOK'
      BY <1>4 DEF vars, Inv, TypeOK
    <2>2. InFlight'
      BY <1>4 DEF vars, Inv, InFlight
    <2> QED
      BY <2>1, <2>2
  <1>5. TypeOK' /\ InFlight'
    <2>1. ASSUME Next
          PROVE  TypeOK' /\ InFlight'
      BY <2>1, <1>2, <1>3 DEF Next
    <2> QED
      BY <2>1, <1>4
  <1> QED
    BY <1>1, <1>5 DEF Inv

(* Inv holds initially. *)
LEMMA InvInit == Init => Inv
  <1> SUFFICES ASSUME Init PROVE Inv
    OBVIOUS
  <1>1. GraphInv
    BY PlacedInit DEF Init, GraphInv
  <1>2. queue \in [Updaters -> Seq(Pending)]
    <2>1. <<>> \in Seq(Pending)
      OBVIOUS
    <2> QED
      BY <2>1 DEF Init
  <1>3. pods \subseteq Nat
    BY NodesAssumption DEF Init
  <1>4. pc = [p \in Procs |-> "idle"] /\ move = [p \in Procs |-> NoMove]
    BY DEF Init
  <1>5. InFlight
    <2>1. \A p \in Procs : pc[p] = "idle"
      BY <1>4
    <2>2. Updaters \subseteq Procs
      BY DEF Procs
    <2> QED
      BY <2>1, <2>2 DEF InFlight
  <1>6. /\ graph \subseteq Nodes /\ nodes \subseteq Nodes
        /\ agents \in [Nodes -> SUBSET Agents]
    BY <1>1 DEF GraphInv, Placed, Init
  <1>7. /\ lock \in Updaters \cup {NoOne}
        /\ pc \in [Procs -> {"idle", "post", "health", "backoff"}]
        /\ move \in [Procs -> Move \cup {NoMove}]
    BY <1>4 DEF Init
  <1>8. /\ strategy \in Strategies
        /\ unvisited \in [Updaters -> SUBSET Nodes]
        /\ failed \in [Failovers -> Nodes \cup {AnyNode}]
        /\ to_move \in [Failovers -> SUBSET Agents]
        /\ refused \subseteq Agents
    BY DEF Init
  <1>9. TypeOK
    BY <1>2, <1>3, <1>6, <1>7, <1>8 DEF TypeOK
  <1> QED
    BY <1>1, <1>5, <1>9 DEF Inv

(* Type correctness: among others, no suspended coroutine ever holds a     *)
(* migration between nodes the topology does not know.                     *)
THEOREM TypeCorrect == Spec => []TypeOK
  <1>1. Inv => TypeOK
    BY DEF Inv
  <1> QED
    BY <1>1, InvInit, InvStep, PTL DEF Spec

(* As long as no failover runs, a migration never loses its agent: the     *)
(* lock keeps the target of a migration in node_states until the answer is *)
(* there (topology_manager.py:64-69, 127-143).                             *)
THEOREM UpdatesKeepAgents ==
    ASSUME Failovers = {}
    PROVE  Spec => MigrationKeepsAgents
  <1> DEFINE Keeps == \A a \in Agents :
                        /\ \E n \in Nodes : a \in agents[n]
                        /\ nodes \subseteq nodes'
                        => \E n \in Nodes : a \in agents'[n]
  <1>1. ASSUME Inv, [Next]_vars PROVE [Keeps]_vars
    <2>1. Placed /\ TypeOK
      BY <1>1 DEF Inv, GraphInv
    <2>2. ASSUME NEW u \in Updaters, NEW update \in Updates,
                 Update(u, update) \/ UpdateUnknownNode(u, update)
          PROVE  Keeps
      <3>1. PICK gone \in SUBSET update.removed : Applied(update, gone)
        BY <2>2 DEF Update, UpdateUnknownNode
      <3>2. \A n \in Nodes : n \notin gone => agents'[n] = agents[n]
        BY <3>1 DEF Applied, States, Without
      <3>3. nodes' \cap gone = {}
        BY <3>1 DEF Applied, States
      <3> QED
        BY <2>1, <3>2, <3>3 DEF Placed
    <2>3. ASSUME NEW u \in Updaters, UpdateAnswer(u)
          PROVE  Keeps
      <3>1. PICK answer \in Answers : agents' = Settle(move[u], answer)
        BY <2>3 DEF UpdateAnswer
      <3>2. move[u].target \in nodes
        BY <1>1, <2>3 DEF UpdateAnswer, Inv, InFlight
      <3>3. CASE agents' = agents
        BY <3>3
      <3>4. CASE /\ Leaves(move[u])
                 /\ agents' = [[agents EXCEPT ![move[u].source] = @ \ {move[u].agent}]
                                 EXCEPT ![move[u].target] = @ \cup {move[u].agent}]
        <4> DEFINE m == move[u]
        <4>1. m.source \in Nodes /\ m.target \in Nodes
          BY <3>2, <3>4, <2>1 DEF Leaves, Placed
        <4>2. m.agent \in agents'[m.target]
          BY <3>4, <4>1, <2>1 DEF Placed
        <4>3. \A n \in Nodes : \A a \in agents[n] : a # m.agent => a \in agents'[n]
          BY <3>4, <4>1, <2>1 DEF Placed
        <4> QED
          BY <4>1, <4>2, <4>3
      <3> QED
        BY <3>1, <3>2, <3>3, <3>4 DEF Settle
    <2>4. ASSUME NEW u \in Updaters, CancelUpdate(u)
          PROVE  Keeps
      BY <2>4 DEF CancelUpdate
    <2>5. CASE UNCHANGED vars
      BY <2>5
    <2> QED
      BY <1>1, <2>2, <2>3, <2>4, <2>5 DEF Next
  <1> QED
    BY <1>1, InvInit, InvStep, PTL DEF Spec, MigrationKeepsAgents

----------------------------------------------------------------------------
(* Division with rest. *)
LEMMA Quotient ==
    ASSUME NEW a \in Nat, NEW r \in Nat \ {0}
    PROVE  /\ a % r \in 0..(r - 1)
           /\ a \div r \in Nat /\ a = r * (a \div r) + (a % r)
  OBVIOUS

LEMMA Smaller ==
    ASSUME NEW r \in Nat \ {0}, NEW d \in Nat \ {0}
    PROVE  r <= r * d
  OBVIOUS

LEMMA SameRest ==
    ASSUME NEW r \in Nat \ {0}, NEW p \in Nat, NEW q \in Nat,
           NEW m \in 0..(r - 1), NEW n \in 0..(r - 1), r * p + m = r * q + n
    PROVE  m = n
  <1>1. p < q \/ p = q \/ q < p
    OBVIOUS
  <1>2. CASE p < q
    <2>1. q - p \in Nat \ {0}
      BY <1>2
    <2>2. r <= r * (q - p)
      BY <2>1, Smaller
    <2>3. r * (q - p) = r * q - r * p
      OBVIOUS
    <2>4. r * q \in Int /\ r * p \in Int
      OBVIOUS
    <2> QED
      BY <2>2, <2>3, <2>4
  <1>3. CASE q < p
    <2>1. p - q \in Nat \ {0}
      BY <1>3
    <2>2. r <= r * (p - q)
      BY <2>1, Smaller
    <2>3. r * (p - q) = r * p - r * q
      OBVIOUS
    <2>4. r * q \in Int /\ r * p \in Int
      OBVIOUS
    <2> QED
      BY <2>2, <2>3, <2>4
  <1> QED
    BY <1>1, <1>2, <1>3

LEMMA Rest ==
    ASSUME NEW r \in Nat \ {0}, NEW q \in Nat, NEW m \in 0..(r - 1)
    PROVE  (r * q + m) % r = m
  <1>1. r * q + m \in Nat
    OBVIOUS
  <1> DEFINE a == r * q + m
  <1>2. /\ a % r \in 0..(r - 1) /\ a \div r \in Nat
        /\ a = r * (a \div r) + (a % r)
    BY <1>1, Quotient
  <1> QED
    BY <1>2, SameRest

(* The places of a list of n agents that _round_robin_balance() sends to   *)
(* node number x of r.                                                     *)
Residue(n, r, x) == {i \in 1..n : RingIndex(i, r) = x}

(* Two such sets differ by at most one place: all but the first place of   *)
(* one have a place of the other in the same round or in the one before.   *)
LEMMA ResiduesEven ==
    ASSUME NEW n \in Nat, NEW r \in Nat \ {0}, NEW j \in 1..r, NEW k \in 1..r
    PROVE  Cardinality(Residue(n, r, j)) <= Cardinality(Residue(n, r, k)) + 1
  <1> DEFINE d == IF k > j THEN k - j - r ELSE k - j
             S == Residue(n, r, j) \ {j}
             T == Residue(n, r, k)
             f == [i \in S |-> i + d]
  <1>1. d \in Int /\ d <= 0
    OBVIOUS
  <1>2. ASSUME NEW i \in S
        PROVE  i + d \in T
    <2>1. i \in 1..n /\ ((i - 1) % r) + 1 = j /\ i # j
      BY DEF Residue, RingIndex
    <2>2. i - 1 \in Nat
      BY <2>1
    <2>3. PICK q \in Nat : i - 1 = r * q + ((i - 1) % r)
      BY <2>2, Quotient
    <2>4. i - 1 = r * q + (j - 1)
      <3>1. (i - 1) % r \in Int
        BY <2>2, Quotient
      <3>2. (i - 1) % r = j - 1
        BY <2>1, <3>1
      <3> QED
        BY <2>3, <3>2
    <2>5. q # 0
      BY <2>1, <2>4
    <2>6. CASE k > j
      <3>1. r * q = r * (q - 1) + r /\ q - 1 \in Nat /\ r * (q - 1) \in Nat
        BY <2>5
      <3>2. i + d - 1 = r * (q - 1) + (k - 1)
        BY <2>1, <2>4, <2>6, <3>1
      <3>3. (i + d - 1) % r = k - 1
        BY <3>1, <3>2, Rest
      <3>4. i + d \in 1..n
        BY <1>1, <2>1, <3>1, <3>2
      <3> QED
        BY <3>3, <3>4 DEF Residue, RingIndex
    <2>7. CASE ~(k > j)
      <3>1. r * q \in Nat
        OBVIOUS
      <3>2. i + d - 1 = r * q + (k - 1)
        BY <2>1, <2>4, <2>7, <3>1
      <3>3. (i + d - 1) % r = k - 1
        BY <3>2, Rest
      <3>4. i + d \in 1..n
        BY <1>1, <2>1, <3>1, <3>2
      <3> QED
        BY <3>3, <3>4 DEF Residue, RingIndex
    <2> QED
      BY <2>6, <2>7
  <1>3. S \subseteq Int /\ T \subseteq 1..n /\ Residue(n, r, j) \subseteq 1..n
    BY DEF Residue
  <1>4. IsFiniteSet(T) /\ IsFiniteSet(Residue(n, r, j))
    <2>1. IsFiniteSet(1..n)
      BY FS_Interval
    <2> QED
      BY <1>3, <2>1, FS_Subset
  <1> HIDE DEF d, S, T
  <1>5. f \in Injection(S, T)
    <2>1. f \in [S -> T]
      BY <1>2
    <2>2. \A a, b \in S : f[a] = f[b] => a = b
      BY <1>1, <1>3
    <2> QED
      BY <2>1, <2>2 DEF Injection, IsInjective
  <1>6. Cardinality(S) <= Cardinality(T)
    BY <1>4, <1>5, FS_Injection
  <1>7. Cardinality(Residue(n, r, j)) <= Cardinality(S) + 1
    <2>1. /\ Cardinality(Residue(n, r, j)) \in Nat
          /\ Cardinality(S) = IF j \in Residue(n, r, j) THEN Cardinality(Residue(n, r, j)) - 1
                             ELSE Cardinality(Residue(n, r, j))
      BY <1>4, FS_RemoveElement, FS_CardinalityType DEF S
    <2> QED
      BY <2>1
  <1>8. Cardinality(S) \in Nat /\ Cardinality(T) \in Nat /\ Cardinality(Residue(n, r, j)) \in Nat
    <2>1. IsFiniteSet(S)
      BY <1>4, FS_RemoveElement DEF S
    <2> QED
      BY <1>4, <2>1, FS_CardinalityType
  <1> QED
    BY <1>6, <1>7, <1>8 DEF T

(* The migrations of a list are those of a plan. *)
Listed(plan, q) ==
    \A j \in 1..Len(q) : q[j].agent \in DOMAIN plan /\ q[j].target = plan[q[j].agent]

EvenPlan(q, ns, ag, gr) ==
    \E plan \in [Housed(ns, ag) -> gr] :
       /\ Even(plan, gr) /\ Listed(plan, q)
       /\ \A a \in DOMAIN plan : \E j \in 1..Len(q) : q[j].agent = a

(* An ordering of a finite set numbers its members. *)
LEMMA OrderNumbers ==
    ASSUME NEW S, IsFiniteSet(S), NEW order \in Orders(S)
    PROVE  /\ Cardinality(S) \in Nat /\ Len(order) = Cardinality(S)
           /\ order \in [1..Len(order) -> S]
           /\ \A i, j \in 1..Len(order) : order[i] = order[j] => i = j
           /\ \A x \in S : \E i \in 1..Len(order) : order[i] = x
  <1> DEFINE n == Cardinality(S)
  <1>1. n \in Nat
    BY FS_CardinalityType
  <1>2. order \in [1..n -> S] /\ \A i, j \in 1..n : order[i] = order[j] => i = j
    BY DEF Orders
  <1>3. Len(order) = n
    <2>1. order \in Seq(S)
      BY <1>1, <1>2, SeqDef
    <2> QED
      BY <1>1, <1>2, <2>1
  <1>4. IsFiniteSet(1..n) /\ Cardinality(1..n) = n
    BY <1>1, FS_Interval
  <1> HIDE DEF n
  <1>5. order \in Injection(1..n, S)
    BY <1>2 DEF Injection, IsInjective
  <1>6. order \in Surjection(1..n, S)
    BY <1>4, <1>5, FS_Injection DEF n
  <1>7. \A x \in S : \E i \in 1..n : order[i] = x
    BY <1>6 DEF Surjection
  <1> QED
    BY <1>1, <1>2, <1>3, <1>7 DEF n

(* What _round_robin_balance() lists is an even plan. *)
LEMMA RoundRobinPlan ==
    ASSUME NEW ns \in SUBSET Nodes, NEW ag \in [Nodes -> SUBSET Agents],
           NEW gr \in SUBSET Nodes, ns \subseteq gr, NEW q \in RoundRobin(ns, ag, gr)
    PROVE  EvenPlan(q, ns, ag, gr)
  <1> DEFINE A == Housed(ns, ag)
  <1>1. PICK order \in Orders(A), ring \in Orders(gr) :
           q = [i \in 1..Len(order) |->
                  [agent |-> order[i], target |-> ring[RingIndex(i, Len(ring))]]]
    BY DEF RoundRobin, Housed
  <1> DEFINE n == Len(order)
             r == Len(ring)
             number == [a \in A |-> CHOOSE i \in 1..n : order[i] = a]
             plan == [a \in A |-> ring[RingIndex(number[a], r)]]
  <1>2. IsFiniteSet(A) /\ IsFiniteSet(gr)
    <2>1. A \subseteq Agents
      BY DEF Housed
    <2> QED
      BY <2>1, NodesAssumption, FS_Subset
  <1>3. /\ n \in Nat /\ order \in [1..n -> A]
        /\ \A i, j \in 1..n : order[i] = order[j] => i = j
        /\ \A a \in A : \E i \in 1..n : order[i] = a
    BY <1>2, OrderNumbers
  <1>4. /\ r \in Nat /\ r = Cardinality(gr) /\ ring \in [1..r -> gr]
        /\ \A i, j \in 1..r : ring[i] = ring[j] => i = j
        /\ \A x \in gr : \E i \in 1..r : ring[i] = x
    BY <1>2, OrderNumbers
  <1> HIDE DEF n, r
  <1>5. \A a \in A : number[a] \in 1..n /\ order[number[a]] = a
    BY <1>3
  <1>6. \A i \in 1..n : number[order[i]] = i
    BY <1>3, <1>5
  <1> HIDE DEF number
  <1>7. A # {} => r # 0
    <2> SUFFICES ASSUME A # {}
                 PROVE  r # 0
      OBVIOUS
    <2>1. PICK x \in ns : TRUE
      BY DEF Housed
    <2>2. \E i \in 1..r : ring[i] = x
      BY <1>4
    <2> QED
      BY <1>4, <2>2
  <1>8. \A i \in 1..n : RingIndex(i, r) \in 1..r
    <2> SUFFICES ASSUME NEW i \in 1..n
                 PROVE  RingIndex(i, r) \in 1..r
      OBVIOUS
    <2>1. r \in Nat \ {0} /\ i - 1 \in Nat
      BY <1>3, <1>4, <1>7
    <2>2. (i - 1) % r \in 0..(r - 1)
      BY <2>1, Quotient
    <2> QED
      BY <2>1, <2>2 DEF RingIndex
  <1>9. plan \in [A -> gr]
    BY <1>4, <1>5, <1>8
  <1>10. /\ Len(q) = n
         /\ \A j \in 1..n : q[j].agent = order[j] /\ q[j].target = ring[RingIndex(j, r)]
    BY <1>1, <1>3 DEF n, r
  <1>11. Listed(plan, q)
    BY <1>3, <1>6, <1>9, <1>10 DEF Listed
  <1>12. \A a \in DOMAIN plan : \E j \in 1..Len(q) : q[j].agent = a
    BY <1>3, <1>9, <1>10
  <1>13. ASSUME NEW x \in 1..r
         PROVE  Cardinality(Share(plan, ring[x])) = Cardinality(Residue(n, r, x))
    <2> DEFINE S == Residue(n, r, x)
               T == Share(plan, ring[x])
               f == [i \in S |-> order[i]]
    <2>1. S \subseteq 1..n /\ IsFiniteSet(S)
      <3>1. IsFiniteSet(1..n)
        BY <1>3, FS_Interval
      <3> QED
        BY <3>1, FS_Subset DEF Residue
    <2>2. \A i \in S : order[i] \in T
      BY <1>3, <1>6 DEF Residue, Share
    <2>3. ASSUME NEW a \in T
          PROVE  \E i \in S : order[i] = a
      <3>1. a \in A /\ ring[RingIndex(number[a], r)] = ring[x]
        BY <1>9 DEF Share
      <3>2. number[a] \in 1..n /\ order[number[a]] = a
        BY <1>5, <3>1
      <3>3. RingIndex(number[a], r) = x
        BY <1>4, <1>8, <3>1, <3>2
      <3> QED
        BY <3>2, <3>3 DEF Residue
    <2> HIDE DEF S, T
    <2>4. f \in Injection(S, T)
      BY <1>3, <2>1, <2>2 DEF Injection, IsInjective
    <2>5. f \in Surjection(S, T)
      BY <2>2, <2>3 DEF Surjection
    <2>6. ExistsBijection(S, T)
      BY <2>4, <2>5 DEF ExistsBijection, Bijection
    <2> QED
      BY <2>1, <2>6, FS_Bijection DEF S, T
  <1> HIDE DEF plan
  <1>14. Even(plan, gr)
    <2> SUFFICES ASSUME NEW v \in gr, NEW w \in gr
                 PROVE  Cardinality(Share(plan, v)) <= Cardinality(Share(plan, w)) + 1
      BY DEF Even
    <2>1. PICK j \in 1..r : ring[j] = v
      BY <1>4
    <2>2. PICK k \in 1..r : ring[k] = w
      BY <1>4
    <2>3. r \in Nat \ {0}
      BY <1>4, <2>1
    <2>4. Cardinality(Residue(n, r, j)) <= Cardinality(Residue(n, r, k)) + 1
      BY <1>3, <2>3, ResiduesEven
    <2> QED
      BY <1>13, <2>1, <2>2, <2>4
  <1> QED
    BY <1>9, <1>11, <1>12, <1>14 DEF EvenPlan

(* The update u is following an even plan: its migration and those to come *)
(* are of the plan, and every other agent is where the plan wants it or    *)
(* was refused.                                                            *)
Planned(u) ==
    \E plan \in [Housed(nodes, agents) -> graph] :
       /\ Even(plan, graph) /\ Listed(plan, queue[u])
       /\ move[u].agent \in DOMAIN plan /\ move[u].target = plan[move[u].agent]
       /\ \A a \in DOMAIN plan :
             \/ a \in agents[plan[a]]
             \/ a \in refused
             \/ a = move[u].agent
             \/ \E j \in 1..Len(queue[u]) : queue[u][j].agent = a

PlanInv == \A u \in Updaters : pc[u] = "post" => unvisited[u] = {} /\ Planned(u)

(* Posting the first migration of the list that is needed keeps to the     *)
(* plan: those before it are in place.                                     *)
LEMMA PostPlanned ==
    ASSUME TypeOK, NEW u \in Updaters, NEW q \in Seq(Pending),
           nodes' \subseteq Nodes, graph' \subseteq Nodes,
           NEW plan \in [Housed(nodes', agents') -> graph'],
           Even(plan, graph'), Listed(plan, q),
           \A a \in DOMAIN plan :
              \/ a \in agents'[plan[a]] \/ a \in refused'
              \/ \E j \in 1..Len(q) : q[j].agent = a,
           PostNext(u, q, {}, nodes', agents')
    PROVE  Ended(u) \/ (unvisited'[u] = {} /\ Planned(u)')
  <1>1. PICK i \in Needed(q, nodes', agents') :
           /\ \A j \in Needed(q, nodes', agents') : i <= j
           /\ \E t \in Targets(q[i].target, nodes') :
                \/ /\ \E s \in Homes(q[i].agent, nodes', agents') :
                        move' = [move EXCEPT ![u] =
                                   [agent |-> q[i].agent, source |-> s, target |-> t]]
                   /\ queue' = [queue EXCEPT ![u] = SubSeq(q, i + 1, Len(q))]
                   /\ unvisited' = [unvisited EXCEPT ![u] = {}]
                \/ Abort(u)
    BY DEF PostNext
  <1>2. i \in 1..Len(q) /\ Len(q) \in Nat
    BY DEF Needed
  <1>3. q[i].agent \in DOMAIN plan /\ q[i].target = plan[q[i].agent]
    BY <1>2 DEF Listed
  <1>4. Targets(q[i].target, nodes') = {q[i].target}
    BY <1>3, NullsAssumption DEF Targets
  <1>5. CASE Abort(u)
    BY <1>5 DEF Abort, Release, Ended
  <1>6. CASE ~Abort(u)
    <2>1. PICK s : move' = [move EXCEPT ![u] = [agent |-> q[i].agent, source |-> s, target |-> q[i].target]]
      BY <1>1, <1>4, <1>6
    <2>2. /\ queue' = [queue EXCEPT ![u] = SubSeq(q, i + 1, Len(q))]
          /\ unvisited' = [unvisited EXCEPT ![u] = {}]
      BY <1>1, <1>6
    <2>3. move'[u].agent = q[i].agent /\ move'[u].target = q[i].target
      BY <2>1 DEF TypeOK, Procs
    <2>4. queue'[u] = SubSeq(q, i + 1, Len(q)) /\ unvisited'[u] = {}
      BY <2>2 DEF TypeOK
    <2>5. /\ Len(queue'[u]) = Len(q) - i
          /\ \A j \in 1..(Len(q) - i) : queue'[u][j] = q[i + j]
      BY <1>2, <2>4, SubSeqProperties
    <2>6. Listed(plan, queue'[u])
      <3> SUFFICES ASSUME NEW j \in 1..(Len(q) - i)
                   PROVE  q[i + j].agent \in DOMAIN plan /\ q[i + j].target = plan[q[i + j].agent]
        BY <2>5 DEF Listed
      <3>1. i + j \in 1..Len(q)
        BY <1>2
      <3> QED
        BY <3>1 DEF Listed
    <2>7. ASSUME NEW a \in DOMAIN plan, a \notin agents'[plan[a]], a \notin refused',
                 a # q[i].agent
          PROVE  \E j \in 1..Len(queue'[u]) : queue'[u][j].agent = a
      <3>1. PICK k \in 1..Len(q) : q[k].agent = a
        BY <2>7
      <3>2. k \in Needed(q, nodes', agents')
        BY <2>7, <3>1 DEF Needed, Listed
      <3>3. i < k
        BY <1>1, <1>2, <2>7, <3>1, <3>2
      <3>4. k - i \in 1..(Len(q) - i) /\ i + (k - i) = k
        BY <1>2, <3>1, <3>3
      <3> QED
        BY <2>5, <3>1, <3>4
    <2>8. Planned(u)'
      BY <1>3, <2>3, <2>6, <2>7 DEF Planned
    <2> QED
      BY <2>4, <2>8
  <1> QED
    BY <1>5, <1>6

(* An answer that does not raise puts the agent where the plan wants it or *)
(* records that it was refused, and leaves all others where they are.      *)
LEMMA AnswerPlanned ==
    ASSUME Inv, NEW u \in Updaters, NEW answer, pc[u] = "post",
           nodes' = nodes, graph' = graph,
           agents' = Settle(move[u], answer), refused' = Refused(move[u], answer),
           ~Raises(move[u], answer),
           answer \in {"accepted", "rejected", "error"},
           NEW plan \in [Housed(nodes, agents) -> graph],
           move[u].agent \in DOMAIN plan, move[u].target = plan[move[u].agent]
    PROVE  /\ Housed(nodes', agents') = Housed(nodes, agents)
           /\ \/ move[u].agent \in agents'[plan[move[u].agent]]
              \/ move[u].agent \in refused'
           /\ \A a \in DOMAIN plan : a \in agents[plan[a]] => a \in agents'[plan[a]]
           /\ refused \subseteq refused'
  <1> DEFINE m == move[u]
  <1>1. Placed /\ graph \subseteq Nodes /\ Placed'
    BY SettleStep DEF Inv, GraphInv, TypeOK
  <1>2. CASE answer = "rejected"
    <2>1. agents' = agents /\ refused' = refused \cup {m.agent}
      BY <1>2 DEF Settle, Refused
    <2> QED
      BY <2>1
  <1>3. CASE answer = "accepted"
    <2>1. Leaves(m) /\ m.target \in nodes /\ refused' = refused
      BY <1>3 DEF Raises, Refused
    <2>2. agents' = [[agents EXCEPT ![m.source] = @ \ {m.agent}]
                       EXCEPT ![m.target] = @ \cup {m.agent}]
      BY <1>3, <2>1 DEF Settle
    <2>3. /\ m.source \in nodes /\ m.agent \in agents[m.source]
          /\ m.source \in Nodes /\ m.target \in Nodes
      BY <1>1, <2>1 DEF Leaves, Placed
    <2> HIDE DEF m
    <2>4. m.agent \in agents'[m.target]
      BY <1>1, <2>2, <2>3 DEF Placed
    <2>5. \A n \in Nodes : \A a : a # m.agent => (a \in agents'[n] <=> a \in agents[n])
      BY <1>1, <2>2, <2>3 DEF Placed
    <2>6. Housed(nodes', agents') = Housed(nodes, agents)
      BY <1>1, <2>1, <2>3, <2>4, <2>5 DEF Housed, Placed
    <2> QED
      BY <1>1, <2>1, <2>4, <2>5, <2>6 DEF m
  <1> QED
    BY <1>2, <1>3 DEF Raises

(* Every step of an update that does not end it keeps to the plan. *)
LEMMA PlanStep ==
    ASSUME Failovers = {}, Strategies \subseteq {"round_robin"},
           Inv, PlanInv, [Next]_vars
    PROVE  PlanInv'
  <1>1. Inv' /\ TypeOK /\ Placed
    BY InvStep DEF Inv, GraphInv
  <1>2. ASSUME NEW u \in Updaters, lock \in {u, NoOne},
               \A v \in Updaters : v # u => pc'[v] = pc[v],
               Ended(u) \/ (unvisited'[u] = {} /\ Planned(u)')
        PROVE  PlanInv'
    <2>1. \A v \in Updaters : v # u => pc'[v] # "post"
      BY <1>2, ProcsAssumption DEF Inv, InFlight
    <2>2. Ended(u) => pc'[u] # "post"
      BY <1>1 DEF Ended, TypeOK, Procs
    <2> QED
      BY <1>2, <2>1, <2>2 DEF PlanInv
  <1>3. ASSUME NEW u \in Updaters,
               \/ \E update \in Updates : Update(u, update) \/ UpdateUnknownNode(u, update)
               \/ UpdateAnswer(u) \/ CancelUpdate(u)
        PROVE  lock \in {u, NoOne} /\ \A v \in Updaters : v # u => pc'[v] = pc[v]
    <2>1. Ended(u) \/ Posted(u, nodes')
      BY <1>3, UpdaterOutcome
    <2>2. lock \in {u, NoOne}
      BY <1>3 DEF Update, UpdateUnknownNode, Unlocked, UpdateAnswer, CancelUpdate, Inv, InFlight
    <2>3. \A v \in Updaters : v # u => pc'[v] = pc[v]
      BY <1>1, <2>1 DEF Ended, Posted, TypeOK, Procs
    <2> QED
      BY <2>2, <2>3
  <1>4. ASSUME NEW u \in Updaters, NEW update \in Updates, Update(u, update)
        PROVE  PlanInv'
    <2>1. BeginRebalance(u, nodes', agents', graph') /\ strategy = "round_robin"
      BY <1>1, <1>4 DEF Update, TypeOK
    <2>2. PICK q \in RoundRobin(nodes', agents', graph') : Rebalance(u, q, {}, nodes', agents')
      BY <2>1 DEF BeginRebalance
    <2>3. /\ nodes' \in SUBSET Nodes /\ agents' \in [Nodes -> SUBSET Agents]
          /\ graph' \in SUBSET Nodes /\ nodes' \subseteq graph'
          /\ \A n \in Nodes : agents'[n] # {} => n \in nodes'
      BY <1>1 DEF Inv, GraphInv, Placed, TypeOK
    <2>4. q \in Seq(Pending)
      BY <2>3, RoundRobinType
    <2>5. PICK plan \in [Housed(nodes', agents') -> graph'] :
             /\ Even(plan, graph') /\ Listed(plan, q)
             /\ \A a \in DOMAIN plan : \E j \in 1..Len(q) : q[j].agent = a
      <3>1. EvenPlan(q, nodes', agents', graph')
        BY <2>2, <2>3, RoundRobinPlan
      <3> QED
        BY <3>1 DEF EvenPlan
    <2>6. PostNext(u, q, {}, nodes', agents') \/ Finish(u, nodes', agents')
      BY <2>2 DEF Rebalance
    <2>7. Ended(u) \/ (unvisited'[u] = {} /\ Planned(u)')
      <3>1. CASE Finish(u, nodes', agents')
        BY <3>1 DEF Finish, Release, Ended
      <3>2. CASE PostNext(u, q, {}, nodes', agents')
        BY <1>1, <2>3, <2>4, <2>5, <3>2, PostPlanned
      <3> QED
        BY <2>6, <3>1, <3>2
    <2> QED
      BY <1>2, <1>3, <1>4, <2>7
  <1>5. ASSUME NEW u \in Updaters, NEW update \in Updates, UpdateUnknownNode(u, update)
        PROVE  PlanInv'
    <2>1. Ended(u)
      BY <1>5 DEF UpdateUnknownNode, Abort, Release, Ended
    <2> QED
      BY <1>2, <1>3, <1>5, <2>1
  <1>6. ASSUME NEW u \in Updaters, CancelUpdate(u)
        PROVE  PlanInv'
    <2>1. Ended(u)
      BY <1>6 DEF CancelUpdate, Abort, Release, Ended
    <2> QED
      BY <1>2, <1>3, <1>6, <2>1
  <1>7. ASSUME NEW u \in Updaters, UpdateAnswer(u)
        PROVE  PlanInv'
    <2>1. PICK answer \in Answers :
             /\ agents' = Settle(move[u], answer)
             /\ refused' = Refused(move[u], answer)
             /\ IF Raises(move[u], answer) THEN Abort(u)
                ELSE Rebalance(u, queue[u], unvisited[u], nodes, agents')
      BY <1>7 DEF UpdateAnswer
    <2>2. nodes' = nodes /\ graph' = graph /\ pc[u] = "post"
      BY <1>7 DEF UpdateAnswer
    <2>3. CASE Raises(move[u], answer)
      <3>1. Ended(u)
        BY <2>1, <2>3 DEF Abort, Release, Ended
      <3> QED
        BY <1>2, <1>3, <1>7, <3>1
    <2>4. CASE ~Raises(move[u], answer)
      <3>1. unvisited[u] = {} /\ Planned(u)
        BY <2>2 DEF PlanInv
      <3>2. PICK plan \in [Housed(nodes, agents) -> graph] :
               /\ Even(plan, graph) /\ Listed(plan, queue[u])
               /\ move[u].agent \in DOMAIN plan /\ move[u].target = plan[move[u].agent]
               /\ \A a \in DOMAIN plan :
                     \/ a \in agents[plan[a]]
                     \/ a \in refused
                     \/ a = move[u].agent
                     \/ \E j \in 1..Len(queue[u]) : queue[u][j].agent = a
        BY <3>1 DEF Planned
      <3>3. answer \in {"accepted", "rejected", "error"}
        BY AnswersAssumption
      <3>4. /\ Housed(nodes', agents') = Housed(nodes, agents)
            /\ \/ move[u].agent \in agents'[plan[move[u].agent]]
               \/ move[u].agent \in refused'
            /\ \A a \in DOMAIN plan : a \in agents[plan[a]] => a \in agents'[plan[a]]
            /\ refused \subseteq refused'
        BY <2>1, <2>2, <2>4, <3>2, <3>3, AnswerPlanned
      <3>5. \A a \in DOMAIN plan :
               \/ a \in agents'[plan[a]] \/ a \in refused'
               \/ \E j \in 1..Len(queue[u]) : queue[u][j].agent = a
        BY <3>2, <3>4
      <3>6. PostNext(u, queue[u], {}, nodes', agents') \/ Finish(u, nodes', agents')
        BY <2>1, <2>2, <2>4, <3>1 DEF Rebalance
      <3>7. Ended(u) \/ (unvisited'[u] = {} /\ Planned(u)')
        <4>1. CASE Finish(u, nodes', agents')
          BY <4>1 DEF Finish, Release, Ended
        <4>2. CASE PostNext(u, queue[u], {}, nodes', agents')
          <5>1. queue[u] \in Seq(Pending) /\ nodes' \subseteq Nodes /\ graph' \subseteq Nodes
            BY <1>1, <2>2 DEF TypeOK
          <5>2. plan \in [Housed(nodes', agents') -> graph'] /\ Even(plan, graph')
            BY <2>2, <3>2, <3>4
          <5> QED
            BY <1>1, <3>2, <3>5, <4>2, <5>1, <5>2, PostPlanned
        <4> QED
          BY <3>6, <4>1, <4>2
      <3> QED
        BY <1>2, <1>3, <1>7, <3>7
    <2> QED
      BY <2>3, <2>4
  <1>8. CASE UNCHANGED vars
    <2>1. /\ nodes' = nodes /\ agents' = agents /\ graph' = graph /\ queue' = queue
          /\ move' = move /\ pc' = pc /\ unvisited' = unvisited /\ refused' = refused
      BY <1>8 DEF vars
    <2> QED
      BY <2>1 DEF PlanInv, Planned
  <1> QED
    BY <1>4, <1>5, <1>6, <1>7, <1>8 DEF Next

(* When a round-robin update ends after its last answer, some even plan    *)
(* has every agent where it is but for those whose migration was refused,  *)
(* for any nodes, agents, updates, answers and orders of iteration, as     *)
(* long as no failover runs (topology_manager.py: _round_robin_balance and *)
(* _migrate_agent, "Distribute agents evenly across available nodes").     *)
THEOREM RoundRobinSpreads ==
    ASSUME Failovers = {}, Strategies \subseteq {"round_robin"}
    PROVE  Spec => RoundRobinEven
  <1> DEFINE Spreads ==
        \A u \in Updaters :
           /\ lock = u /\ lock' = NoOne
           /\ agents' # agents \/ refused' # refused
           /\ Needed(queue[u], nodes, agents') = {}
           => \E plan \in [Housed(nodes, agents') -> graph] :
                 /\ Even(plan, graph)
                 /\ \A a \in DOMAIN plan \ refused' : a \in agents'[plan[a]]
  <1>1. Init => PlanInv
    BY DEF Init, PlanInv, Procs
  <1>2. ASSUME Inv, PlanInv, [Next]_vars PROVE [Spreads]_vars
    <2> SUFFICES ASSUME Next, NEW u \in Updaters, lock = u,
                        agents' # agents \/ refused' # refused,
                        Needed(queue[u], nodes, agents') = {}
                 PROVE  \E plan \in [Housed(nodes, agents') -> graph] :
                           /\ Even(plan, graph)
                           /\ \A a \in DOMAIN plan \ refused' : a \in agents'[plan[a]]
      BY <1>2
    <2>1. UpdateAnswer(u)
      <3>1. PICK v \in Updaters :
               \/ \E update \in Updates : Update(v, update) \/ UpdateUnknownNode(v, update)
               \/ UpdateAnswer(v) \/ CancelUpdate(v)
        BY DEF Next
      <3>2. lock # NoOne
        BY ProcsAssumption
      <3>3. UpdateAnswer(v)
        BY <3>1, <3>2 DEF Update, UpdateUnknownNode, Unlocked, CancelUpdate
      <3>4. v = u
        BY <1>2, <3>3 DEF UpdateAnswer, Inv, InFlight
      <3> QED
        BY <3>3, <3>4
    <2>2. PICK answer \in Answers :
             agents' = Settle(move[u], answer) /\ refused' = Refused(move[u], answer)
      BY <2>1 DEF UpdateAnswer
    <2>3. nodes' = nodes /\ graph' = graph /\ pc[u] = "post"
      BY <2>1 DEF UpdateAnswer
    <2>4. answer \in {"accepted", "rejected", "error"}
      BY AnswersAssumption
    <2>5. ~Raises(move[u], answer)
      BY <1>2, <2>2, <2>3 DEF Raises, Settle, Refused, Inv, InFlight
    <2>6. PICK plan \in [Housed(nodes, agents) -> graph] :
             /\ Even(plan, graph) /\ Listed(plan, queue[u])
             /\ move[u].agent \in DOMAIN plan /\ move[u].target = plan[move[u].agent]
             /\ \A a \in DOMAIN plan :
                   \/ a \in agents[plan[a]]
                   \/ a \in refused
                   \/ a = move[u].agent
                   \/ \E j \in 1..Len(queue[u]) : queue[u][j].agent = a
      BY <1>2, <2>3 DEF PlanInv, Planned
    <2>7. /\ Housed(nodes', agents') = Housed(nodes, agents)
          /\ \/ move[u].agent \in agents'[plan[move[u].agent]]
             \/ move[u].agent \in refused'
          /\ \A a \in DOMAIN plan : a \in agents[plan[a]] => a \in agents'[plan[a]]
          /\ refused \subseteq refused'
      BY <1>2, <2>2, <2>3, <2>4, <2>5, <2>6, AnswerPlanned
    <2>8. \A a \in DOMAIN plan \ refused' : a \in agents'[plan[a]]
      <3> SUFFICES ASSUME NEW a \in DOMAIN plan, NEW j \in 1..Len(queue[u]), queue[u][j].agent = a
                   PROVE  a \in agents'[plan[a]]
        BY <2>6, <2>7
      <3>1. j \in DOMAIN queue[u]
        BY <1>2 DEF Inv, TypeOK
      <3>2. queue[u][j].agent \in agents'[queue[u][j].target]
        BY <3>1 DEF Needed
      <3> QED
        BY <2>6, <3>2 DEF Listed
    <2>9. plan \in [Housed(nodes, agents') -> graph]
      BY <2>3, <2>7
    <2> QED
      BY <2>6, <2>8, <2>9
  <1> QED
    BY <1>1, <1>2, InvInit, InvStep, PlanStep, PTL DEF Spec, RoundRobinEven

=============================================================================
