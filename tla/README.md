# A TLA+ model of KUVA-AI

KUVA-AI is a Python framework for fleets of agents: a library of agent base
classes and a registry, an orchestration layer that places agents on nodes,
messaging clients, security and observability services, and cloud provisioning.
Most of it is `asyncio` code around network calls; a few parts use threads. The
repository has no test suite beyond a few small in-file test classes, so the docstrings and
comments are the only statement of intent, and the interesting question is how
the code behaves when coroutines interleave, calls fail half way, nodes
disappear and tasks are cancelled.

## How the code is read

* The code under `src/` is the reference. Packages it imports and does not contain
  (`kuva.*`, `grpc`, `aiohttp`, `networkx`, `kmip`, ...) are external: they are
  modelled by how `src/` uses them. Faults of the import itself, such as a missing
  import or a mutable default in a dataclass, are taken as repaired; a name or an
  attribute that is undefined inside a handler raises there.
* Calls that fail by their form raise where they are made: the standard logger
  refuses keyword arguments, so in `deploy.py`, `monitor.py`, `producer.py` and
  `consumer_group.py` a logging call may raise. It does so only if its level is
  enabled, which is a choice of the model wherever it matters.
* `LifecyclePhase` lacks the members "transition_to_..." that `_set_state()` looks
  up, so every operation of the lifecycle manager raises there, before it changes
  the state, and `Lifecycle` models that manager. redis-py refuses the list that
  `query()` of the triple store gives it, so its cache stays empty. The schema of
  the triple store is taken to exist in the database.
* A coroutine suspends only at an `await` that really waits. An action of a
  model is everything a coroutine does between two such points. In threaded code
  (the registry) an action is everything done while a lock is held, or a step of
  such a section when it is long.
* Identities (agents, nodes, channels, classes) are model values; loads, latencies
  and answers of servers are nondeterministic choices.

## Inventory

| part | state | operations | what is hard |
|---|---|---|---|
| `core/agent/base.py` | lifecycle state, heartbeat task | start, stop, `async with` | overlapping start/stop, a heartbeat that died, cancellation |
| `core/agent/registry.py` | classes by type, reverse dependencies, initialized flag | register, unregister, initialize (built-ins, plugins, validation) | stale graph after overrides, failure half way, cycle search |
| `core/orchestration/scheduler/graph_based/topology_manager.py` | graph, node states, agents per node, lock, circuit breakers | update_topology, handle_node_failure, stop | failovers run without the lock, answers arrive after nodes were removed |
| `communication/grpc/client_pool.py` | deques of channels, semaphore, health task | acquire, release, prune, warm, exit | releases during a health check, permits held while endpoints are down |
| `security/crypto/kmip_client.py` | queue of connections | init, close, five operations | nested acquisition, lost connections, cancellation |
| `core/agent/lifecycle.py` | agent state, lock, restart count | initialize, start, stop, pause, resume, restart | every operation raises; a limit checked before and counted after a suspension |
| `core/agent/factory.py`, `core/orchestration/rest.py` | caches | create | every creation raises |
| `communication/event_stream/kafka/producer.py` | producer, transaction flag | connect, send, commit, close | coroutines share one transaction and are cancelled while it ends |
| `communication/event_stream/kafka/consumer_group.py` | assignment, offsets, loop | consume, retry, rebalance, commit, close | commits overtake each other, cancelled and repeated loops, restarts |
| `communication/event_stream/nats/publisher.py` | transactions by id, pool of producers | begin, commit, abort, publish, close | a commit that raises leaves its producer in the transaction |
| `communication/event_stream/nats/subscriber.py` | assignment, processing tasks | run, rebalance, recover, close | a loop that never yields, tasks that run after close() |
| `communication/grpc/server.py` | server, signal handlers, calls | start, signals, graceful stop | repeated and early signals |
| `core/orchestration/workflow/validator.py` | module graph, cache, report | validate, pipelines, Tarjan's search | a graph and a cache that outlive a validation |
| `core/orchestration/workflow/optimizer`, `parser.py` | search state, checkpoints | optimize, resume | checkpoints written half way |
| `core/knowledge` | triples, counters | insert, bulk insert, delete, query | a batch that fails after others, concurrent writers |
| `security/audit` | bounded queue, worker thread, socket | emit, flush, close | a lock taken twice by the worker |
| `observability/metrics` | buffer and lock; values and time stamps | submit, flush; update, collect | MTU, a lock taken twice, expiry that raises half way |
| `security/crypto/vault.py`, `tdf.py` | token, session, secret cache | read, write, log in | read/write races on the cache |
| `infrastructure/kubernetes/operator.py` | leader, semaphore, circuit breaker | elect, reconcile, trigger | retries inside the semaphore |
| `infrastructure/cloud` | jobs, operations, sessions | launch, monitor, register | monitors that fail half way, shared ids |
| `core/cli/commands/deploy.py` | task group, semaphore, lock, processes | deploy, roll back | commands that time out or are cancelled |
| `core/cli/commands/monitor.py` | buffer, current window | ingest, process, report | windows processed again after failures |

The components interact through calls: the REST gateway creates agents through
the factory, which uses the registry and the lifecycle manager; the topology
manager moves agents over HTTP and scales pods through the Kubernetes API; agents
publish heartbeats on the event stream; everything reads secrets through the
Vault and KMIP clients. Components share no memory except the registry singleton,
which is why the MC modules below run several of them side by side.

`PROJECT.json` lists every component, modelled or not, every definition with the
lines it models, and the hazards the properties are aimed at.

## Modules

| module | models |
|---|---|
| `AgentBase` | start(), stop() and the heartbeat task of one agent, any number of callers |
| `AgentBaseProofs` | theorems about it |
| `DependencyGraph` | reference definitions: a set every member of which has a successor in it (Cyclic), HasCycle, Reachable |
| `CircularDependencies` | the depth-first search of the registry as a state machine |
| `CircularDependenciesProofs` | its inductive invariant, and that the search is complete |
| `AgentRegistry` | extends `CircularDependencies` with register(), unregister() and initialize() |
| `AgentRegistryProofs` | theorems about the registry and its search |
| `Topology` | update_topology(), its four strategies, autoscaling, failovers |
| `TopologyProofs` | theorems about it |
| `ClientPool` | the gRPC client pool and its health-check task |
| `KmipPool` | the KMIP connection pool and the operations that use it |
| `KafkaProducer` | coroutines that share a producer and its transaction |
| `ConsumerLog` | abstract specification: what a consumer group promises about a partition |
| `KafkaConsumer` | the consumption loop, rebalancing, asynchronous commits, cancellation, crashes; implements `ConsumerLog` |
| `Subscriber` | the subscriber, its tasks and its recovery |
| `PublisherPool` | transactions on a pool of producers |
| `GrpcServer` | start, signals and graceful stop of the server |
| `SyslogHandler` | the queue, the worker thread and close() |
| `StatsD` | the buffer, its chunks and the connection lock |
| `Operator` | leader election, reconciliation loop, retries, circuit breaker |
| `StreamMonitor` | ingestion and windows of the real-time monitor |
| `DynamicMetrics` | Prometheus values and their expiry |
| `Lifecycle` | the lifecycle manager's lock and its limit on restarts |
| `Tarjan` | the search for strongly connected components |
| `CycleValidator` | pipelines over the module validator, its graph and its cache |
| `Annealing` | simulated annealing with checkpoints |
| `CloudManagers` | SageMaker jobs, AKS operations, Synapse sessions |
| `Vault` | requests with retries and the secret cache |
| `Deployment` | the task group that deploys a stack |
| `RdfStore` | transactions and batches of the triple store |
| `PoolsProofs`, `StreamsProofs`, `ServicesProofs`, `ControlProofs` | theorems about the pools; the clients of the event stream and the gRPC server; the services and the triple store; the control plane |
| `MCAgentRegistry`, `MCTopology`, `MCPools`, `MCStreams`, `MCServices`, `MCControl` | instances for TLC |

### AgentBase

`state` is `_state`; `tasks` are the asyncio tasks that run `_heartbeat()`, and
`heartbeat_task` the one `_heartbeat_task` names. `paired` says how the agent is used:
through `async with`, where one caller at a time starts and stops it, or by free
calls of start() and stop(). start() suspends while it waits for dependencies;
stop() suspends while it waits for the cancelled task and for
`unsubscribe_all()`. Every external call may raise.

### AgentRegistry and CircularDependencies

The registry's writers hold an RLock, so register() and unregister() are single
actions. initialize() holds the lock throughout and is a sequence of steps: one
registration, one plugin, one step of the search. Only the search's recursion is
rewritten: the stack of types is the stack of calls of `dfs()`, and `rest` holds
what each call has still to iterate, in any order. A class record says which
types it depends on, whether its `dependencies()` raises, and whether it passes
the checks of register(). A registration of a plugin's decorator says whether it
overrides; the execution of a plugin may end after any of them, and the built-in
module may be missing. `CircularDependencies` has no specification of its own:
its actions are steps of `initialize()`.

### Topology

`agents[n]` is `node_states[n].agents`. An updater holds the lock from the update
to the end of rebalancing and scaling; a failover never takes it. Both suspend
during the POST of a migration, with source and target already chosen. `Settle`
is what the answer does to the bookkeeping, `Raises` whether it ends in an
exception; a rejected migration (any status but 202) leaves its agent where it is
and is remembered in `refused`. A node's pod has its number, as in `_scale_up()`. The circuit breaker is external; an open one makes
handle_node_failure() do nothing, which is a stuttering step.

### ClientPool and KmipPool

acquire() and release() never suspend while they hold the semaphore; the warming
of a pool does, during the health check of each new channel. `Pushed` is append()
on a deque of limited length, which drops the leftmost element when full. A
failed health check never raises; making the stub of a channel may. In `KmipPool` all operations have the same
shape and differ only in whether `_add_metadata()` takes a second connection; close() may raise between two
connections and be called again.
The pools share no state, and `MCPools` explores the behaviours of either one.

### KafkaProducer and PublisherPool

In `KafkaProducer` `active` is `_transaction_active` and `txn` what the library has:
no transaction, an open one, or one whose end was asked for. The end goes on whether
its caller waits or has been cancelled; a coroutine is at "ended" when the broker has
ended the transaction and the coroutine is about to reset the flag. The history
variable `unreset` says that a caller left without doing so. With ERROR enabled the
logging call of a failed attempt raises before the retry and before the abort
(`logs_errors`). In `PublisherPool` no operation suspends: the locks of the file are
never held across an `await` that waits. `messages` remembers for which transaction
each message was published, and a commit that raises leaves the producer in its
transaction while the id is forgotten.

### ConsumerLog, KafkaConsumer and Subscriber

`ConsumerLog` is what a consumer group promises: the committed offset moves,
forwards or back, only to a place before which everything was handled.
`KafkaConsumer` maps `committed` by name and `handled` to `Settled`. A message is
handled when the loop is done with it, which includes giving it up after its retries,
the choice the code makes. Used as in `main()`, one loop inside `async with`
(`config.scoped`), nothing else is settled. Used freely, a loop that raised or was
cancelled may be run again on the same consumer, whose position is past the message
the loop had in hand: such messages are `dropped`, and the refinement says that the
offset passes no other. That commits may pass a dropped message is what the code does.
`Subscriber` is a different case: run() polls synchronously and never yields to the
event loop, so no processing task runs before run() has raised and the consumer is
closed, and all commits fail.

### GrpcServer

A signal kills the process before the handlers are installed and is handled after
that; every handled signal is a `_shutdown()` task of its own. stop(5) refuses new
calls and aborts active ones at the end of the grace period; whether a call is
ever answered is up to its servicer.

### SyslogHandler, StatsD, Operator, StreamMonitor, DynamicMetrics

The syslog worker is a thread with its position in `_process_queue()`; a failed
connection leaves it "deadlocked", for ever, on the lock it holds. A StatsD metric
is its number of bytes, and `datagrams` is what the last flush handed to sendto();
`Packed` is the state of the loop of `_flush()` after each metric, a recursive function.
The operator has one call of reconcile() per resource from the loop and one from
the API, inside one semaphore. `StreamMonitor` counts time in correlation
intervals and leaves open which points are anomalies; an alert raises if warnings are
enabled. `DynamicMetrics` keeps, for a value, the time at which it was stored, so that
it can be compared with the stamp that decides its expiry. A name or a label value is
the sequence of its words between colons and `CacheKey` joins them, so that two sets
of labels may have one key, as in the code.

### Lifecycle, Tarjan, CycleValidator, Annealing

In `Lifecycle` initialize() raises in `_set_state()`, the other operations are refused
in the state CREATED that is never left, and restart() counts the stop() that raised;
nothing behind these points is reached in this revision. What remains are the lock,
the limit that is checked before it, and cancellation. `Tarjan` keeps the recursive calls in `frames`,
with successors in any order, and is compared with the reference definitions of
`DependencyGraph`. `CycleValidator` keeps what survives a pipeline: the cache, the
graph and the report. In `Annealing` a solution is its energy and the temperature
is the number of coolings left; every candidate is accepted, as in the code.

### CloudManagers, Vault, Deployment, RdfStore

`CloudManagers` relates what the managers remember to the state in the cloud. The
sessions of Synapse and its polling are there for completeness; no property depends on
them. `Vault` follows one secret in versions; `window` is set when a write takes effect
and cleared where the code clears the cache, unless an older answer is in flight.
Every command of `Deployment` is an external process that ends, times out or
outlives the task that was cancelled; `leftover` are the processes nobody waits
for. There is one deployment per behaviour, so what a failed deployment leaves behind
never meets a later one, and a component has one hook and one condition of each kind
where the code loops over lists. The secret of `Vault` changes only by writes of this
client: a write by another one leaves an old version cached until its ttl, about which
CacheCoherent says nothing. In `RdfStore` every statement is a step, a transaction's
rows are locked until it ends and are seen by others with its commit.

## Runs

| run | instance | shows |
|---|---|---|
| `agent` | 2 callers, 3 tasks | nobody waits for a heartbeat that was not cancelled (JoinsCancelledTask); stop() comes back (StopReturns); under `async with`, at most one heartbeat (OneHeartbeat) and none after TERMINATED (TerminatedQuiesced) |
| `agent_stuck` | 1 caller, 2 tasks, under `async with` | violation: after the heartbeat died of a publish error, stop() raises and the agent stays STOPPING for ever (StoppingTerminates) |
| `registry` | 3 types, classes with up to two dependencies, broken and invalid classes, built-ins or none, 2 plugins | dependents tracked, required types stay registered, every cycle passes through a registered type, the search is complete and sound, a registry becomes initialized only while acyclic, initialize() returns |
| `registry_stale` | the same | violation: unregister() refuses because of dependents that are gone |
| `topology` | 2 nodes, 2 agents, 1 updater, 1 failover, all strategies, autoscaling | one home per agent (OneHome), node states inside the graph (StatesInGraph), the lock is always released (LockReleased) |
| `topology_updates` | 3 nodes, 3 agents, 2 updaters, no failover, round robin, migrations accepted, rejected or failing | an update that ends has put every agent that was not rejected where its plan, an even one, wants it (RoundRobinEven); none is lost (MigrationKeepsAgents) |
| `topology_lost_agent` | 2 nodes, 1 agent, 1 updater, 1 failover | violation: a migration answered after its target was removed loses the agent |
| `pools` | gRPC: 2 clients, 1 endpoint, 2 connections of which 1 may be idle, 2 attempts, all strategies; KMIP: 2 callers, 2 connections | one owner per channel and per connection (OneOwner, KmipConserved), none dropped (NoneDropped), permits accounted for (PermitsAccounted), acquire() of the gRPC pool returns (ClientsServed) |
| `kmip_deadlock` | 2 callers, 2 connections | violation: acquire() waits for ever (AcquireReturns) |
| `streams` | producer: 3 coroutines, 2 attempts; consumer and subscriber: 3 messages; publisher: 3 producers, 2 transactions; server: 2 calls, 3 signals | the transaction flag is stale only after an interrupted end (StaleOnlyIfInterrupted), send() and commit return (SendReturns), the consumer group implements `ConsumerLog` (AtLeastOnce), no message enters a foreign transaction (OwnTransaction), with manual commits the subscriber commits nothing (NothingCommitted), a handled signal ends the server (SignalEndsServer) |
| `services` | syslog: queue of 2, 2 attempts, 4 messages; StatsD: MTU 5, metrics of 1 to 6 bytes, buffer of 3; operator: 2 resources, 1 at a time, 3 attempts; monitor: 3 points, 4 windows; metrics: gauges and a histogram, label sets with one key; triple store: 2 writers, 3 triples, batches of 2 | close() returns unless the worker deadlocked (CloseReturns), chunks are within the MTU and no smaller than they need be (DatagramsFit), a round of the operator ends (RoundEnds), windows are reported once and in order (WindowsInOrder), values keep a stamp that is not older than they are (ValuesStamped), a bulk insertion becomes visible whole (BulkAtomic) |
| `control` | lifecycle: 3 coroutines, limit 2; Tarjan: all graphs of 4 nodes; validator: all imports among 2 packages and a submodule, 4 targets; annealing: 3 energies, 6 iterations, 2 runs; cloud: 2 jobs, 1 cluster, 1 node pool, 1 run; Vault: 3 callers, 3 versions; deployment: 2 charts | restarts exceed the limit by less than the number of coroutines (RestartsBounded), components are exact (SccsExact), cycles are reported (CyclesReported), the result is the least energy (BestIsLeast), cloud work is forgotten only when over (WorkAccounted), the secret cache is stale only in a write's window (CacheCoherent), a deployment past its group is whole (DeployedWhole) |

The type invariants of `AgentBase`, `AgentRegistry` and `Topology` are proved and
are not part of a run.

Bounds. Two callers are enough for every overlap of start() and stop(): the code
keeps no state per caller. Three types give chains, self-loops, two- and
three-cycles and cycles off the path from the root. Two nodes let a migration's
source or target disappear or be the failed node itself; three agents on three
nodes make uneven placements. Two updaters show that the lock excludes them. For
the gRPC pool one endpoint suffices, because endpoints share only the semaphore
and the load balancer's index; max_idle_conn is max_conn_per_endpoint - 1, the
edge of the condition under which NoneDropped holds. `EvictBatch` is 1 instead of
5 so that an eviction can leave agents behind. Three coroutines on the producer
let one begin, one commit and one abort at the same time; three messages let a
commit overtake another with one message between them. A pool of three producers
is the smallest in which the publisher's arithmetic reaches two of them. Four
nodes give two nested or two separate components; self-loops are left out
(`Loops` = FALSE) because the answer leaves out single nodes. The sizes of metrics
fill the MTU exactly, miss it by the newline and exceed it alone. Three callers of
Vault are a reader, a writer and a second reader in between. `MinPoints` is 2
instead of 10, with a buffer of 3, so that points leave the buffer and anomalies
come and go. Deadlock is checked in the runs of the agent, the registry and the
topology. In `pools`, `streams`, `services` and `control` a behaviour is one of a
single part, which may simply be over: a failed `__aenter__`, a closed client, a
finished search or deployment; in `kmip_deadlock` the pool does stop.

Fairness. The steps of a coroutine that is not waiting for another one are
weakly fair, because the event loop runs every ready coroutine and the calls it
waits for have timeouts; in `initialize()` a thread keeps running. Nobody is
obliged to call an operation, to cancel, or to fail. Waiting for the operator's
semaphore is strongly fair: `asyncio.Semaphore` wakes those that wait in turn. Only
the violation run `kmip_deadlock` lets callers wait for a KMIP connection with strong
fairness. That is more than `asyncio.Queue` promises, and acquire() is stuck in spite
of it. The syslog worker and the thread that joins it are scheduled, and connecting and sending have timeouts. In the gRPC
server only the shutdown tasks and the end of the grace period are fair; calls of
clients need never be answered. `MCServices` asks for fairness only of the part
that a behaviour uses.

## What the violation runs say

* `agent_stuck`: `stop()` (base.py:205) catches only `CancelledError`.
* `registry_stale`: nothing ever leaves `_reverse_dependencies` (registry.py:162),
  so "required by" in the error of unregister() may name classes that are gone.
* `topology_lost_agent`: `_migrate_agent()` removes before it adds
  (topology_manager.py:138-139) and failovers do not hold the lock.
* `kmip_deadlock`: `_add_metadata()` waits for a second connection (kmip_client.py:250);
  a pool that lost its connections blocks in the same way.

Observations made while modelling, without a run:

* Agent: one failed publish() ends reporting silently while the agent stays RUNNING.
  A second start() overwrites the only reference to the first heartbeat (base.py:194),
  which goes on after stop() has brought the agent to TERMINATED ("Cancel background
  tasks", base.py:202).
* Topology: `latency_aware`, the default strategy, calls a method that does not
  exist, so every update raises after it was applied; a link to an undiscovered
  node makes round robin raise; a failover retries for ever an agent that is on no
  node any more, and may choose the failed node as the target.
  A new pod is named after the number of nodes plus one (topology_manager.py:184),
  which after a scale-down may be the name of a pod that exists, so no node is added.
* Pools: with max_conn_per_endpoint = 1 a gRPC health check of endpoints that are down holds every permit.
* Kafka producer: an end of a transaction that is cancelled or raises while it waits
  for the broker leaves `_transaction_active` set for good (producer.py:164, 172), and
  send() never begins another; after two overlapping begins a late reset can leave the broker in
  a transaction with the flag unset; close() with an active transaction raises.
  Consumer: a message that goes to the dead letters raises NameError and ends the
  loop; offsets of retried messages are not recorded; a loop that is run again on the
  same consumer commits past the message the first one had in hand.
* Publisher: a commit that fails leaves the producer in its transaction;
  `_get_producer()` may divide by zero and reaches only a part of the pool; after a
  close() whose flush fails a message can enter a foreign transaction.
* Subscriber: no message is handled before run() raises; afterwards commits and
  retries raise too; recovery raises or polls for ever without topics.
* gRPC server: SIGTERM before the handlers are installed kills it.
* Syslog: a failed connection is handled under the lock that handling it takes again
  (syslog_handler.py:150, 155), so close(), which joins the worker, never returns.
* Prometheus: the "unique" key joins with ':' (prometheus.py:94-95), so ('a:b', 'c') and
  ('a', 'b:c') share a time stamp; storing under one renews the other.
* StatsD: over TCP and TLS the first flush waits for ever for the lock it holds.
* Vault: without a response the `finally` clause reads an unbound name, and the
  handler for error statuses is never reached.
* Annealing: a truncated checkpoint makes every later run fail; stagnation counts
  the wrong way round.
* Validator: after a cycle every later module fails, because the graph keeps it; a
  cached module still succeeds after a cycle was closed through it; cycles through
  submodules are not seen.
* Cloud: scaling an AKS pool ignores the new count, and only creation is tracked;
  deletion and rotation of certificates raise although they succeeded, since their
  results have no id;
  Synapse sessions only grow. The operator never has a desired state.
* Lifecycle: no operation ever succeeds, so the restart count only grows; it is checked
  before the lock is awaited and increased after it (lifecycle.py:317, 326), so
  coroutines that were checked together restart the agent beyond the limit.
* Triple store: a batch is counted as inserted before its transaction commits
  (rdf_store.py:164) and stays counted after a rollback; a query raises after it read its rows, and would leave stale answers
  if it did not: `_cache_key()` already has the prefix that `_invalidate_cache()` puts
  in front again (rdf_store.py:248).
* Deployment: commands that fail or time out raise instead of returning False,
  processes that timed out are never killed, with INFO enabled every deployment
  fails, a failed pre-hook rolls back the previous release, and cancelled
  components are not rolled back.
* Monitor: with warnings enabled a window with a correlated event is retried until its
  anomalies are others; every window sees the whole buffer.
* Prometheus: nothing ever expires, since removing the value raises first;
  histograms cannot be collected.

## Proofs

All theorems hold for every value of the constants that satisfies the named
assumptions.

* **AgentBase.** `AgentInv` strengthens TypeOK by `PairedInv`, which ties each
  caller's position to the lifecycle state and to the task that `heartbeat_task` names:
  under `async with` every task but that one has ended. OneHeartbeat and
  TerminatedQuiesced follow; alone they are not inductive because they say
  nothing of a stop() that is under way. JoinsCancelledTask needs no pairing.
* **Cycle search.** `SearchInv`: the stack is a path of unfinished calls, an edge
  that was followed leads to a finished node or to the call it made, and finished
  nodes hold no cycle as long as none was reported. A depth-first search that
  reports nothing therefore has no cycle among what it reached (`Complete`), and
  what it reports are closed walks (`Sound`).
* **Registry.** DependentsTracked is inductive with TypeOK and gives
  RequiredStaysRegistered. CyclesAreRooted is inductive because a new cycle must
  pass through the type just registered and a type on a cycle has dependents and
  cannot be unregistered. `Searching` says that a search is about the registry as
  it is, since initialize() holds the lock. `Acyclic` puts the three together:
  initialize() succeeds only if the declared dependencies of the registered
  classes have no cycle.
* **Topology.** `GraphInv` (placement) gives OneHome and StatesInGraph whatever
  interleaves. `InFlight` says that a suspended update holds the lock and that the
  target of its migration still has state; with it and without failovers no agent
  is lost (`UpdatesKeepAgents`), which is exactly what fails in
  `topology_lost_agent`. `RoundRobinSpreads` is RoundRobinEven for round robin without
  failovers, the case the run `topology_updates` checks: `PlanInv` says that a suspended
  update follows an even plan, that its migration and those in its queue are of that plan
  and that all other agents are where the plan wants them or were refused. That the plan is even is `ResiduesEven`: of the places
  of a list, those with one remainder modulo the number of nodes are at most one more
  than those with another.
* **gRPC pool.** `PoolInv` adds to OneOwner and PermitsAccounted where a coroutine
  must be to have a channel (`PoolPlaces`). The theorem needs that a channel that is
  created is nobody's yet. What the health check keeps of a pool is a subsequence of
  it, given as an increasing function of places (`Kept`), which the provers handle and
  a filter over sequences they do not. From PermitsAccounted a permit is always
  free when max_conn_per_endpoint > 1 (`PoolPermitFree`). NoneDropped is proved for
  max_idle_conn < max_conn_per_endpoint (the defaults are 5 and 10) with
  `WarmRoom`: a deque has room while a new channel for it is being checked.
* **KMIP pool.** KmipConserved is not inductive: two callers of `_add_metadata()`
  must have different second connections as well (`SecondAlone`).
* **Event stream.** StaleOnlyIfInterrupted is inductive with the types and with where a
  caller is while the transaction ends. OwnTransaction needs
  that ids with a transaction have different producers, which are in a
  transaction, until close() begins (`Bound`). The consumer group refines
  `ConsumerLog` because everything below a recorded offset, a commit under way, the
  committed offset and the message at hand has been handled or dropped (`ConsumerInv`).
  `StreamsAtLeastOnce` is this refinement for the composition that the run `streams`
  checks. `SubscriberNeverCommits`: with manual commits the subscriber's offset is 0
  for ever (NothingCommitted), although "Commit offset if manual commit enabled"
  (subscriber.py:151).
* **Monitor and metrics.** The number of reports is the window, or one more while the
  consumer has the report. An update replaces the stamps under its key by one of now, so
  a value that shares the key gets a younger stamp and none loses its own; the proof
  never opens `CacheKey`.
* **StatsD.** DatagramsFit is about what a loop over the buffer computes. Both recursive
  functions of the module (`Packed`, the loop, and `Sums`, the bytes of a chunk) are shown
  to exist and to satisfy their equations (`PackedIs`, `SumsIs`), and the loop is followed
  metric by metric, by the induction principle `SetInduction`: a set of naturals with 0
  that is closed under successors is Nat, which is proved with a smallest counterexample
  and takes no operator as a parameter. The loop invariant `PackInv` says that current_size
  counts the current chunk with its newlines and that the metric a chunk begins with had no
  room in the one before. The same induction gives `ChunksLoseNone`: the chunks cut the
  buffer into consecutive pieces, so that no metric is lost, doubled or moved.
* **Operator.** `OperatorInv`: the semaphore is never exceeded (`SemaphoreKept`), a call is
  under way exactly while gather() or the API waits for it (`CallsAwaited`), a call that
  tries or pauses has attempts left (`AttemptsLeft`). `SomeoneProceeds` follows: while a
  round waits, a call holds the semaphore and waits for nobody, or a permit is free for one
  that waits. That is the safety half of RoundEnds; the rest is fairness.
* **Syslog handler.** `SyslogClosed`: close() returns only with the worker done, and a worker
  that is done never connects again, so a closed handler leaves no socket behind.
* **gRPC server.** `ServerDrains`: calls are active only between start and end of the server,
  and none begins once stop() was called.
* **Triple store.** `RdfBulkAtomic`: only Commit adds rows, and what an open insertion has
  inserted is not in the table, nor have two open insertions inserted the same triple
  (`RdfInv`): what a commit adds is exactly what was asked.
* **Vault.** `Answers`: no answer in flight is newer than the secret, and outside a
  write's window none is older.
* **Cloud.** WorkAccounted with the types and the fact that a monitor registers only
  a completed job.
* **Annealing.** The best energy has been seen and is the least seen. That a
  nonempty finite set of integers has a least element is proved from the
  well-foundedness of the naturals, as a smallest counterexample.
* **Validator.** The graph is the imports of everything analysed so far, so that a
  new cycle is in the graph that is searched for it.
* **Tarjan.** SccsExact for every graph and every order. `TarjanInv`: the active calls
  are on the stack in the order of their indices (`Calls`); nothing leads out of the
  components found, and each is the class of its members (`Found`); every edge was
  followed or is to be (`Explored`); an active call reaches what is above it on the
  stack (`Down`), and what is on the stack reaches an active call below it (`Up`); a
  lowlink is the index of a node reached (`LowReached`), and the least that the edges
  followed from its part of the stack lead to (`LowLeast`). Reachability is the least
  set closed under the edges, so the proof needs no induction over paths: a set that
  is closed contains what is reached from it.
* **Lifecycle.** The count and the restarts under way together stay within the bound: a
  restart begins only while the count is below the limit, with at most all the other
  coroutines restarting.
* **Deployment.** `CleanCluster`: as long as no member failed no process was given up
  and every chart past its release is installed; `CancelledByFailure`: cancelled
  members imply a failed one, so the group is left (`PastGroup`) only if all are done.
* `ControlSafe`, `PoolsSafe`, `StreamsSafe` and `ServicesSafe` transfer the invariants of
  the parts to the compositions that the runs `control`, `pools`, `streams` and `services`
  check: a step of a composition is a step of one part and a stutter of the others.

Of the constants the proofs assume what the modules state (ASSUME): counts and bounds
are natural numbers, positive where the code counts to them, energies are a finite set
of integers, the operator's resources are finitely many, and the values that stand for
nothing are no members of the sets.

Only model-checked: the liveness properties (StopReturns, InitializeReturns,
LockReleased, ClientsServed, SendReturns, SignalEndsServer,
CloseReturns, RoundEnds), which are out of the prover's reach: they need fairness and
ENABLED. Every invariant and every action property of a passing run is proved,
NoneDropped, MigrationKeepsAgents and RoundRobinEven under the conditions named above.

## Plan

The modelling is complete as far as the code runs, and every safety property of a
passing run is proved. What is left: results that hold under weaker
conditions than those of the theorems (a gRPC pool whose max_idle_conn is not below
max_conn_per_endpoint), and refinements of abstract
specifications for the pools, of which the invariants are proved.

## Not modelled

* `factory.py`: create() always raises (wrong arity without dependencies, an
  unhashable argument with them). `rest.py`: creation misses the context; the other
  handlers read or answer a constant.
* `workflow/parser.py` (`_detect_circular_imports`), `genetic_algorithm.py`
  (`current_generation`), `eks.py` (`_configure_iam_auth`, in the constructor),
  `policy_enforcer.py` (`_get_cached_policies`, `_resolve_attributes`),
  `zta_engine.py` (`_check_encryption`, `_match_rule`), `diagnose.py` and SageMaker's
  deploy_model() call methods that do not exist before they change any state.
* `auditor.py` raises while it encodes an event; `tdf.py` cannot read what it
  writes; `otel.py` and `xray.py` raise while they are configured; `ontology.py` is
  made of stubs; `main.py` and `reward_calculator.py` raise when imported.
* `oidc_provider.py`, `fluentd.py` and `structured.py` are not valid Python.
* `gnn_model.py` and `policy_network.py` are numerical code without discrete state.
* Protocol definitions, Helm charts, policies, environments and pipelines are data.

Metrics, tracing, formatting and logging are left out everywhere. Of the modelled
files, signal handling, RPC registration, retry_policy and status snapshots in
base.py, the singleton metaclass, the unlocked readers and dependency_validator in
registry.py, routing and snapshots in topology_manager.py are left out: they
change none of the modelled state.
