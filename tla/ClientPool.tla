----------------------------- MODULE ClientPool ----------------------------
(***************************************************************************)
(* ClientPool of communication/grpc/client_pool.py: coroutines acquire and *)
(* release channels while a background task prunes and warms the pool of   *)
(* every endpoint.  A coroutine suspends only while it waits for the       *)
(* semaphore, for the answer to a health check or for a sleep; an action   *)
(* is everything between two such points, so acquire() and release() hold  *)
(* the semaphore only within an action and the health check holds it from  *)
(* one health check to the next.                                           *)
(***************************************************************************)
EXTENDS Integers, FiniteSets, Sequences

CONSTANTS
    Clients,      \* coroutines that use the pool
    Endpoints,    \* number of endpoints
    Channels,     \* ChannelWrapper objects; enough for those alive at a time
    Strategies,   \* GRPC_LB_STRATEGY: "latency_aware" stands for both
                  \* strategies that select nothing
    MaxConn,      \* max_conn_per_endpoint
    MaxIdle,      \* max_idle_conn
    RetryCount,   \* retry_count
    NoChannel, NoEndpoint

Endpoint == 1..Endpoints

ASSUME PoolCountsAssumption ==
    /\ Endpoints \in Nat \ {0} /\ RetryCount \in Nat \ {0}
    /\ MaxConn \in Nat \ {0} /\ MaxIdle \in Nat
ASSUME PoolStrategiesAssumption ==
    Strategies \subseteq {"round_robin", "random", "latency_aware"}
ASSUME PoolNullsAssumption == NoChannel \notin Channels /\ NoEndpoint \notin Nat

VARIABLES
    strategy,   \* _load_balancer
    index,      \* RoundRobinStrategy._index
    pools,      \* _pools: a deque of at most MaxConn channels per endpoint
    health,     \* whether health_status is SERVING; FALSE for a channel
                \* that was closed or does not exist yet
    permits,    \* the value of _semaphore
    task,       \* _health_check_task: absent, running or being cancelled
    checker,    \* where _check_endpoint_health() is for each endpoint
    trial,      \* the channel _warm_pool() is checking
    at,         \* where each client is suspended, or what it holds
    endpoint,   \* the endpoint of a client's channel or attempt
    attempt,    \* the attempts acquire() has begun
    holds       \* the channel a client holds or checks

poolVars == <<strategy, index, pools, health, permits, task, checker, trial, at,
              endpoint, attempt, holds>>

Pooled == UNION {{pools[e][i] : i \in 1..Len(pools[e])} : e \in Endpoint}

InUse == Pooled \cup {holds[c] : c \in Clients} \cup {trial[e] : e \in Endpoint}

PoolTypeOK ==
    /\ strategy \in Strategies
    /\ index \in 0..Endpoints - 1
    /\ pools \in [Endpoint -> Seq(Channels)]
    /\ \A e \in Endpoint : Len(pools[e]) <= MaxConn
    /\ health \in [Channels -> BOOLEAN]
    /\ permits \in 0..MaxConn * Endpoints
    /\ task \in {"off", "on", "cancelled"}
    /\ checker \in [Endpoint -> {"rest", "permit", "checking"}]
    /\ trial \in [Endpoint -> Channels \cup {NoChannel}]
    /\ at \in [Clients -> {"idle", "permit", "checking", "backoff", "lent", "releasing"}]
    /\ endpoint \in [Clients -> Endpoint \cup {NoEndpoint}]
    /\ attempt \in [Clients -> 0..RetryCount]
    /\ holds \in [Clients -> Channels \cup {NoChannel}]

PoolInit ==
    /\ strategy \in Strategies
    /\ index = 0
    /\ pools = [e \in Endpoint |-> <<>>]
    /\ health = [ch \in Channels |-> FALSE]
    /\ permits = MaxConn * Endpoints
    /\ task = "off"
    /\ checker = [e \in Endpoint |-> "rest"]
    /\ trial = [e \in Endpoint |-> NoChannel]
    /\ at = [c \in Clients |-> "idle"]
    /\ endpoint = [c \in Clients |-> NoEndpoint]
    /\ attempt = [c \in Clients |-> 0]
    /\ holds = [c \in Clients |-> NoChannel]

----------------------------------------------------------------------------
(* ChannelWrapper and deque(maxlen=max_conn_per_endpoint) *)

(* A new object is not one that is in use. *)
NewChannel(ch) == ch \notin InUse /\ ch = CHOOSE x \in Channels : x \notin InUse

(* check_health() never raises: a failed call means NOT_SERVING. *)
Checked(ch, serving) == health' = [health EXCEPT ![ch] = serving]

Closed(S) == health' = [ch \in Channels |-> health[ch] /\ ch \notin S]

(* append() to a full deque silently drops its leftmost element. *)
Pushed(q, ch) == Append(IF Len(q) = MaxConn THEN Tail(q) ELSE q, ch)

(* MUTANT of Popped: the channel is looked at and stays pooled. *)
PoppedPeeking(q) == q

(* What acquire() leaves of a pool. *)
Popped(q) == IF q = <<>> THEN q ELSE Tail(q)

(* Whether acquire() can lend the leftmost channel of a pool. *)
Usable(q) == q # <<>> /\ health[Head(q)]

(* MUTANT of Room: the limit of idle channels is off by one. *)
RoomLate(q) == Len(q) <= MaxIdle

(* Whether release() keeps a channel. *)
Room(q) == Len(q) < MaxIdle

----------------------------------------------------------------------------
(* acquire() and release() *)

clientVars == <<at, endpoint, attempt, holds>>

(* MUTANT of NextIndex: the index runs past the last endpoint. *)
NextIndexBeyond == (index + 1) % (Endpoints + 1)

NextIndex == (index + 1) % Endpoints

(* The strategies that are not implemented return None. *)
Select(c) ==
    \/ /\ strategy = "round_robin"
       /\ index' = NextIndex
       /\ endpoint' = [endpoint EXCEPT ![c] = index' + 1]
    \/ /\ strategy = "random"
       /\ \E e \in Endpoint : endpoint' = [endpoint EXCEPT ![c] = e]
       /\ UNCHANGED index
    \/ /\ strategy = "latency_aware"
       /\ endpoint' = [endpoint EXCEPT ![c] = NoEndpoint]
       /\ UNCHANGED index

Attempt(c, n) ==
    /\ at' = [at EXCEPT ![c] = "permit"]
    /\ attempt' = [attempt EXCEPT ![c] = n]
    /\ holds' = [holds EXCEPT ![c] = NoChannel]
    /\ Select(c)

(* The call returns without a channel: acquire() raised or release() ended. *)
Leave(c) ==
    /\ at' = [at EXCEPT ![c] = "idle"]
    /\ endpoint' = [endpoint EXCEPT ![c] = NoEndpoint]
    /\ attempt' = [attempt EXCEPT ![c] = 0]
    /\ holds' = [holds EXCEPT ![c] = NoChannel]
    /\ UNCHANGED index

Lend(c, ch) ==
    /\ at' = [at EXCEPT ![c] = "lent"]
    /\ attempt' = [attempt EXCEPT ![c] = 0]
    /\ holds' = [holds EXCEPT ![c] = ch]
    /\ UNCHANGED endpoint

(* MUTANT of NextAttempt: the loop of acquire() has no bound. *)
NextAttemptForever(c) == Attempt(c, attempt[c])

NextAttempt(c) ==
    IF attempt[c] < RetryCount THEN Attempt(c, attempt[c] + 1) ELSE Leave(c)

AcquireBegin(c) ==
    /\ at[c] = "idle"
    /\ Attempt(c, 1)
    /\ UNCHANGED <<strategy, pools, health, permits, task, checker, trial>>

(* A new channel is created and its health check begins; creating it fails *)
(* if a certificate cannot be read, and acquire() sleeps.                  *)
Create(c) ==
    \/ \E ch \in Channels :
          /\ NewChannel(ch)
          /\ Checked(ch, FALSE)
          /\ at' = [at EXCEPT ![c] = "checking"]
          /\ holds' = [holds EXCEPT ![c] = ch]
    \/ /\ at' = [at EXCEPT ![c] = "backoff"]
       /\ UNCHANGED <<health, holds>>

(* The section under the semaphore and what follows it: the leftmost       *)
(* pooled channel is taken, or closed and replaced by a new one if it is   *)
(* not healthy.  _pools[None] raises, and so does acquire() if service()   *)
(* fails to make a stub: the channel it has taken is then nobody's.        *)
AcquirePermit(c) ==
    /\ at[c] = "permit"
    /\ permits > 0
    /\ \/ /\ endpoint[c] = NoEndpoint
          /\ Leave(c)
          /\ UNCHANGED <<pools, health>>
       \/ /\ endpoint[c] # NoEndpoint
          /\ LET q == pools[endpoint[c]]
             IN  /\ pools' = [pools EXCEPT ![endpoint[c]] = Popped(q)]
                 /\ IF Usable(q)
                    THEN /\ \/ Lend(c, Head(q)) /\ UNCHANGED <<index, health>>
                            \/ Leave(c) /\ Closed({Head(q)})
                    ELSE Create(c) /\ UNCHANGED <<index, endpoint, attempt>>
    /\ UNCHANGED <<strategy, permits, task, checker, trial>>

(* The health check of the new channel is answered; an unhealthy channel   *)
(* is dropped.  An exception of service() is caught like one of creating   *)
(* the channel.                                                            *)
AcquireChecked(c) ==
    /\ at[c] = "checking"
    /\ \/ /\ Checked(holds[c], TRUE)
          /\ Lend(c, holds[c])
          /\ UNCHANGED index
       \/ /\ Checked(holds[c], FALSE)
          /\ NextAttempt(c)
       \/ /\ Checked(holds[c], FALSE)
          /\ at' = [at EXCEPT ![c] = "backoff"]
          /\ holds' = [holds EXCEPT ![c] = NoChannel]
          /\ UNCHANGED <<index, endpoint, attempt>>
    /\ UNCHANGED <<strategy, pools, permits, task, checker, trial>>

AcquireRetry(c) ==
    /\ at[c] = "backoff"
    /\ NextAttempt(c)
    /\ UNCHANGED <<strategy, pools, health, permits, task, checker, trial>>

(* The holder of a channel may check it again. *)
HolderChecks(c) ==
    /\ at[c] = "lent"
    /\ \E serving \in BOOLEAN : Checked(holds[c], serving)
    /\ UNCHANGED <<strategy, index, pools, permits, task, checker, trial>>
    /\ UNCHANGED clientVars

ReleaseBegin(c) ==
    /\ at[c] = "lent"
    /\ at' = [at EXCEPT ![c] = "releasing"]
    /\ UNCHANGED <<strategy, index, pools, health, permits, task, checker, trial,
                   endpoint, attempt, holds>>

(* A channel beyond the limit of idle ones is closed. *)
ReleasePermit(c) ==
    /\ at[c] = "releasing"
    /\ permits > 0
    /\ IF Room(pools[endpoint[c]])
       THEN /\ pools' = [pools EXCEPT ![endpoint[c]] = Pushed(@, holds[c])]
            /\ UNCHANGED health
       ELSE Closed({holds[c]}) /\ UNCHANGED pools
    /\ Leave(c)
    /\ UNCHANGED <<strategy, permits, task, checker, trial>>

----------------------------------------------------------------------------
(* _health_check_loop() *)

Enter ==
    /\ task = "off"
    /\ task' = "on"
    /\ UNCHANGED <<strategy, index, pools, health, permits, checker, trial>>
    /\ UNCHANGED clientVars

(* A round begins when every endpoint was handled and the sleep is over. *)
RoundBegin ==
    /\ task = "on"
    /\ \A e \in Endpoint : checker[e] = "rest"
    /\ checker' = [e \in Endpoint |-> "permit"]
    /\ UNCHANGED <<strategy, index, pools, health, permits, task, trial>>
    /\ UNCHANGED clientVars

(* The loop of _warm_pool() with q in the pool, the statuses hs and free   *)
(* permits but for the one it holds: it checks another channel, or it is   *)
(* done or fails to create one and gives the permit back.                  *)
WarmOn(e, q, hs, free) ==
    \/ /\ Len(q) < MaxConn
       /\ \E ch \in Channels :
             /\ NewChannel(ch)
             /\ trial' = [trial EXCEPT ![e] = ch]
             /\ health' = [hs EXCEPT ![ch] = FALSE]
       /\ checker' = [checker EXCEPT ![e] = "checking"]
       /\ permits' = free - 1
    \/ /\ trial' = [trial EXCEPT ![e] = NoChannel]
       /\ health' = hs
       /\ checker' = [checker EXCEPT ![e] = "rest"]
       /\ permits' = free

(* The places of the healthy channels of a pool, in order. *)
Kept(q) ==
    LET ok == {i \in 1..Len(q) : health[q[i]]}
    IN  {f \in [1..Cardinality(ok) -> ok] : \A i, j \in DOMAIN f : i < j => f[i] < f[j]}

(* _evict_unhealthy_connections() closes the channels that are not healthy *)
(* as far as their last check tells.                                       *)
HealthPermit(e) ==
    /\ task = "on"
    /\ checker[e] = "permit"
    /\ permits > 0
    /\ \E f \in Kept(pools[e]) :
          LET valid == [i \in DOMAIN f |-> pools[e][f[i]]]
          IN  /\ pools' = [pools EXCEPT ![e] = valid]
              /\ WarmOn(e, valid, health, permits)
    /\ UNCHANGED <<strategy, index, task>>
    /\ UNCHANGED clientVars

HealthChecked(e) ==
    /\ task = "on"
    /\ checker[e] = "checking"
    /\ \E serving \in BOOLEAN :
          LET q == IF serving THEN Pushed(pools[e], trial[e]) ELSE pools[e]
          IN  /\ pools' = [pools EXCEPT ![e] = q]
              /\ WarmOn(e, q, [health EXCEPT ![trial[e]] = serving], permits + 1)
    /\ UNCHANGED <<strategy, index, task>>
    /\ UNCHANGED clientVars

(* __aexit__(): cancelling the task cancels the check of every endpoint. *)
ExitBegin ==
    /\ task = "on"
    /\ task' = "cancelled"
    /\ UNCHANGED <<strategy, index, pools, health, permits, checker, trial>>
    /\ UNCHANGED clientVars

(* MUTANT of PermitsBack: a cancelled check keeps its permit. *)
PermitsBackNone == 0

(* Leaving the semaphore's block by an exception releases its permit. *)
PermitsBack == Cardinality({e \in Endpoint : checker[e] = "checking"})

(* The cancelled checks give their permits back, the task has ended, and   *)
(* every channel that is pooled at that moment is closed.                  *)
ExitEnd ==
    /\ task = "cancelled"
    /\ task' = "off"
    /\ permits' = permits + PermitsBack
    /\ checker' = [e \in Endpoint |-> "rest"]
    /\ trial' = [e \in Endpoint |-> NoChannel]
    /\ pools' = [e \in Endpoint |-> <<>>]
    /\ Closed(Pooled)
    /\ UNCHANGED <<strategy, index>>
    /\ UNCHANGED clientVars

----------------------------------------------------------------------------
ClientStep(c) ==
    AcquirePermit(c) \/ AcquireChecked(c) \/ AcquireRetry(c) \/ ReleasePermit(c)

PoolNext ==
    \/ \E c \in Clients :
        AcquireBegin(c) \/ HolderChecks(c) \/ ReleaseBegin(c) \/ ClientStep(c)
    \/ \E e \in Endpoint : HealthPermit(e) \/ HealthChecked(e)
    \/ Enter \/ RoundBegin \/ ExitBegin \/ ExitEnd

(* Health checks have a timeout and sleeps end; whether somebody calls     *)
(* acquire(), release() or __aexit__() is up to the application.           *)
PoolFairness == \A c \in Clients : WF_poolVars(ClientStep(c))

PoolSpec == PoolInit /\ [][PoolNext]_poolVars /\ PoolFairness

----------------------------------------------------------------------------
(* A channel belongs to one owner: it is pooled once, or one client has    *)
(* it, or one health check has it, however acquisitions, releases, pruning *)
(* and warming interleave.                                                 *)
OneOwner ==
    /\ \A e, f \in Endpoint : \A i \in 1..Len(pools[e]), j \in 1..Len(pools[f]) :
          pools[e][i] = pools[f][j] => e = f /\ i = j
    /\ \A c \in Clients : holds[c] # NoChannel =>
          /\ holds[c] \notin Pooled
          /\ \A d \in Clients : holds[d] = holds[c] => d = c
          /\ \A e \in Endpoint : trial[e] # holds[c]
    /\ \A e \in Endpoint : trial[e] # NoChannel =>
          /\ trial[e] \notin Pooled
          /\ \A f \in Endpoint : trial[f] = trial[e] => f = e

(* A healthy channel leaves the pool only for an acquire(), which has it   *)
(* or raised, or when the pool is closed: with max_idle_conn below         *)
(* max_conn_per_endpoint a release during the health check of _warm_pool() *)
(* never makes its append() drop a channel that nobody closes              *)
(* (client_pool.py:113, 163-167, 207-208).                                 *)
NoneDropped ==
    [][\A ch \in Pooled : health[ch] /\ task' # "off" /\ ch \notin Pooled' =>
          \E c \in Clients :
             holds'[c] = ch \/ (at[c] = "permit" /\ at'[c] = "idle")]_poolVars

(* A permit is free whenever one is needed: health checks that wait for    *)
(* endpoints that are down leave enough of them, and a cancelled or failed *)
(* check gives its permit back.                                            *)
PermitsAccounted ==
    permits = MaxConn * Endpoints - Cardinality({e \in Endpoint : checker[e] = "checking"})

(* acquire() returns a channel or raises after retry_count attempts, and   *)
(* release() returns, even while every endpoint is down.                   *)
ClientsServed ==
    \A c \in Clients : at[c] \notin {"idle", "lent"} ~> at[c] \in {"idle", "lent"}
=============================================================================
