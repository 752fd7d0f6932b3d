----------------------------- MODULE PoolsProofs ---------------------------
(* Proofs about the gRPC and the KMIP connection pool, for any clients,     *)
(* endpoints, channels, connections and limits.                             *)
EXTENDS MCPools, FiniteSetTheorems, SequenceTheorems, TLAPS

----------------------------------------------------------------------------
(* ClientPool: the parts of its inductive invariant *)

(* A client has a channel while it checks, uses or releases one, and a     *)
(* health check has one while it waits for the answer.                     *)
PoolPlaces ==
    /\ \A c \in Clients :
          /\ holds[c] # NoChannel <=> at[c] \in {"checking", "lent", "releasing"}
          /\ holds[c] # NoChannel => endpoint[c] # NoEndpoint
    /\ \A e \in Endpoint : trial[e] # NoChannel <=> checker[e] = "checking"

(* The parts of OneOwner. *)
PooledOnce ==
    \A e, f \in Endpoint : \A i \in 1..Len(pools[e]), j \in 1..Len(pools[f]) :
       pools[e][i] = pools[f][j] => e = f /\ i = j

HeldAlone ==
    \A c \in Clients : holds[c] # NoChannel =>
       /\ holds[c] \notin Pooled
       /\ \A d \in Clients : holds[d] = holds[c] => d = c
       /\ \A e \in Endpoint : trial[e] # holds[c]

TriedAlone ==
    \A e \in Endpoint : trial[e] # NoChannel =>
       /\ trial[e] \notin Pooled
       /\ \A f \in Endpoint : trial[f] = trial[e] => f = e

LEMMA OneOwnerParts == OneOwner <=> PooledOnce /\ HeldAlone /\ TriedAlone
  BY DEF OneOwner, PooledOnce, HeldAlone, TriedAlone

PoolInv == PoolTypeOK /\ PoolPlaces /\ PermitsAccounted /\ OneOwner

Checking == {e \in Endpoint : checker[e] = "checking"}

(* The steps that change a pool: r is a part of the pool q, or q without   *)
(* its leftmost channel if it was full and with one more at its end.       *)
PartOf(r, q) ==
    /\ r \in Seq(Channels)
    /\ Len(r) <= Len(q)
    /\ \E g \in [1..Len(r) -> 1..Len(q)] :
          /\ \A i, j \in 1..Len(r) : g[i] = g[j] => i = j
          /\ \A i \in 1..Len(r) : r[i] = q[g[i]]

LEMMA PoppedPart ==
    ASSUME NEW q \in Seq(Channels)
    PROVE  PartOf(Popped(q), q)
  <1>1. CASE q = <<>>
    <2>1. Popped(q) = q /\ Len(q) = 0
      BY <1>1 DEF Popped
    <2> DEFINE g == [i \in 1..Len(q) |-> i]
    <2>2. /\ g \in [1..Len(q) -> 1..Len(q)]
          /\ \A i, j \in 1..Len(q) : g[i] = g[j] => i = j
          /\ \A i \in 1..Len(q) : q[i] = q[g[i]]
      BY <2>1
    <2> HIDE DEF g
    <2>3. PartOf(q, q)
      BY <2>2 DEF PartOf
    <2> QED
      BY <2>1, <2>3
  <1>2. CASE q # <<>>
    <2>1. /\ Popped(q) = Tail(q)
          /\ Tail(q) \in Seq(Channels)
          /\ Len(q) \in Nat \ {0}
          /\ Len(Tail(q)) = Len(q) - 1
          /\ \A i \in 1..Len(Tail(q)) : Tail(q)[i] = q[i + 1]
      BY <1>2 DEF Popped
    <2> DEFINE g == [i \in 1..Len(Tail(q)) |-> i + 1]
    <2>2. /\ g \in [1..Len(Tail(q)) -> 1..Len(q)]
          /\ \A i, j \in 1..Len(Tail(q)) : g[i] = g[j] => i = j
          /\ \A i \in 1..Len(Tail(q)) : Tail(q)[i] = q[g[i]]
      BY <2>1
    <2> HIDE DEF g
    <2>3. PartOf(Tail(q), q)
      BY <2>1, <2>2 DEF PartOf
    <2> QED
      BY <2>1, <2>3
  <1> QED
    BY <1>1, <1>2

LEMMA PushedFacts ==
    ASSUME NEW q \in Seq(Channels), NEW ch \in Channels, Len(q) <= MaxConn
    PROVE  /\ Pushed(q, ch) \in Seq(Channels)
           /\ Len(Pushed(q, ch)) <= MaxConn
           /\ Len(Pushed(q, ch)) <= Len(q) + 1
           /\ \E d \in {0, 1} :
                 /\ Len(q) < MaxConn => d = 0
                 /\ Len(Pushed(q, ch)) = Len(q) - d + 1
                 /\ \A i \in 1..Len(q) - d :
                       i + d \in 1..Len(q) /\ Pushed(q, ch)[i] = q[i + d]
                 /\ Pushed(q, ch)[Len(q) - d + 1] = ch
  <1>1. CASE Len(q) = MaxConn
    <2>1. /\ q # <<>>
          /\ Len(q) \in Nat \ {0}
      BY <1>1, PoolCountsAssumption
    <2>2. /\ Tail(q) \in Seq(Channels)
          /\ Len(Tail(q)) = Len(q) - 1
          /\ \A i \in 1..Len(q) - 1 : Tail(q)[i] = q[i + 1]
      BY <2>1
    <2>3. Pushed(q, ch) = Append(Tail(q), ch)
      BY <1>1 DEF Pushed
    <2>4. /\ Append(Tail(q), ch) \in Seq(Channels)
          /\ Len(Append(Tail(q), ch)) = Len(q)
          /\ \A i \in 1..Len(q) - 1 :
                i + 1 \in 1..Len(q) /\ Append(Tail(q), ch)[i] = q[i + 1]
          /\ Append(Tail(q), ch)[Len(q)] = ch
      BY <2>1, <2>2
    <2>5. /\ Len(Pushed(q, ch)) = Len(q) - 1 + 1
          /\ \A i \in 1..Len(q) - 1 :
                i + 1 \in 1..Len(q) /\ Pushed(q, ch)[i] = q[i + 1]
          /\ Pushed(q, ch)[Len(q) - 1 + 1] = ch
      BY <2>1, <2>3, <2>4
    <2>6. Len(q) < MaxConn => 1 = 0
      BY <1>1, <2>1
    <2> QED
      BY <1>1, <2>1, <2>3, <2>4, <2>5, <2>6
  <1>2. CASE Len(q) # MaxConn
    <2>1. Len(q) \in Nat /\ Len(q) < MaxConn
      BY <1>2, PoolCountsAssumption
    <2>2. Pushed(q, ch) = Append(q, ch)
      BY <1>2 DEF Pushed
    <2>3. /\ Append(q, ch) \in Seq(Channels)
          /\ Len(Append(q, ch)) = Len(q) - 0 + 1
          /\ \A i \in 1..Len(q) - 0 :
                i + 0 \in 1..Len(q) /\ Append(q, ch)[i] = q[i + 0]
          /\ Append(q, ch)[Len(q) - 0 + 1] = ch
      BY <2>1
    <2>4. Len(q) - 0 + 1 <= MaxConn /\ Len(q) - 0 + 1 <= Len(q) + 1
      BY <2>1, PoolCountsAssumption
    <2> QED
      BY <2>1, <2>2, <2>3, <2>4
  <1> QED
    BY <1>1, <1>2

(* Pruning keeps a part of the pool, with every healthy channel. *)
LEMMA KeptPart ==
    ASSUME NEW q \in Seq(Channels), NEW f \in Kept(q)
    PROVE  LET valid == [i \in DOMAIN f |-> q[f[i]]]
           IN  /\ PartOf(valid, q)
               /\ \A i \in 1..Len(q) : health[q[i]] =>
                     \E j \in 1..Len(valid) : valid[j] = q[i]
  <1> DEFINE ok == {i \in 1..Len(q) : health[q[i]]}
             n == Cardinality(ok)
             valid == [i \in DOMAIN f |-> q[f[i]]]
  <1>1. Len(q) \in Nat
    OBVIOUS
  <1>2. /\ IsFiniteSet(1..Len(q)) /\ Cardinality(1..Len(q)) = Len(q)
    BY <1>1, FS_Interval
  <1>3. ok \subseteq 1..Len(q)
    OBVIOUS
  <1>4. IsFiniteSet(ok) /\ n \in Nat /\ n <= Len(q)
    BY <1>2, <1>3, FS_Subset, FS_CardinalityType
  <1>5. /\ f \in [1..n -> ok]
        /\ \A i, j \in 1..n : i < j => f[i] < f[j]
    BY DEF Kept
  <1> HIDE DEF n
  <1>6. \A i, j \in 1..n : f[i] = f[j] => i = j
    <2> SUFFICES ASSUME NEW i \in 1..n, NEW j \in 1..n, i # j
                 PROVE  f[i] # f[j]
      OBVIOUS
    <2>1. f[i] \in Int /\ f[j] \in Int
      BY <1>1, <1>3, <1>5
    <2>2. i < j \/ j < i
      BY <1>4
    <2> QED
      BY <1>5, <2>1, <2>2
  <1>7. /\ valid = [i \in 1..n |-> q[f[i]]]
        /\ \A i \in 1..n : f[i] \in 1..Len(q) /\ q[f[i]] \in Channels
    BY <1>3, <1>5
  <1>8. /\ valid \in [1..n -> Channels]
        /\ \A i \in 1..n : valid[i] = q[f[i]]
    BY <1>7
  <1> HIDE DEF valid
  <1>9. valid \in Seq(Channels) /\ Len(valid) = n
    BY <1>4, <1>8, SeqDef
  <1>10. f \in [1..n -> 1..Len(q)]
    BY <1>3, <1>5
  <1>11. PartOf(valid, q)
    BY <1>4, <1>6, <1>8, <1>9, <1>10 DEF PartOf
  <1>12. f \in Surjection(1..n, ok)
    <2>1. f \in Injection(1..n, ok)
      BY <1>5, <1>6 DEF Injection, IsInjective
    <2>2. Cardinality(1..n) = Cardinality(ok)
      BY <1>4, FS_Interval DEF n
    <2> HIDE DEF ok
    <2> QED
      BY <1>4, <2>1, <2>2, FS_Injection
  <1>13. \A i \in ok : \E j \in 1..n : f[j] = i
    BY <1>12 DEF Surjection
  <1>14. ASSUME NEW i \in 1..Len(q), health[q[i]]
         PROVE  \E j \in 1..Len(valid) : valid[j] = q[i]
    <2>1. PICK j \in 1..n : f[j] = i
      BY <1>13, <1>14
    <2> QED
      BY <1>8, <1>9, <2>1
  <1> QED
    BY <1>11, <1>14 DEF valid

LEMMA PooledElements ==
    \A x : x \in Pooled <=> \E e \in Endpoint : \E i \in 1..Len(pools[e]) : x = pools[e][i]
  BY DEF Pooled

(* A pool of which a part is left has no channel twice and no other one. *)
LEMMA ShrunkPools ==
    ASSUME PoolTypeOK, PooledOnce, NEW e \in Endpoint, NEW r, PartOf(r, pools[e]),
           pools' = [pools EXCEPT ![e] = r]
    PROVE  /\ pools' \in [Endpoint -> Seq(Channels)]
           /\ \A f \in Endpoint : Len(pools'[f]) <= MaxConn
           /\ PooledOnce'
           /\ Pooled' \subseteq Pooled
  <1>1. /\ pools \in [Endpoint -> Seq(Channels)]
        /\ \A f \in Endpoint : Len(pools[f]) \in Nat /\ Len(pools[f]) <= MaxConn
    BY DEF PoolTypeOK
  <1>2. /\ r \in Seq(Channels)
        /\ Len(r) \in Nat
        /\ Len(r) <= Len(pools[e])
    BY DEF PartOf
  <1>3. PICK g \in [1..Len(r) -> 1..Len(pools[e])] :
           /\ \A i, j \in 1..Len(r) : g[i] = g[j] => i = j
           /\ \A i \in 1..Len(r) : r[i] = pools[e][g[i]]
    BY DEF PartOf
  <1>4. /\ pools'[e] = r
        /\ \A f \in Endpoint : f # e => pools'[f] = pools[f]
    BY <1>1
  <1>5. /\ pools' \in [Endpoint -> Seq(Channels)]
        /\ \A f \in Endpoint : Len(pools'[f]) <= MaxConn
    BY <1>1, <1>2, <1>4, PoolCountsAssumption
  <1> DEFINE from(f, i) == IF f = e THEN g[i] ELSE i
  <1>6. ASSUME NEW f \in Endpoint, NEW i \in 1..Len(pools'[f])
        PROVE  /\ from(f, i) \in 1..Len(pools[f])
               /\ pools'[f][i] = pools[f][from(f, i)]
    BY <1>3, <1>4
  <1>7. PooledOnce'
    <2> SUFFICES ASSUME NEW f \in Endpoint, NEW h \in Endpoint,
                        NEW i \in 1..Len(pools'[f]), NEW j \in 1..Len(pools'[h]),
                        pools'[f][i] = pools'[h][j]
                 PROVE  f = h /\ i = j
      BY DEF PooledOnce
    <2>1. pools[f][from(f, i)] = pools[h][from(h, j)]
      BY <1>6
    <2>2. f = h /\ from(f, i) = from(h, j)
      BY <1>6, <2>1 DEF PooledOnce
    <2> QED
      BY <1>3, <1>4, <2>2
  <1>8. Pooled' \subseteq Pooled
    <2> SUFFICES ASSUME NEW f \in Endpoint, NEW i \in 1..Len(pools'[f])
                 PROVE  pools'[f][i] \in Pooled
      BY DEF Pooled
    <2> QED
      BY <1>6, PooledElements
  <1> QED
    BY <1>5, <1>7, <1>8

(* append() of a channel that is not pooled yet. *)
LEMMA GrownPools ==
    ASSUME PoolTypeOK, PooledOnce, NEW e \in Endpoint,
           NEW ch \in Channels, ch \notin Pooled,
           pools' = [pools EXCEPT ![e] = Pushed(pools[e], ch)]
    PROVE  /\ pools' \in [Endpoint -> Seq(Channels)]
           /\ \A f \in Endpoint : Len(pools'[f]) <= MaxConn
           /\ PooledOnce'
           /\ Pooled' \subseteq Pooled \cup {ch}
  <1>1. /\ pools \in [Endpoint -> Seq(Channels)]
        /\ \A f \in Endpoint : Len(pools[f]) \in Nat /\ Len(pools[f]) <= MaxConn
    BY DEF PoolTypeOK
  <1> DEFINE r == Pushed(pools[e], ch)
  <1>2. /\ r \in Seq(Channels)
        /\ Len(r) \in Nat
        /\ Len(r) <= MaxConn
    BY <1>1, PushedFacts
  <1>3. PICK d \in {0, 1} :
           /\ Len(r) = Len(pools[e]) - d + 1
           /\ \A i \in 1..Len(pools[e]) - d :
                 i + d \in 1..Len(pools[e]) /\ r[i] = pools[e][i + d]
           /\ r[Len(pools[e]) - d + 1] = ch
    BY <1>1, PushedFacts
  <1> HIDE DEF r
  <1>4. /\ pools'[e] = r
        /\ \A f \in Endpoint : f # e => pools'[f] = pools[f]
    BY <1>1 DEF r
  <1>5. /\ pools' \in [Endpoint -> Seq(Channels)]
        /\ \A f \in Endpoint : Len(pools'[f]) <= MaxConn
    BY <1>1, <1>2, <1>4, PoolCountsAssumption
  <1> DEFINE old(f, i) == f # e \/ i # Len(r)
             from(f, i) == IF f = e THEN i + d ELSE i
  <1>6. ASSUME NEW f \in Endpoint, NEW i \in 1..Len(pools'[f]), old(f, i)
        PROVE  /\ from(f, i) \in 1..Len(pools[f])
               /\ pools'[f][i] = pools[f][from(f, i)]
    BY <1>1, <1>2, <1>3, <1>4, <1>6
  <1>7. ASSUME NEW f \in Endpoint, NEW i \in 1..Len(pools'[f]), ~old(f, i)
        PROVE  pools'[f][i] = ch
    BY <1>3, <1>4, <1>7
  <1>8. ASSUME NEW f \in Endpoint, NEW i \in 1..Len(pools'[f]), old(f, i)
        PROVE  pools'[f][i] \in Pooled
    BY <1>6, <1>8, PooledElements
  <1>9. PooledOnce'
    <2> SUFFICES ASSUME NEW f \in Endpoint, NEW h \in Endpoint,
                        NEW i \in 1..Len(pools'[f]), NEW j \in 1..Len(pools'[h]),
                        pools'[f][i] = pools'[h][j]
                 PROVE  f = h /\ i = j
      BY DEF PooledOnce
    <2>0. CASE old(f, i) /\ old(h, j)
      <3>1. pools[f][from(f, i)] = pools[h][from(h, j)]
        BY <1>6, <2>0
      <3>2. f = h /\ from(f, i) = from(h, j)
        BY <1>6, <2>0, <3>1 DEF PooledOnce
      <3> QED
        BY <3>2, <1>1, <1>2, <1>4
    <2>1. CASE ~old(f, i) /\ ~old(h, j)
      BY <2>1
    <2>2. CASE old(f, i) # old(h, j)
      BY <1>7, <1>8, <2>2
    <2> QED
      BY <2>0, <2>1, <2>2
  <1>10. Pooled' \subseteq Pooled \cup {ch}
    <2> SUFFICES ASSUME NEW f \in Endpoint, NEW i \in 1..Len(pools'[f])
                 PROVE  pools'[f][i] \in Pooled \cup {ch}
      BY DEF Pooled
    <2> QED
      BY <1>7, <1>8
  <1> QED
    BY <1>5, <1>9, <1>10

(* A client gives up the channel it has, to a pool or to nobody, and has   *)
(* none or one that nobody else has.                                       *)
LEMMA HolderChanges ==
    ASSUME PoolTypeOK, OneOwner, NEW c \in Clients, NEW x \in Channels \cup {NoChannel},
           holds' = [holds EXCEPT ![c] = x], trial' = trial, PooledOnce',
           Pooled' \subseteq Pooled \cup {holds[c]},
           NoChannel \notin Pooled',
           x # NoChannel =>
              /\ x \notin Pooled'
              /\ \A d \in Clients : d # c => holds[d] # x
              /\ \A e \in Endpoint : trial[e] # x
    PROVE  OneOwner'
  <1>1. holds \in [Clients -> Channels \cup {NoChannel}]
    BY DEF PoolTypeOK
  <1>2. HeldAlone /\ TriedAlone
    BY OneOwnerParts
  <1>3. holds'[c] = x /\ \A d \in Clients : d # c => holds'[d] = holds[d]
    BY <1>1
  <1>4. HeldAlone'
    BY <1>2, <1>3 DEF HeldAlone
  <1>5. TriedAlone'
    BY <1>2 DEF HeldAlone, TriedAlone
  <1> QED
    BY <1>4, <1>5, OneOwnerParts, PTL

(* The same for the health check of an endpoint. *)
LEMMA TrialChanges ==
    ASSUME PoolTypeOK, OneOwner, NEW e \in Endpoint, NEW x \in Channels \cup {NoChannel},
           trial' = [trial EXCEPT ![e] = x], holds' = holds, PooledOnce',
           Pooled' \subseteq Pooled \cup {trial[e]},
           NoChannel \notin Pooled',
           x # NoChannel =>
              /\ x \notin Pooled'
              /\ \A f \in Endpoint : f # e => trial[f] # x
              /\ \A c \in Clients : holds[c] # x
    PROVE  OneOwner'
  <1>1. trial \in [Endpoint -> Channels \cup {NoChannel}]
    BY DEF PoolTypeOK
  <1>2. HeldAlone /\ TriedAlone
    BY OneOwnerParts
  <1>3. trial'[e] = x /\ \A f \in Endpoint : f # e => trial'[f] = trial[f]
    BY <1>1
  <1>4. HeldAlone'
    BY <1>2, <1>3 DEF HeldAlone
  <1>5. TriedAlone'
    BY <1>2, <1>3 DEF HeldAlone, TriedAlone
  <1> QED
    BY <1>4, <1>5, OneOwnerParts, PTL

LEMMA PooledAreChannels ==
    PoolTypeOK => Pooled \subseteq Channels /\ NoChannel \notin Pooled
  <1> SUFFICES ASSUME PoolTypeOK
               PROVE  Pooled \subseteq Channels
    BY PoolNullsAssumption
  <1>1. \A e \in Endpoint : pools[e] \in Seq(Channels)
    BY DEF PoolTypeOK
  <1> QED
    BY <1>1 DEF Pooled

(* A new attempt of acquire() has an endpoint or none, and no channel. *)
LEMMA AttemptStep ==
    ASSUME PoolTypeOK, NEW c \in Clients, NEW n \in 1..RetryCount, Attempt(c, n)
    PROVE  /\ index' \in 0..Endpoints - 1
           /\ at' = [at EXCEPT ![c] = "permit"]
           /\ endpoint' \in [Clients -> Endpoint \cup {NoEndpoint}]
           /\ \A d \in Clients : d # c => endpoint'[d] = endpoint[d]
           /\ attempt' \in [Clients -> 0..RetryCount]
           /\ holds' = [holds EXCEPT ![c] = NoChannel]
  <1> USE DEF PoolTypeOK, Attempt
  <1>1. n \in 0..RetryCount
    BY PoolCountsAssumption
  <1>2. attempt' \in [Clients -> 0..RetryCount]
    BY <1>1
  <1>3. index \in Int /\ Endpoints \in Nat \ {0} /\ (index + 1) % Endpoints \in 0..Endpoints - 1
    BY PoolCountsAssumption
  <1>4. \/ /\ index' = (index + 1) % Endpoints
           /\ endpoint' = [endpoint EXCEPT ![c] = index' + 1]
        \/ /\ index' = index
           /\ \E e \in Endpoint \cup {NoEndpoint} : endpoint' = [endpoint EXCEPT ![c] = e]
    BY DEF Select, NextIndex
  <1>5. index' \in 0..Endpoints - 1 /\ index' + 1 \in Endpoint
    BY <1>3, <1>4 DEF Endpoint
  <1>6. PICK e \in Endpoint \cup {NoEndpoint} : endpoint' = [endpoint EXCEPT ![c] = e]
    BY <1>4, <1>5
  <1> QED
    BY <1>2, <1>5, <1>6

(* So has the state in which an operation has returned. *)
LEMMA LeaveStep ==
    ASSUME PoolTypeOK, NEW c \in Clients, Leave(c)
    PROVE  /\ index' \in 0..Endpoints - 1
           /\ at' = [at EXCEPT ![c] = "idle"]
           /\ endpoint' \in [Clients -> Endpoint \cup {NoEndpoint}]
           /\ \A d \in Clients : d # c => endpoint'[d] = endpoint[d]
           /\ attempt' \in [Clients -> 0..RetryCount]
           /\ holds' = [holds EXCEPT ![c] = NoChannel]
  <1>1. 0 \in 0..RetryCount
    BY PoolCountsAssumption
  <1> QED
    BY <1>1 DEF Leave, PoolTypeOK

LEMMA NextAttemptStep ==
    ASSUME PoolTypeOK, NEW c \in Clients, NextAttempt(c)
    PROVE  /\ index' \in 0..Endpoints - 1
           /\ \E p \in {"permit", "idle"} : at' = [at EXCEPT ![c] = p]
           /\ endpoint' \in [Clients -> Endpoint \cup {NoEndpoint}]
           /\ \A d \in Clients : d # c => endpoint'[d] = endpoint[d]
           /\ attempt' \in [Clients -> 0..RetryCount]
           /\ holds' = [holds EXCEPT ![c] = NoChannel]
  <1>1. attempt[c] \in 0..RetryCount
    BY DEF PoolTypeOK
  <1>2. CASE attempt[c] < RetryCount
    <2>1. attempt[c] + 1 \in 1..RetryCount
      BY <1>1, <1>2, PoolCountsAssumption
    <2>2. Attempt(c, attempt[c] + 1)
      BY <1>2 DEF NextAttempt
    <2> QED
      BY <2>1, <2>2, AttemptStep
  <1>3. CASE ~(attempt[c] < RetryCount)
    <2>1. Leave(c)
      BY <1>3 DEF NextAttempt
    <2> QED
      BY <2>1, LeaveStep
  <1> QED
    BY <1>2, <1>3

(* What every step of a client that ends without a channel establishes,    *)
(* whatever it leaves in the pools.                                        *)
LEMMA ClientWithout ==
    ASSUME PoolInv, NEW c \in Clients, NEW p \in {"permit", "idle", "backoff"},
           index' \in 0..Endpoints - 1,
           at' = [at EXCEPT ![c] = p],
           endpoint' \in [Clients -> Endpoint \cup {NoEndpoint}],
           \A d \in Clients : d # c => endpoint'[d] = endpoint[d],
           attempt' \in [Clients -> 0..RetryCount],
           holds' = [holds EXCEPT ![c] = NoChannel],
           health' \in [Channels -> BOOLEAN],
           UNCHANGED <<strategy, permits, task, checker, trial>>,
           pools' \in [Endpoint -> Seq(Channels)],
           \A f \in Endpoint : Len(pools'[f]) <= MaxConn,
           PooledOnce', Pooled' \subseteq (Pooled \cup {holds[c]}) \ {NoChannel}
    PROVE  PoolInv'
  <1> USE DEF PoolInv
  <1>1. PoolTypeOK'
    BY DEF PoolTypeOK
  <1>2. PoolPlaces'
    <2>1. at \in [Clients -> {"idle", "permit", "checking", "backoff", "lent", "releasing"}]
          /\ holds \in [Clients -> Channels \cup {NoChannel}]
      BY DEF PoolTypeOK
    <2> QED
      BY <2>1 DEF PoolPlaces
  <1>3. PermitsAccounted'
    BY DEF PermitsAccounted
  <1>4. OneOwner'
    BY HolderChanges
  <1> QED
    BY <1>1, <1>2, <1>3, <1>4

(* What every step of a client that ends with a channel establishes. *)
LEMMA ClientWith ==
    ASSUME PoolInv, NEW c \in Clients, NEW p \in {"checking", "lent", "releasing"},
           NEW ch \in Channels,
           at' = [at EXCEPT ![c] = p],
           endpoint[c] # NoEndpoint,
           attempt' \in [Clients -> 0..RetryCount],
           holds' = [holds EXCEPT ![c] = ch],
           health' \in [Channels -> BOOLEAN],
           UNCHANGED <<strategy, index, permits, task, checker, trial, endpoint>>,
           pools' \in [Endpoint -> Seq(Channels)],
           \A f \in Endpoint : Len(pools'[f]) <= MaxConn,
           PooledOnce', Pooled' \subseteq Pooled,
           ch \notin Pooled',
           \A d \in Clients : d # c => holds[d] # ch,
           \A e \in Endpoint : trial[e] # ch
    PROVE  PoolInv'
  <1> USE DEF PoolInv
  <1>1. PoolTypeOK'
    BY DEF PoolTypeOK
  <1>2. PoolPlaces'
    <2>1. /\ at \in [Clients -> {"idle", "permit", "checking", "backoff", "lent", "releasing"}]
          /\ holds \in [Clients -> Channels \cup {NoChannel}]
      BY DEF PoolTypeOK
    <2> QED
      BY <2>1, PoolNullsAssumption DEF PoolPlaces
  <1>3. PermitsAccounted'
    BY DEF PermitsAccounted
  <1>4. OneOwner'
    <2>1. NoChannel \notin Pooled'
      BY PooledAreChannels
    <2> QED
      BY <2>1, HolderChanges
  <1> QED
    BY <1>1, <1>2, <1>3, <1>4

(* Steps that leave the pools alone. *)
LEMMA SamePools ==
    ASSUME PoolInv, pools' = pools
    PROVE  /\ pools' \in [Endpoint -> Seq(Channels)]
           /\ \A f \in Endpoint : Len(pools'[f]) <= MaxConn
           /\ PooledOnce' /\ Pooled' = Pooled
           /\ NoChannel \notin Pooled
  <1>1. PoolTypeOK /\ PooledOnce
    BY OneOwnerParts DEF PoolInv
  <1> QED
    BY <1>1, PooledAreChannels DEF PoolTypeOK, PooledOnce, Pooled

LEMMA AcquireBeginInv ==
    ASSUME PoolInv, NEW c \in Clients, AcquireBegin(c)
    PROVE  PoolInv'
  <1>1. /\ Attempt(c, 1) /\ pools' = pools /\ health' = health
        /\ UNCHANGED <<strategy, permits, task, checker, trial>>
    BY DEF AcquireBegin
  <1>2. 1 \in 1..RetryCount
    BY PoolCountsAssumption
  <1>3. PoolTypeOK /\ health' \in [Channels -> BOOLEAN]
    BY <1>1 DEF PoolInv, PoolTypeOK
  <1>4. PooledOnce' /\ Pooled' = Pooled /\ NoChannel \notin Pooled
    BY <1>1, SamePools
  <1>5. /\ pools' \in [Endpoint -> Seq(Channels)]
        /\ \A f \in Endpoint : Len(pools'[f]) <= MaxConn
    BY <1>1, SamePools
  <1> QED
    BY <1>1, <1>2, <1>3, <1>4, <1>5, AttemptStep, ClientWithout

LEMMA AcquireRetryInv ==
    ASSUME PoolInv, NEW c \in Clients, AcquireRetry(c)
    PROVE  PoolInv'
  <1>1. /\ NextAttempt(c) /\ pools' = pools /\ health' = health
        /\ UNCHANGED <<strategy, permits, task, checker, trial>>
    BY DEF AcquireRetry
  <1>2. PoolTypeOK /\ health' \in [Channels -> BOOLEAN]
    BY <1>1 DEF PoolInv, PoolTypeOK
  <1>3. PooledOnce' /\ Pooled' = Pooled /\ NoChannel \notin Pooled
    BY <1>1, SamePools
  <1>4. /\ pools' \in [Endpoint -> Seq(Channels)]
        /\ \A f \in Endpoint : Len(pools'[f]) <= MaxConn
    BY <1>1, SamePools
  <1>5. PICK p \in {"permit", "idle"} : at' = [at EXCEPT ![c] = p]
    BY <1>1, <1>2, NextAttemptStep
  <1> QED
    BY <1>1, <1>2, <1>3, <1>4, <1>5, NextAttemptStep, ClientWithout

LEMMA AcquireCheckedInv ==
    ASSUME PoolInv, NEW c \in Clients, AcquireChecked(c)
    PROVE  PoolInv'
  <1>1. /\ at[c] = "checking" /\ pools' = pools
        /\ UNCHANGED <<strategy, permits, task, checker, trial>>
    BY DEF AcquireChecked
  <1>2. PoolTypeOK /\ PoolPlaces /\ HeldAlone
    BY OneOwnerParts DEF PoolInv
  <1>3. health' \in [Channels -> BOOLEAN]
    BY <1>2 DEF AcquireChecked, Checked, PoolTypeOK
  <1>4. PooledOnce' /\ Pooled' = Pooled /\ NoChannel \notin Pooled
    BY <1>1, SamePools
  <1>5. /\ pools' \in [Endpoint -> Seq(Channels)]
        /\ \A f \in Endpoint : Len(pools'[f]) <= MaxConn
    BY <1>1, SamePools
  <1>6. CASE Lend(c, holds[c]) /\ UNCHANGED index
    <2>1. holds[c] \in Channels /\ endpoint[c] # NoEndpoint
      BY <1>1, <1>2 DEF PoolTypeOK, PoolPlaces
    <2>2. 0 \in 0..RetryCount
      BY PoolCountsAssumption
    <2>3. /\ at' = [at EXCEPT ![c] = "lent"]
          /\ attempt' \in [Clients -> 0..RetryCount]
          /\ holds' = [holds EXCEPT ![c] = holds[c]]
          /\ UNCHANGED <<index, endpoint>>
      BY <1>2, <1>6, <2>2 DEF Lend, PoolTypeOK
    <2>4. /\ holds[c] \notin Pooled
          /\ \A d \in Clients : d # c => holds[d] # holds[c]
          /\ \A e \in Endpoint : trial[e] # holds[c]
      BY <1>2, <2>1, PoolNullsAssumption DEF HeldAlone
    <2> QED
      BY <1>1, <1>3, <1>4, <1>5, <2>1, <2>3, <2>4, ClientWith
  <1>7. CASE NextAttempt(c)
    <2>1. PICK p \in {"permit", "idle"} : at' = [at EXCEPT ![c] = p]
      BY <1>2, <1>7, NextAttemptStep
    <2> QED
      BY <1>1, <1>2, <1>3, <1>4, <1>5, <1>7, <2>1, NextAttemptStep, ClientWithout
  <1>8. CASE /\ at' = [at EXCEPT ![c] = "backoff"]
             /\ holds' = [holds EXCEPT ![c] = NoChannel]
             /\ UNCHANGED <<index, endpoint, attempt>>
    <2>1. /\ index' \in 0..Endpoints - 1
          /\ endpoint' \in [Clients -> Endpoint \cup {NoEndpoint}]
          /\ attempt' \in [Clients -> 0..RetryCount]
          /\ \A d \in Clients : d # c => endpoint'[d] = endpoint[d]
      BY <1>2, <1>8 DEF PoolTypeOK
    <2> QED
      BY <1>1, <1>2, <1>3, <1>4, <1>5, <1>8, <2>1, ClientWithout
  <1> QED
    BY <1>6, <1>7, <1>8 DEF AcquireChecked

LEMMA ReleaseBeginInv ==
    ASSUME PoolInv, NEW c \in Clients, ReleaseBegin(c)
    PROVE  PoolInv'
  <1>1. /\ at[c] = "lent" /\ at' = [at EXCEPT ![c] = "releasing"]
        /\ UNCHANGED <<strategy, index, pools, health, permits, task, checker, trial,
                       endpoint, attempt, holds>>
    BY DEF ReleaseBegin
  <1>2. PoolTypeOK'
    BY <1>1 DEF PoolInv, PoolTypeOK
  <1>3. PoolPlaces'
    BY <1>1 DEF PoolInv, PoolTypeOK, PoolPlaces
  <1>4. PermitsAccounted' /\ OneOwner'
    BY <1>1 DEF PoolInv, PermitsAccounted, OneOwner, Pooled
  <1> QED
    BY <1>2, <1>3, <1>4 DEF PoolInv

LEMMA HolderChecksInv ==
    ASSUME PoolInv, NEW c \in Clients, HolderChecks(c)
    PROVE  PoolInv'
  <1>1. PoolTypeOK'
    BY DEF PoolInv, PoolTypeOK, HolderChecks, Checked, clientVars
  <1>2. PoolPlaces' /\ PermitsAccounted' /\ OneOwner'
    BY DEF PoolInv, PoolPlaces, PermitsAccounted, OneOwner, Pooled, HolderChecks, clientVars
  <1> QED
    BY <1>1, <1>2 DEF PoolInv

LEMMA AcquirePermitInv ==
    ASSUME PoolInv, NEW c \in Clients, AcquirePermit(c)
    PROVE  PoolInv'
  <1>1. /\ at[c] = "permit"
        /\ UNCHANGED <<strategy, permits, task, checker, trial>>
    BY DEF AcquirePermit
  <1>2. PoolTypeOK /\ PoolPlaces /\ PooledOnce /\ HeldAlone /\ TriedAlone
    BY OneOwnerParts DEF PoolInv
  <1>3. CASE endpoint[c] = NoEndpoint
    <2>1. Leave(c) /\ pools' = pools /\ health' = health
      BY <1>3 DEF AcquirePermit
    <2>2. PooledOnce' /\ Pooled' = Pooled /\ NoChannel \notin Pooled
      BY <2>1, SamePools
    <2>3. /\ pools' \in [Endpoint -> Seq(Channels)]
          /\ \A f \in Endpoint : Len(pools'[f]) <= MaxConn
      BY <2>1, SamePools
    <2>4. health' \in [Channels -> BOOLEAN]
      BY <1>2, <2>1 DEF PoolTypeOK
    <2> QED
      BY <1>1, <1>2, <2>1, <2>2, <2>3, <2>4, LeaveStep, ClientWithout
  <1>4. CASE endpoint[c] # NoEndpoint
    <2> DEFINE e == endpoint[c]
               q == pools[e]
    <2>1. e \in Endpoint /\ q \in Seq(Channels)
      BY <1>2, <1>4 DEF PoolTypeOK
    <2>2. /\ pools' = [pools EXCEPT ![e] = Popped(q)]
          /\ \/ Usable(q) /\ Lend(c, Head(q)) /\ UNCHANGED <<index, endpoint, health>>
             \/ Leave(c) /\ Closed({Head(q)})
             \/ Create(c) /\ UNCHANGED <<index, endpoint, attempt>>
      BY <1>4 DEF AcquirePermit, Lend
    <2>3. PartOf(Popped(q), q)
      BY <2>1, PoppedPart
    <2> HIDE DEF q
    <2>4. /\ pools' \in [Endpoint -> Seq(Channels)]
          /\ \A f \in Endpoint : Len(pools'[f]) <= MaxConn
          /\ PooledOnce' /\ Pooled' \subseteq Pooled
      BY <1>2, <2>1, <2>2, <2>3, ShrunkPools DEF q
    <2> HIDE DEF e
    <2>5. Pooled \subseteq Channels /\ NoChannel \notin Pooled
      BY <1>2, PooledAreChannels
    <2>6. CASE Usable(q) /\ Lend(c, Head(q)) /\ UNCHANGED <<index, endpoint, health>>
      <3>1. q # <<>>
        BY <2>6 DEF Usable
      <3>2. /\ Len(q) \in Nat \ {0} /\ Head(q) = q[1]
            /\ Popped(q) = Tail(q) /\ Len(Tail(q)) = Len(q) - 1
            /\ \A i \in 1..Len(Tail(q)) : Tail(q)[i] = q[i + 1]
        BY <2>1, <3>1 DEF Popped
      <3>3. Head(q) \in Pooled
        BY <2>1, <3>2, PooledElements DEF q
      <3>4. Head(q) \notin Pooled'
        <4> SUFFICES ASSUME NEW f \in Endpoint, NEW i \in 1..Len(pools'[f]),
                            pools'[f][i] = q[1]
                     PROVE  FALSE
          BY <3>2 DEF Pooled
        <4>1. pools \in [Endpoint -> Seq(Channels)]
          BY <1>2 DEF PoolTypeOK
        <4>2. CASE f = e
          <5>1. pools'[f] = Tail(q)
            BY <2>1, <2>2, <3>2, <4>1, <4>2
          <5>2. i + 1 \in 1..Len(q) /\ q[i + 1] = q[1]
            BY <3>2, <5>1
          <5>3. i + 1 = 1
            BY <1>2, <2>1, <3>2, <5>2 DEF PooledOnce, q
          <5> QED
            BY <5>3
        <4>3. CASE f # e
          <5>1. pools'[f] = pools[f]
            BY <2>1, <2>2, <4>1, <4>3
          <5>2. 1 \in 1..Len(pools[e]) /\ i \in 1..Len(pools[f]) /\ pools[f][i] = pools[e][1]
            BY <3>2, <5>1 DEF q
          <5> QED
            BY <1>2, <2>1, <4>3, <5>2 DEF PooledOnce
        <4> QED
          BY <4>2, <4>3
      <3>5. /\ Head(q) \in Channels
            /\ \A d \in Clients : holds[d] # Head(q)
            /\ \A f \in Endpoint : trial[f] # Head(q)
        BY <1>2, <2>5, <3>3 DEF HeldAlone, TriedAlone
      <3>6. 0 \in 0..RetryCount
        BY PoolCountsAssumption
      <3>7. /\ at' = [at EXCEPT ![c] = "lent"]
            /\ attempt' \in [Clients -> 0..RetryCount]
            /\ holds' = [holds EXCEPT ![c] = Head(q)]
            /\ health' \in [Channels -> BOOLEAN]
        BY <1>2, <2>6, <3>6 DEF Lend, PoolTypeOK
      <3> QED
        BY <1>1, <1>4, <2>2, <2>4, <2>6, <3>4, <3>5, <3>7, ClientWith
    <2>7. CASE Create(c) /\ UNCHANGED <<index, endpoint, attempt>>
      <3>0. /\ attempt' \in [Clients -> 0..RetryCount]
            /\ index' \in 0..Endpoints - 1
            /\ endpoint' \in [Clients -> Endpoint \cup {NoEndpoint}]
        BY <1>2, <2>2, <2>7 DEF PoolTypeOK
      <3>1. CASE at' = [at EXCEPT ![c] = "backoff"] /\ UNCHANGED <<health, holds>>
        <4>1. holds[c] = NoChannel
          BY <1>1, <1>2 DEF PoolPlaces
        <4>2. holds' = [holds EXCEPT ![c] = NoChannel] /\ health' \in [Channels -> BOOLEAN]
          BY <1>2, <3>1, <4>1 DEF PoolTypeOK
        <4>3. Pooled' \subseteq (Pooled \cup {holds[c]}) \ {NoChannel}
          BY <2>4, <2>5
        <4> QED
          BY <1>1, <2>2, <2>4, <2>7, <3>0, <3>1, <4>2, <4>3, ClientWithout
      <3>2. ASSUME NEW ch \in Channels, NewChannel(ch), Checked(ch, FALSE),
                   at' = [at EXCEPT ![c] = "checking"],
                   holds' = [holds EXCEPT ![c] = ch]
            PROVE  PoolInv'
        <4>1. /\ ch \notin Pooled
              /\ \A d \in Clients : holds[d] # ch
              /\ \A f \in Endpoint : trial[f] # ch
          BY <3>2 DEF NewChannel, InUse
        <4>2. health' \in [Channels -> BOOLEAN]
          BY <1>2, <3>2 DEF PoolTypeOK, Checked
        <4> QED
          BY <1>1, <1>4, <2>2, <2>4, <2>7, <3>0, <3>2, <4>1, <4>2, ClientWith
      <3> QED
        BY <2>7, <3>1, <3>2 DEF Create
    <2>8. CASE Leave(c) /\ Closed({Head(q)})
      <3>1. health' \in [Channels -> BOOLEAN]
        BY <1>2, <2>8 DEF Closed, PoolTypeOK
      <3>2. Pooled' \subseteq (Pooled \cup {holds[c]}) \ {NoChannel}
        BY <2>4, <2>5
      <3> QED
        BY <1>1, <1>2, <2>4, <2>8, <3>1, <3>2, LeaveStep, ClientWithout
    <2> QED
      BY <2>2, <2>6, <2>7, <2>8
  <1> QED
    BY <1>3, <1>4

LEMMA ReleasePermitInv ==
    ASSUME PoolInv, NEW c \in Clients, ReleasePermit(c)
    PROVE  PoolInv'
  <1>1. /\ at[c] = "releasing" /\ Leave(c)
        /\ UNCHANGED <<strategy, permits, task, checker, trial>>
    BY DEF ReleasePermit
  <1>2. PoolTypeOK /\ PoolPlaces /\ PooledOnce /\ HeldAlone
    BY OneOwnerParts DEF PoolInv
  <1>3. /\ holds[c] \in Channels /\ endpoint[c] \in Endpoint
        /\ holds[c] \notin Pooled
    BY <1>1, <1>2 DEF PoolTypeOK, PoolPlaces, HeldAlone
  <1>4. Pooled \subseteq Channels /\ NoChannel \notin Pooled
    BY <1>2, PooledAreChannels
  <1>5. CASE pools' = [pools EXCEPT ![endpoint[c]] = Pushed(@, holds[c])] /\ UNCHANGED health
    <2>1. pools' = [pools EXCEPT ![endpoint[c]] = Pushed(pools[endpoint[c]], holds[c])]
      BY <1>5
    <2>2. /\ pools' \in [Endpoint -> Seq(Channels)]
          /\ \A f \in Endpoint : Len(pools'[f]) <= MaxConn
          /\ PooledOnce' /\ Pooled' \subseteq Pooled \cup {holds[c]}
      BY <1>2, <1>3, <2>1, GrownPools
    <2>3. Pooled' \subseteq (Pooled \cup {holds[c]}) \ {NoChannel}
      BY <1>3, <1>4, <2>2, PoolNullsAssumption
    <2>4. health' \in [Channels -> BOOLEAN]
      BY <1>2, <1>5 DEF PoolTypeOK
    <2> QED
      BY <1>1, <1>2, <2>2, <2>3, <2>4, LeaveStep, ClientWithout
  <1>6. CASE Closed({holds[c]}) /\ UNCHANGED pools
    <2>1. /\ pools' \in [Endpoint -> Seq(Channels)]
          /\ \A f \in Endpoint : Len(pools'[f]) <= MaxConn
          /\ PooledOnce' /\ Pooled' = Pooled
      BY <1>6, SamePools
    <2>2. Pooled' \subseteq (Pooled \cup {holds[c]}) \ {NoChannel}
      BY <1>4, <2>1
    <2>3. health' \in [Channels -> BOOLEAN]
      BY <1>2, <1>6 DEF PoolTypeOK, Closed
    <2> QED
      BY <1>1, <1>2, <2>1, <2>2, <2>3, LeaveStep, ClientWithout
  <1> QED
    BY <1>5, <1>6 DEF ReleasePermit

(* The semaphore has a permit for every endpoint. *)
LEMMA PermitsBound ==
    ASSUME NEW S \in SUBSET Endpoint
    PROVE  /\ IsFiniteSet(S)
           /\ Cardinality(S) \in Nat
           /\ MaxConn * Endpoints \in Nat
           /\ MaxConn * Endpoints - Cardinality(S) \in 0..MaxConn * Endpoints
  <1>1. /\ IsFiniteSet(Endpoint) /\ Cardinality(Endpoint) = Endpoints
    BY PoolCountsAssumption, FS_Interval DEF Endpoint
  <1>2. IsFiniteSet(S) /\ Cardinality(S) \in Nat /\ Cardinality(S) <= Endpoints
    BY <1>1, FS_Subset, FS_CardinalityType
  <1>3. MaxConn * Endpoints \in Nat /\ Endpoints <= MaxConn * Endpoints
    BY PoolCountsAssumption
  <1> QED
    BY <1>2, <1>3, PoolCountsAssumption

(* The loop of _warm_pool(), whatever the pruning or the answer to a       *)
(* health check has left in the pool.                                      *)
LEMMA WarmStep ==
    ASSUME PoolInv, NEW e \in Endpoint, NEW q, NEW hs \in [Channels -> BOOLEAN], NEW free,
           free = MaxConn * Endpoints - Cardinality(Checking \ {e}),
           WarmOn(e, q, hs, free),
           UNCHANGED <<strategy, index, task>>, UNCHANGED clientVars,
           pools' \in [Endpoint -> Seq(Channels)],
           \A f \in Endpoint : Len(pools'[f]) <= MaxConn,
           PooledOnce', Pooled' \subseteq (Pooled \cup {trial[e]}) \ {NoChannel}
    PROVE  PoolInv'
  <1>1. PoolTypeOK /\ PoolPlaces /\ OneOwner
    BY DEF PoolInv
  <1>2. /\ checker \in [Endpoint -> {"rest", "permit", "checking"}]
        /\ trial \in [Endpoint -> Channels \cup {NoChannel}]
    BY <1>1 DEF PoolTypeOK
  <1>3. Checking \ {e} \in SUBSET Endpoint
    BY DEF Checking
  <1>4. /\ IsFiniteSet(Checking \ {e}) /\ Cardinality(Checking \ {e}) \in Nat
        /\ MaxConn * Endpoints \in Nat
    BY <1>3, PermitsBound
  <1>5. ASSUME NEW x \in Channels \cup {NoChannel}, trial' = [trial EXCEPT ![e] = x],
               NEW p \in {"rest", "checking"}, checker' = [checker EXCEPT ![e] = p],
               p = "checking" <=> x # NoChannel,
               x # NoChannel => NewChannel(x),
               permits' = IF p = "checking" THEN free - 1 ELSE free,
               health' \in [Channels -> BOOLEAN]
        PROVE  PoolInv'
    <2>1. PermitsAccounted'
      <3>1. CASE p = "checking"
        <4>1. Checking' = (Checking \ {e}) \cup {e}
          BY <1>2, <1>5, <3>1 DEF Checking
        <4>2. Cardinality(Checking') = Cardinality(Checking \ {e}) + 1
          BY <1>4, <4>1, FS_AddElement
        <4>3. permits' = MaxConn * Endpoints - Cardinality(Checking')
          BY <1>4, <1>5, <3>1, <4>2
        <4> QED
          BY <4>3 DEF PermitsAccounted, Checking
      <3>2. CASE p # "checking"
        <4>1. Checking' = Checking \ {e}
          BY <1>2, <1>5, <3>2 DEF Checking
        <4> QED
          BY <1>5, <3>2, <4>1 DEF PermitsAccounted, Checking
      <3> QED
        BY <3>1, <3>2
    <2>2. permits' \in 0..MaxConn * Endpoints
      <3>1. Checking' \in SUBSET Endpoint
        BY DEF Checking
      <3>2. MaxConn * Endpoints - Cardinality(Checking') \in 0..MaxConn * Endpoints
        BY <3>1, PermitsBound
      <3> QED
        BY <2>1, <3>2 DEF PermitsAccounted, Checking
    <2>3. PoolTypeOK'
      BY <1>1, <1>5, <2>2 DEF PoolTypeOK, clientVars
    <2>4. PoolPlaces'
      BY <1>1, <1>2, <1>5 DEF PoolPlaces, clientVars
    <2>5. OneOwner'
      <3>1. ASSUME x # NoChannel
            PROVE  /\ x \notin Pooled'
                   /\ \A f \in Endpoint : f # e => trial[f] # x
                   /\ \A c \in Clients : holds[c] # x
        <4>1. x \notin InUse
          BY <1>5, <3>1 DEF NewChannel
        <4> QED
          BY <4>1 DEF InUse
      <3>2. holds' = holds
        BY DEF clientVars
      <3> QED
        BY <1>1, <1>5, <3>1, <3>2, TrialChanges
    <2> QED
      BY <2>1, <2>3, <2>4, <2>5 DEF PoolInv
  <1>6. CASE /\ trial' = [trial EXCEPT ![e] = NoChannel] /\ health' = hs
             /\ checker' = [checker EXCEPT ![e] = "rest"] /\ permits' = free
    BY <1>5, <1>6
  <1>7. ASSUME NEW ch \in Channels, NewChannel(ch), trial' = [trial EXCEPT ![e] = ch],
               health' = [hs EXCEPT ![ch] = FALSE],
               checker' = [checker EXCEPT ![e] = "checking"], permits' = free - 1
        PROVE  PoolInv'
    <2>1. health' \in [Channels -> BOOLEAN] /\ ch # NoChannel
      BY <1>7, PoolNullsAssumption
    <2> QED
      BY <1>5, <1>7, <2>1
  <1> QED
    BY <1>6, <1>7 DEF WarmOn

LEMMA HealthPermitInv ==
    ASSUME PoolInv, NEW e \in Endpoint, HealthPermit(e)
    PROVE  PoolInv'
  <1>1. PoolTypeOK /\ PoolPlaces /\ PooledOnce /\ PermitsAccounted
    BY OneOwnerParts DEF PoolInv
  <1>2. PICK f \in Kept(pools[e]) :
           /\ pools' = [pools EXCEPT ![e] = [i \in DOMAIN f |-> pools[e][f[i]]]]
           /\ WarmOn(e, [i \in DOMAIN f |-> pools[e][f[i]]], health, permits)
    BY DEF HealthPermit
  <1> DEFINE valid == [i \in DOMAIN f |-> pools[e][f[i]]]
  <1>3. pools[e] \in Seq(Channels)
    BY <1>1 DEF PoolTypeOK
  <1>4. PartOf(valid, pools[e])
    BY <1>3, KeptPart
  <1> HIDE DEF valid
  <1>5. /\ pools' \in [Endpoint -> Seq(Channels)]
        /\ \A h \in Endpoint : Len(pools'[h]) <= MaxConn
        /\ PooledOnce' /\ Pooled' \subseteq Pooled
    BY <1>1, <1>2, <1>4, ShrunkPools DEF valid
  <1>6. Pooled' \subseteq (Pooled \cup {trial[e]}) \ {NoChannel}
    BY <1>1, <1>5, PooledAreChannels
  <1>7. permits = MaxConn * Endpoints - Cardinality(Checking \ {e})
    <2>1. Checking \ {e} = Checking
      BY DEF HealthPermit, Checking
    <2> QED
      BY <1>1, <2>1 DEF PermitsAccounted, Checking
  <1>8. /\ health \in [Channels -> BOOLEAN]
        /\ UNCHANGED <<strategy, index, task>> /\ UNCHANGED clientVars
    BY <1>1 DEF PoolTypeOK, HealthPermit
  <1> QED
    BY <1>2, <1>5, <1>6, <1>7, <1>8, WarmStep DEF valid

LEMMA HealthCheckedInv ==
    ASSUME PoolInv, NEW e \in Endpoint, HealthChecked(e)
    PROVE  PoolInv'
  <1>1. PoolTypeOK /\ PoolPlaces /\ PooledOnce /\ TriedAlone /\ PermitsAccounted
    BY OneOwnerParts DEF PoolInv
  <1>2. PICK serving \in BOOLEAN :
           LET q == IF serving THEN Pushed(pools[e], trial[e]) ELSE pools[e]
           IN  /\ pools' = [pools EXCEPT ![e] = q]
               /\ WarmOn(e, q, [health EXCEPT ![trial[e]] = serving], permits + 1)
    BY DEF HealthChecked
  <1> DEFINE q == IF serving THEN Pushed(pools[e], trial[e]) ELSE pools[e]
  <1>3. /\ trial[e] \in Channels /\ trial[e] \notin Pooled /\ trial[e] # NoChannel
        /\ checker[e] = "checking"
    BY <1>1 DEF HealthChecked, PoolPlaces, TriedAlone, PoolTypeOK
  <1>4. Pooled \subseteq Channels /\ NoChannel \notin Pooled
    BY <1>1, PooledAreChannels
  <1>5. /\ pools' \in [Endpoint -> Seq(Channels)]
        /\ \A h \in Endpoint : Len(pools'[h]) <= MaxConn
        /\ PooledOnce' /\ Pooled' \subseteq Pooled \cup {trial[e]}
    <2>1. CASE serving
      BY <1>1, <1>2, <1>3, <2>1, GrownPools
    <2>2. CASE ~serving
      <3>1. pools' = pools
        BY <1>1, <1>2, <2>2 DEF PoolTypeOK
      <3> QED
        BY <3>1, SamePools
    <2> QED
      BY <2>1, <2>2
  <1>6. Pooled' \subseteq (Pooled \cup {trial[e]}) \ {NoChannel}
    BY <1>3, <1>4, <1>5
  <1>7. permits + 1 = MaxConn * Endpoints - Cardinality(Checking \ {e})
    <2>1. Checking \in SUBSET Endpoint /\ e \in Checking
      BY <1>3 DEF Checking
    <2>2. /\ IsFiniteSet(Checking) /\ Cardinality(Checking) \in Nat
          /\ MaxConn * Endpoints \in Nat
      BY <2>1, PermitsBound
    <2>3. Cardinality(Checking \ {e}) = Cardinality(Checking) - 1
      BY <2>1, <2>2, FS_RemoveElement
    <2>4. permits = MaxConn * Endpoints - Cardinality(Checking)
      BY <1>1 DEF PermitsAccounted, Checking
    <2> QED
      BY <2>2, <2>3, <2>4
  <1>8. /\ [health EXCEPT ![trial[e]] = serving] \in [Channels -> BOOLEAN]
        /\ UNCHANGED <<strategy, index, task>> /\ UNCHANGED clientVars
    BY <1>1 DEF PoolTypeOK, HealthChecked
  <1> HIDE DEF q
  <1>9. WarmOn(e, q, [health EXCEPT ![trial[e]] = serving], permits + 1)
    BY <1>2 DEF q
  <1> QED
    BY <1>5, <1>6, <1>7, <1>8, <1>9, WarmStep

LEMMA ExitEndInv ==
    ASSUME PoolInv, ExitEnd
    PROVE  PoolInv'
  <1>1. PoolTypeOK /\ PoolPlaces /\ OneOwner /\ PermitsAccounted
    BY DEF PoolInv
  <1>2. permits' = MaxConn * Endpoints
    <2>1. Checking \in SUBSET Endpoint
      BY DEF Checking
    <2>2. Cardinality(Checking) \in Nat /\ MaxConn * Endpoints \in Nat
      BY <2>1, PermitsBound
    <2>3. permits = MaxConn * Endpoints - Cardinality(Checking)
      BY <1>1 DEF PermitsAccounted, Checking
    <2>4. permits' = permits + Cardinality(Checking)
      BY DEF ExitEnd, PermitsBack, Checking
    <2> QED
      BY <2>2, <2>3, <2>4
  <1>3. PermitsAccounted' /\ permits' \in 0..MaxConn * Endpoints
    <2>1. {e \in Endpoint : checker'[e] = "checking"} = {}
      BY DEF ExitEnd
    <2>2. MaxConn * Endpoints \in Nat
      BY PermitsBound
    <2>3. Cardinality({e \in Endpoint : checker'[e] = "checking"}) = 0
      BY <2>1, FS_EmptySet
    <2> QED
      BY <1>2, <2>2, <2>3 DEF PermitsAccounted
  <1>4. /\ pools' = [e \in Endpoint |-> <<>>]
        /\ \A e \in Endpoint : pools'[e] = <<>> /\ Len(pools'[e]) = 0
    BY DEF ExitEnd
  <1>5. PoolTypeOK'
    <2>1. pools' \in [Endpoint -> Seq(Channels)] /\ \A e \in Endpoint : Len(pools'[e]) <= MaxConn
      BY <1>4, PoolCountsAssumption
    <2>2. health' \in [Channels -> BOOLEAN]
      BY <1>1 DEF ExitEnd, Closed, PoolTypeOK
    <2> QED
      BY <1>1, <1>3, <2>1, <2>2 DEF PoolTypeOK, ExitEnd, clientVars
  <1>6. PoolPlaces'
    BY <1>1 DEF PoolPlaces, ExitEnd, clientVars
  <1>7. Pooled' = {}
    BY <1>4 DEF Pooled
  <1>8. PooledOnce'
    BY <1>4 DEF PooledOnce
  <1>9. HeldAlone' /\ TriedAlone'
    <2>1. HeldAlone
      BY <1>1, OneOwnerParts
    <2> QED
      BY <1>7, <2>1, PoolNullsAssumption DEF HeldAlone, TriedAlone, ExitEnd, clientVars
  <1> QED
    BY <1>3, <1>5, <1>6, <1>8, <1>9, OneOwnerParts, PTL DEF PoolInv

LEMMA TaskStepInv ==
    ASSUME PoolInv, Enter \/ RoundBegin \/ ExitBegin
    PROVE  PoolInv'
  <1>1. /\ UNCHANGED <<strategy, index, pools, health, permits, trial>>
        /\ UNCHANGED clientVars
        /\ task' \in {"off", "on", "cancelled"}
        /\ \/ checker' = checker
           \/ /\ \A e \in Endpoint : checker[e] = "rest"
              /\ checker' = [e \in Endpoint |-> "permit"]
    BY DEF PoolInv, PoolTypeOK, Enter, RoundBegin, ExitBegin
  <1>2. PoolTypeOK /\ PoolPlaces /\ OneOwner /\ PermitsAccounted
    BY DEF PoolInv
  <1>3. PoolTypeOK'
    BY <1>1, <1>2 DEF PoolTypeOK, clientVars
  <1>4. PoolPlaces'
    BY <1>1, <1>2 DEF PoolPlaces, clientVars
  <1>5. PermitsAccounted'
    <2>1. {e \in Endpoint : checker'[e] = "checking"} = {e \in Endpoint : checker[e] = "checking"}
      BY <1>1
    <2> QED
      BY <1>1, <1>2, <2>1 DEF PermitsAccounted
  <1>6. OneOwner'
    BY <1>1, <1>2 DEF OneOwner, Pooled, clientVars
  <1> QED
    BY <1>3, <1>4, <1>5, <1>6 DEF PoolInv

LEMMA PoolInvInit == PoolInit => PoolInv
  <1> SUFFICES ASSUME PoolInit
               PROVE  PoolInv
    OBVIOUS
  <1>1. \A e \in Endpoint : pools[e] = <<>> /\ Len(pools[e]) = 0
    BY DEF PoolInit
  <1>2. MaxConn * Endpoints \in Nat
    BY PermitsBound
  <1>3. PoolTypeOK
    <2>1. pools \in [Endpoint -> Seq(Channels)] /\ \A e \in Endpoint : Len(pools[e]) <= MaxConn
      BY <1>1, PoolCountsAssumption DEF PoolInit
    <2> QED
      BY <1>2, <2>1, PoolCountsAssumption DEF PoolInit, PoolTypeOK
  <1>4. PoolPlaces
    BY DEF PoolInit, PoolPlaces
  <1>5. PermitsAccounted
    <2>1. {e \in Endpoint : checker[e] = "checking"} = {}
      BY DEF PoolInit
    <2>2. Cardinality({e \in Endpoint : checker[e] = "checking"}) = 0
      BY <2>1, FS_EmptySet
    <2> QED
      BY <1>2, <2>2 DEF PoolInit, PermitsAccounted
  <1>6. OneOwner
    BY <1>1 DEF PoolInit, OneOwner
  <1> QED
    BY <1>3, <1>4, <1>5, <1>6 DEF PoolInv

(* The conjunction of the type invariant, the places of the channels, the  *)
(* count of the permits and the single owner of a channel is inductive.    *)
THEOREM PoolInvariant == PoolSpec => []PoolInv
  <1>1. PoolInv /\ [PoolNext]_poolVars => PoolInv'
    <2> SUFFICES ASSUME PoolInv, [PoolNext]_poolVars
                 PROVE  PoolInv'
      OBVIOUS
    <2>1. ASSUME NEW c \in Clients,
                 \/ AcquireBegin(c) \/ HolderChecks(c) \/ ReleaseBegin(c)
                 \/ ClientStep(c)
          PROVE  PoolInv'
      BY <2>1, AcquireBeginInv, HolderChecksInv, ReleaseBeginInv, AcquirePermitInv,
         AcquireCheckedInv, AcquireRetryInv, ReleasePermitInv DEF ClientStep
    <2>2. ASSUME NEW e \in Endpoint, HealthPermit(e) \/ HealthChecked(e)
          PROVE  PoolInv'
      BY <2>2, HealthPermitInv, HealthCheckedInv
    <2>3. CASE Enter \/ RoundBegin \/ ExitBegin
      BY <2>3, TaskStepInv
    <2>4. CASE ExitEnd
      BY <2>4, ExitEndInv
    <2>5. CASE UNCHANGED poolVars
      BY <2>5 DEF poolVars, PoolInv, PoolTypeOK, PoolPlaces, PermitsAccounted, OneOwner, Pooled
    <2> QED
      BY <2>1, <2>2, <2>3, <2>4, <2>5 DEF PoolNext
  <1> QED
    BY <1>1, PoolInvInit, PTL DEF PoolSpec

(* The state of the pool is well typed: no deque outgrows its maxlen and   *)
(* the semaphore never counts below zero or above what it began with       *)
(* (client_pool.py:107-113).                                               *)
THEOREM PoolTypeCorrect == PoolSpec => []PoolTypeOK
  BY PoolInvariant, PTL DEF PoolInv

(* A channel is pooled once, or one client has it, or one health check     *)
(* (client_pool.py:149-212), however the coroutines interleave.            *)
THEOREM PoolOneOwner == PoolSpec => []OneOwner
  BY PoolInvariant, PTL DEF PoolInv

(* The semaphore is short of exactly the permits of the health checks that *)
(* wait for an answer (client_pool.py:107, 140-146).                       *)
THEOREM PoolPermitsAccounted == PoolSpec => []PermitsAccounted
  BY PoolInvariant, PTL DEF PoolInv

(* acquire() and release() need a permit only for a moment and health      *)
(* checks have at most one per endpoint: with max_conn_per_endpoint above  *)
(* one a permit is always free, so neither ever waits for the semaphore.   *)
THEOREM PoolPermitFree ==
    ASSUME MaxConn > 1
    PROVE  PoolSpec => [](permits > 0)
  <1>1. PoolInv => permits > 0
    <2> SUFFICES ASSUME PoolInv
                 PROVE  permits > 0
      OBVIOUS
    <2>1. Checking \in SUBSET Endpoint
      BY DEF Checking
    <2>2. IsFiniteSet(Endpoint) /\ Cardinality(Endpoint) = Endpoints
      BY PoolCountsAssumption, FS_Interval DEF Endpoint
    <2>3. Cardinality(Checking) \in Nat /\ Cardinality(Checking) <= Endpoints
      BY <2>1, <2>2, FS_Subset, FS_CardinalityType
    <2>4. MaxConn * Endpoints \in Nat /\ Endpoints < MaxConn * Endpoints
      BY PoolCountsAssumption
    <2>5. permits = MaxConn * Endpoints - Cardinality(Checking)
      BY DEF PoolInv, PermitsAccounted, Checking
    <2> QED
      BY <2>3, <2>4, <2>5, PoolCountsAssumption
  <1> QED
    BY <1>1, PoolInvariant, PTL

(* A health check that waits for an answer finds room for its channel. *)
WarmRoom == \A e \in Endpoint : checker[e] = "checking" => Len(pools[e]) < MaxConn

(* With max_idle_conn below max_conn_per_endpoint a release leaves that    *)
(* room, and so does everything else.                                      *)
LEMMA WarmRoomStep ==
    ASSUME MaxIdle < MaxConn, PoolInv, WarmRoom, PoolNext
    PROVE  WarmRoom'
  <1>1. PoolTypeOK /\ PoolPlaces
    BY DEF PoolInv
  <1>2. /\ pools \in [Endpoint -> Seq(Channels)]
        /\ \A e \in Endpoint : Len(pools[e]) \in Nat /\ Len(pools[e]) <= MaxConn
        /\ MaxConn \in Nat /\ MaxIdle \in Nat
    BY <1>1, PoolCountsAssumption DEF PoolTypeOK
  <1>3. CASE UNCHANGED <<pools, checker>>
    BY <1>3 DEF WarmRoom
  <1>4. ASSUME NEW c \in Clients, AcquirePermit(c)
        PROVE  WarmRoom'
    <2>1. CASE UNCHANGED pools
      BY <2>1, <1>3, <1>4 DEF AcquirePermit
    <2>2. CASE endpoint[c] # NoEndpoint
      <3>1. /\ pools' = [pools EXCEPT ![endpoint[c]] = Popped(pools[endpoint[c]])]
            /\ checker' = checker
        BY <1>4, <2>2 DEF AcquirePermit
      <3>2. endpoint[c] \in Endpoint /\ pools[endpoint[c]] \in Seq(Channels)
        BY <1>1, <2>2 DEF PoolTypeOK
      <3>3. /\ Len(Popped(pools[endpoint[c]])) <= Len(pools[endpoint[c]])
            /\ Len(Popped(pools[endpoint[c]])) \in Nat
        BY <3>2, PoppedPart DEF PartOf
      <3> QED
        BY <1>2, <3>1, <3>2, <3>3 DEF WarmRoom
    <2> QED
      BY <1>4, <2>1, <2>2 DEF AcquirePermit
  <1>5. ASSUME NEW c \in Clients, ReleasePermit(c)
        PROVE  WarmRoom'
    <2>1. CASE UNCHANGED pools
      BY <2>1, <1>3, <1>5 DEF ReleasePermit
    <2>2. CASE /\ Room(pools[endpoint[c]])
               /\ pools' = [pools EXCEPT ![endpoint[c]] = Pushed(@, holds[c])]
      <3>1. endpoint[c] \in Endpoint /\ holds[c] \in Channels /\ checker' = checker
        BY <1>1, <1>5 DEF ReleasePermit, PoolTypeOK, PoolPlaces
      <3>2. Len(pools[endpoint[c]]) < MaxIdle
        BY <2>2 DEF Room
      <3>3. /\ Pushed(pools[endpoint[c]], holds[c]) \in Seq(Channels)
            /\ Len(Pushed(pools[endpoint[c]], holds[c])) <= Len(pools[endpoint[c]]) + 1
        BY <1>2, <3>1, PushedFacts
      <3>4. Len(Pushed(pools[endpoint[c]], holds[c])) < MaxConn
        BY <1>2, <3>1, <3>2, <3>3
      <3> QED
        BY <1>2, <2>2, <3>1, <3>4 DEF WarmRoom
    <2> QED
      BY <1>5, <2>1, <2>2 DEF ReleasePermit
  <1>6. ASSUME NEW e \in Endpoint, NEW q, NEW hs, NEW free, WarmOn(e, q, hs, free),
               pools' = [pools EXCEPT ![e] = q]
        PROVE  WarmRoom'
    <2>1. checker \in [Endpoint -> {"rest", "permit", "checking"}]
      BY <1>1 DEF PoolTypeOK
    <2>2. \/ checker' = [checker EXCEPT ![e] = "rest"]
          \/ checker' = [checker EXCEPT ![e] = "checking"] /\ Len(q) < MaxConn
      BY <1>6 DEF WarmOn
    <2> QED
      BY <1>2, <1>6, <2>1, <2>2 DEF WarmRoom
  <1>7. ASSUME NEW e \in Endpoint, HealthPermit(e)
        PROVE  WarmRoom'
    BY <1>6, <1>7 DEF HealthPermit
  <1>8. ASSUME NEW e \in Endpoint, HealthChecked(e)
        PROVE  WarmRoom'
    BY <1>6, <1>8 DEF HealthChecked
  <1>9. CASE RoundBegin \/ ExitEnd
    BY <1>9 DEF RoundBegin, ExitEnd, WarmRoom
  <1> QED
    BY <1>3, <1>4, <1>5, <1>7, <1>8, <1>9 DEF PoolNext, ClientStep, AcquireBegin,
       HolderChecks, ReleaseBegin, AcquireChecked, AcquireRetry, Enter, ExitBegin

(* What NoneDropped says of a step. *)
NoneDroppedStep ==
    \A ch \in Pooled : health[ch] /\ task' # "off" /\ ch \notin Pooled' =>
       \E c \in Clients : holds'[c] = ch \/ (at[c] = "permit" /\ at'[c] = "idle")

LEMMA NoneDroppedInStep ==
    ASSUME MaxIdle < MaxConn, PoolInv, WarmRoom, PoolNext
    PROVE  NoneDroppedStep
  <1>1. PoolTypeOK /\ PoolPlaces
    BY DEF PoolInv
  <1>2. /\ pools \in [Endpoint -> Seq(Channels)]
        /\ \A e \in Endpoint : Len(pools[e]) \in Nat /\ Len(pools[e]) <= MaxConn
        /\ MaxConn \in Nat /\ MaxIdle \in Nat
    BY <1>1, PoolCountsAssumption DEF PoolTypeOK
  <1>3. CASE pools' = pools
    BY <1>3 DEF NoneDroppedStep, Pooled
  <1>4. ASSUME NEW e \in Endpoint, NEW r, pools' = [pools EXCEPT ![e] = r],
               \A i \in 1..Len(pools[e]) : health[pools[e][i]] =>
                  \/ \E j \in 1..Len(r) : r[j] = pools[e][i]
                  \/ \E c \in Clients :
                       holds'[c] = pools[e][i] \/ (at[c] = "permit" /\ at'[c] = "idle")
        PROVE  NoneDroppedStep
    <2> SUFFICES ASSUME NEW f \in Endpoint, NEW i \in 1..Len(pools[f]),
                        health[pools[f][i]], pools[f][i] \notin Pooled'
                 PROVE  \E c \in Clients :
                           holds'[c] = pools[f][i] \/ (at[c] = "permit" /\ at'[c] = "idle")
      BY PooledElements DEF NoneDroppedStep
    <2>1. \A h \in Endpoint : pools'[h] = IF h = e THEN r ELSE pools[h]
      BY <1>2, <1>4
    <2>2. \A h \in Endpoint : \A j \in 1..Len(pools'[h]) : pools'[h][j] \in Pooled'
      BY DEF Pooled
    <2> QED
      BY <1>4, <2>1, <2>2
  <1>5. ASSUME NEW e \in Endpoint, NEW ch \in Channels, Len(pools[e]) < MaxConn,
               pools' = [pools EXCEPT ![e] = Pushed(pools[e], ch)]
        PROVE  NoneDroppedStep
    <2>1. /\ Len(Pushed(pools[e], ch)) = Len(pools[e]) + 1
          /\ \A i \in 1..Len(pools[e]) : Pushed(pools[e], ch)[i] = pools[e][i]
      BY <1>2, <1>5 DEF Pushed
    <2>2. \A i \in 1..Len(pools[e]) :
             \E j \in 1..Len(Pushed(pools[e], ch)) : Pushed(pools[e], ch)[j] = pools[e][i]
      BY <1>2, <2>1
    <2> QED
      BY <1>4, <1>5, <2>2
  <1>6. ASSUME NEW c \in Clients, AcquirePermit(c)
        PROVE  NoneDroppedStep
    <2>1. CASE endpoint[c] = NoEndpoint
      BY <1>3, <1>6, <2>1 DEF AcquirePermit
    <2>2. CASE endpoint[c] # NoEndpoint
      <3> DEFINE q == pools[endpoint[c]]
      <3>1. endpoint[c] \in Endpoint /\ q \in Seq(Channels)
        BY <1>1, <2>2 DEF PoolTypeOK
      <3>2. /\ pools' = [pools EXCEPT ![endpoint[c]] = Popped(q)]
            /\ at[c] = "permit"
            /\ Usable(q) => Lend(c, Head(q)) \/ Leave(c)
        BY <1>6, <2>2 DEF AcquirePermit
      <3> HIDE DEF q
      <3>3. ASSUME NEW i \in 1..Len(q), health[q[i]]
            PROVE  \/ \E j \in 1..Len(Popped(q)) : Popped(q)[j] = q[i]
                   \/ \E d \in Clients :
                        holds'[d] = q[i] \/ (at[d] = "permit" /\ at'[d] = "idle")
        <4>1. /\ q # <<>> /\ Len(q) \in Nat \ {0} /\ Head(q) = q[1]
              /\ Popped(q) = Tail(q) /\ Len(Tail(q)) = Len(q) - 1
              /\ \A j \in 1..Len(Tail(q)) : Tail(q)[j] = q[j + 1]
          BY <3>1 DEF Popped
        <4>2. CASE i = 1
          <5>1. \/ holds' = [holds EXCEPT ![c] = q[1]]
                \/ at' = [at EXCEPT ![c] = "idle"]
            BY <3>2, <3>3, <4>1, <4>2 DEF Usable, Lend, Leave
          <5>2. holds'[c] = q[i] \/ at'[c] = "idle"
            BY <1>1, <4>2, <5>1 DEF PoolTypeOK
          <5> QED
            BY <3>2, <5>2
        <4>3. CASE i # 1
          <5>1. i - 1 \in 1..Len(Tail(q)) /\ Tail(q)[i - 1] = q[i]
            BY <4>1, <4>3
          <5> QED
            BY <4>1, <5>1
        <4> QED
          BY <4>2, <4>3
      <3> QED
        BY <1>4, <3>1, <3>2, <3>3 DEF q
    <2> QED
      BY <2>1, <2>2
  <1>7. ASSUME NEW c \in Clients, ReleasePermit(c)
        PROVE  NoneDroppedStep
    <2>1. endpoint[c] \in Endpoint /\ holds[c] \in Channels
      BY <1>1, <1>7 DEF ReleasePermit, PoolTypeOK, PoolPlaces
    <2>2. CASE Room(pools[endpoint[c]])
      <3>1. Len(pools[endpoint[c]]) < MaxConn
        BY <1>2, <2>1, <2>2 DEF Room
      <3>2. pools' = [pools EXCEPT ![endpoint[c]] = Pushed(pools[endpoint[c]], holds[c])]
        BY <1>7, <2>2 DEF ReleasePermit
      <3> QED
        BY <1>5, <2>1, <3>1, <3>2
    <2> QED
      BY <1>3, <1>7, <2>2 DEF ReleasePermit
  <1>8. ASSUME NEW e \in Endpoint, HealthPermit(e)
        PROVE  NoneDroppedStep
    <2>1. PICK f \in Kept(pools[e]) :
             pools' = [pools EXCEPT ![e] = [i \in DOMAIN f |-> pools[e][f[i]]]]
      BY <1>8 DEF HealthPermit
    <2> DEFINE valid == [i \in DOMAIN f |-> pools[e][f[i]]]
    <2>2. pools[e] \in Seq(Channels)
      BY <1>2
    <2>3. \A i \in 1..Len(pools[e]) : health[pools[e][i]] =>
             \E j \in 1..Len(valid) : valid[j] = pools[e][i]
      <3> DEFINE q == pools[e]
      <3>1. q \in Seq(Channels) /\ f \in Kept(q)
        BY <2>1, <2>2
      <3> HIDE DEF q
      <3>2. \A i \in 1..Len(q) : health[q[i]] =>
               \E j \in 1..Len([k \in DOMAIN f |-> q[f[k]]]) : [k \in DOMAIN f |-> q[f[k]]][j] = q[i]
        BY <3>1, KeptPart
      <3> QED
        BY <3>2, Zenon DEF q
    <2> HIDE DEF valid
    <2> QED
      BY <1>4, <2>1, <2>3 DEF valid
  <1>9. ASSUME NEW e \in Endpoint, HealthChecked(e)
        PROVE  NoneDroppedStep
    <2>1. /\ checker[e] = "checking"
          /\ \/ pools' = [pools EXCEPT ![e] = pools[e]]
             \/ pools' = [pools EXCEPT ![e] = Pushed(pools[e], trial[e])]
      BY <1>9 DEF HealthChecked
    <2>2. trial[e] \in Channels /\ Len(pools[e]) < MaxConn
      BY <1>1, <2>1 DEF PoolTypeOK, PoolPlaces, WarmRoom
    <2>3. CASE pools' = [pools EXCEPT ![e] = pools[e]]
      BY <1>2, <1>3, <2>3
    <2> QED
      BY <1>5, <2>1, <2>2, <2>3
  <1>10. CASE ExitEnd
    BY <1>10 DEF ExitEnd, NoneDroppedStep
  <1> QED
    BY <1>3, <1>6, <1>7, <1>8, <1>9, <1>10 DEF PoolNext, ClientStep, AcquireBegin,
       HolderChecks, ReleaseBegin, AcquireChecked, AcquireRetry, Enter, ExitBegin, RoundBegin

(* With max_idle_conn below max_conn_per_endpoint a healthy channel leaves *)
(* the pool only for a client or when the pool is closed: append() to the  *)
(* bounded deque never drops one (client_pool.py:113, 163-167, 207-208).   *)
THEOREM PoolNoneDropped ==
    ASSUME MaxIdle < MaxConn
    PROVE  PoolSpec => NoneDropped
  <1>1. PoolInit => WarmRoom
    BY DEF PoolInit, WarmRoom
  <1>2. PoolInv /\ WarmRoom /\ [PoolNext]_poolVars => WarmRoom'
    <2>1. WarmRoom /\ UNCHANGED poolVars => WarmRoom'
      BY DEF poolVars, WarmRoom
    <2> QED
      BY <2>1, WarmRoomStep
  <1>3. PoolInv /\ WarmRoom /\ [PoolNext]_poolVars => [NoneDroppedStep]_poolVars
    BY NoneDroppedInStep
  <1>4. NoneDropped <=> [][NoneDroppedStep]_poolVars
    BY PTL DEF NoneDropped, NoneDroppedStep
  <1> QED
    BY <1>1, <1>2, <1>3, <1>4, PoolInvariant, PTL DEF PoolSpec

----------------------------------------------------------------------------
(* KmipPool: the parts of its inductive invariant *)

KmipTypeOK ==
    /\ phase \in {"new", "opening", "open", "failed", "closing", "closed"}
    /\ queue \in Seq(Connections)
    /\ connected \subseteq Connections
    /\ op \in [Callers -> {"idle", "get", "call", "get2", "call2"}]
    /\ metadata \subseteq Callers
    /\ client \in [Callers -> Connections \cup {NoConnection}]
    /\ second \in [Callers -> Connections \cup {NoConnection}]

(* Which connections an operation has is told by where it is suspended,    *)
(* and no operation begins before the pool is open.                        *)
KmipPlaces ==
    /\ \A k \in Callers :
          /\ client[k] # NoConnection <=> op[k] \in {"call", "get2", "call2"}
          /\ second[k] # NoConnection <=> op[k] = "call2"
    /\ phase \in {"new", "opening", "failed"} => \A k \in Callers : op[k] = "idle"

(* KmipConserved does not say that two callers of _add_metadata() have     *)
(* different second connections; the proof needs it.                       *)
SecondAlone ==
    \A k, l \in Callers : second[k] # NoConnection /\ second[k] = second[l] => k = l

KmipInv == KmipTypeOK /\ KmipPlaces /\ SecondAlone /\ KmipConserved

(* The queue as a sequence without repetitions. *)
Once(q) == \A i, j \in 1..Len(q) : q[i] = q[j] => i = j
Elems(q) == {q[i] : i \in 1..Len(q)}

LEMMA QueueAppend ==
    ASSUME NEW q \in Seq(Connections), Once(q), NEW x \in Connections, x \notin Elems(q)
    PROVE  /\ Append(q, x) \in Seq(Connections)
           /\ Once(Append(q, x))
           /\ Elems(Append(q, x)) = Elems(q) \cup {x}
  <1> DEFINE r == Append(q, x)
  <1>1. /\ r \in Seq(Connections) /\ Len(q) \in Nat /\ Len(r) = Len(q) + 1
        /\ \A i \in 1..Len(q) : r[i] = q[i]
        /\ r[Len(q) + 1] = x
    OBVIOUS
  <1> HIDE DEF r
  <1>2. \A i \in 1..Len(q) : q[i] # x
    BY DEF Elems
  <1>3. \A i \in 1..Len(r) : i \in 1..Len(q) \/ i = Len(q) + 1
    BY <1>1
  <1>4. \A i \in 1..Len(q) : i \in 1..Len(r)
    BY <1>1
  <1>5. Len(q) + 1 \in 1..Len(r)
    BY <1>1
  <1>6. Once(r)
    BY <1>1, <1>2, <1>3 DEF Once
  <1>7. Elems(r) = Elems(q) \cup {x}
    BY <1>1, <1>3, <1>4, <1>5 DEF Elems
  <1> QED
    BY <1>1, <1>6, <1>7 DEF r

LEMMA QueueTail ==
    ASSUME NEW q \in Seq(Connections), Once(q), q # <<>>
    PROVE  /\ Tail(q) \in Seq(Connections)
           /\ Head(q) \in Connections /\ Head(q) \in Elems(q)
           /\ Once(Tail(q))
           /\ Elems(Tail(q)) = Elems(q) \ {Head(q)}
  <1> DEFINE r == Tail(q)
  <1>1. /\ r \in Seq(Connections) /\ Len(q) \in Nat \ {0} /\ Len(r) = Len(q) - 1
        /\ \A i \in 1..Len(r) : r[i] = q[i + 1]
        /\ Head(q) = q[1] /\ q[1] \in Connections
    OBVIOUS
  <1> HIDE DEF r
  <1>2. 1 \in 1..Len(q) /\ \A i \in 1..Len(r) : i + 1 \in 1..Len(q) /\ i + 1 # 1
    BY <1>1
  <1>3. \A i \in 1..Len(q) : i # 1 => i - 1 \in 1..Len(r) /\ r[i - 1] = q[i]
    BY <1>1
  <1>4. Once(r)
    <2> SUFFICES ASSUME NEW i \in 1..Len(r), NEW j \in 1..Len(r), r[i] = r[j]
                 PROVE  i = j
      BY DEF Once
    <2>1. i + 1 = j + 1
      BY <1>1, <1>2 DEF Once
    <2> QED
      BY <1>1, <2>1
  <1>5. Elems(r) \subseteq Elems(q) \ {q[1]}
    BY <1>1, <1>2 DEF Elems, Once
  <1>6. Elems(q) \ {q[1]} \subseteq Elems(r)
    BY <1>3 DEF Elems
  <1> QED
    BY <1>1, <1>2, <1>4, <1>5, <1>6 DEF r, Elems

(* KmipConserved in these words. *)
ClientAlone ==
    \A k, l \in Callers : client[k] # NoConnection =>
       /\ client[k] # second[l]
       /\ client[k] = client[l] => k = l

LEMMA ConservedParts ==
    KmipConserved <=> /\ Once(queue) /\ Elems(queue) \cap Held = {}
                      /\ ClientAlone
                      /\ (Using => connected \subseteq Elems(queue) \cup Held)
  BY DEF KmipConserved, Once, Elems, InQueue, ClientAlone

LEMMA ConservedNext ==
    KmipConserved' <=> /\ Once(queue') /\ Elems(queue') \cap Held' = {}
                       /\ ClientAlone'
                       /\ (Using' => connected' \subseteq Elems(queue') \cup Held')
  BY DEF KmipConserved, Once, Elems, InQueue, ClientAlone

LEMMA HeldElements ==
    \A x : x \in Held <=> \E k \in Callers : x = client[k] \/ x = second[k]
  BY DEF Held

(* Steps that move no connection: an operation begins or waits, the client *)
(* begins to close, the network drops a connection.                        *)
LEMMA NothingMoves ==
    ASSUME KmipInv, UNCHANGED <<queue, client, second>>, connected' \subseteq connected,
           KmipTypeOK', KmipPlaces', Using' => Using
    PROVE  KmipInv'
  <1>1. /\ Once(queue) /\ Elems(queue) \cap Held = {} /\ ClientAlone /\ SecondAlone
        /\ (Using => connected \subseteq Elems(queue) \cup Held)
    BY ConservedParts DEF KmipInv
  <1>2. Held' = Held
    BY DEF Held
  <1>3. SecondAlone' /\ ClientAlone'
    BY <1>1 DEF SecondAlone, ClientAlone
  <1>4. /\ Once(queue') /\ Elems(queue') \cap Held' = {}
        /\ (Using' => connected' \subseteq Elems(queue') \cup Held')
    BY <1>1, <1>2
  <1>5. KmipConserved'
    BY <1>3, <1>4, ConservedNext
  <1> QED
    BY <1>3, <1>5 DEF KmipInv

LEMMA InitPoolInv ==
    ASSUME KmipInv, InitPool
    PROVE  KmipInv'
  <1>1. KmipTypeOK /\ KmipPlaces /\ SecondAlone /\ KmipConserved
    BY DEF KmipInv
  <1>2. /\ phase \in {"new", "opening"} /\ UNCHANGED <<op, metadata, client, second>>
        /\ \A k \in Callers : op[k] = "idle"
        /\ \A k \in Callers : client[k] = NoConnection /\ second[k] = NoConnection
    BY <1>1 DEF InitPool, KmipPlaces
  <1>3. KmipPlaces'
    BY <1>1, <1>2 DEF KmipPlaces
  <1>4. ASSUME NEW x \in Connections \ InQueue, queue' = Append(queue, x),
               connected' = connected \cup {x},
               phase' \in {"open", "opening"}
        PROVE  KmipInv'
    <2>1. queue \in Seq(Connections) /\ Once(queue) /\ x \notin Elems(queue)
      BY <1>1, ConservedParts DEF KmipTypeOK, InQueue, Elems
    <2>2. /\ queue' \in Seq(Connections) /\ Once(queue')
          /\ Elems(queue') = Elems(queue) \cup {x}
      BY <1>4, <2>1, QueueAppend
    <2>3. Held' = Held /\ Held \subseteq {NoConnection}
      BY <1>2 DEF Held
    <2>4. NoConnection # x /\ Elems(queue) \cap Held = {}
          /\ (Using => connected \subseteq Elems(queue) \cup Held) /\ ClientAlone
      BY <1>1, <1>4, ConservedParts, KmipAssumption
    <2>5. /\ Elems(queue') \cap Held' = {}
          /\ (Using' => connected' \subseteq Elems(queue') \cup Held')
      BY <1>2, <1>4, <2>2, <2>3, <2>4 DEF Using
    <2>6. SecondAlone' /\ ClientAlone'
      BY <1>1, <1>2, <2>4 DEF SecondAlone, ClientAlone
    <2>7. KmipTypeOK'
      BY <1>1, <1>2, <1>4, <2>2 DEF KmipTypeOK
    <2>8. KmipConserved'
      BY <2>2, <2>5, <2>6, ConservedNext
    <2> QED
      BY <1>3, <2>6, <2>7, <2>8 DEF KmipInv
  <1>5. CASE phase' = "failed" /\ UNCHANGED <<queue, connected>>
    <2>1. KmipTypeOK'
      BY <1>1, <1>2, <1>5 DEF KmipTypeOK
    <2> QED
      BY <1>2, <1>3, <1>5, <2>1, NothingMoves DEF Using
  <1> QED
    BY <1>4, <1>5 DEF InitPool

LEMMA CloseNextInv ==
    ASSUME KmipInv, CloseNext
    PROVE  KmipInv'
  <1>1. KmipTypeOK /\ KmipPlaces /\ SecondAlone /\ KmipConserved
    BY DEF KmipInv
  <1>2. phase = "closing" /\ phase' \in {"closing", "closed"}
        /\ UNCHANGED <<op, metadata, client, second>>
    BY DEF CloseNext
  <1>3. KmipPlaces'
    BY <1>1, <1>2 DEF KmipPlaces
  <1>4. CASE queue = <<>>
    <2>1. UNCHANGED <<queue, connected>>
      BY <1>4 DEF CloseNext
    <2>2. KmipTypeOK'
      BY <1>1, <1>2, <2>1 DEF KmipTypeOK
    <2> QED
      BY <1>2, <1>3, <2>1, <2>2, NothingMoves DEF Using
  <1>5. CASE queue # <<>>
    <2>1. queue' = Tail(queue) /\ connected' \subseteq connected
      BY <1>5 DEF CloseNext
    <2>2. /\ queue \in Seq(Connections) /\ Once(queue) /\ Elems(queue) \cap Held = {}
          /\ ClientAlone /\ (Using => connected \subseteq Elems(queue) \cup Held)
      BY <1>1, ConservedParts DEF KmipTypeOK
    <2>3. /\ queue' \in Seq(Connections) /\ Once(queue')
          /\ Elems(queue') = Elems(queue) \ {Head(queue)}
      BY <1>5, <2>1, <2>2, QueueTail
    <2>4. Held' = Held
      BY <1>2 DEF Held
    <2>5. /\ Elems(queue') \cap Held' = {}
          /\ (Using' => connected' \subseteq Elems(queue') \cup Held')
      BY <1>2, <2>2, <2>3, <2>4 DEF Using
    <2>6. SecondAlone' /\ ClientAlone'
      BY <1>1, <1>2, <2>2 DEF SecondAlone, ClientAlone
    <2>7. KmipTypeOK'
      BY <1>1, <1>2, <2>1, <2>3 DEF KmipTypeOK
    <2>8. KmipConserved'
      BY <2>3, <2>5, <2>6, ConservedNext
    <2> QED
      BY <1>3, <2>6, <2>7, <2>8 DEF KmipInv
  <1> QED
    BY <1>4, <1>5

(* Taking the first connection of the queue, as the first or as the second *)
(* one of an operation.                                                    *)
LEMMA TakeInv ==
    ASSUME KmipInv, NEW k \in Callers, Acquire(k) \/ AcquireSecond(k)
    PROVE  KmipInv'
  <1>1. KmipTypeOK /\ KmipPlaces /\ SecondAlone /\ KmipConserved
    BY DEF KmipInv
  <1> DEFINE x == Head(queue)
  <1>2. /\ queue # <<>> /\ queue' = Tail(queue)
        /\ UNCHANGED <<phase, connected, metadata>>
        /\ \/ /\ op[k] = "get" /\ op' = [op EXCEPT ![k] = "call"]
              /\ client' = [client EXCEPT ![k] = x] /\ second' = second
           \/ /\ op[k] = "get2" /\ op' = [op EXCEPT ![k] = "call2"]
              /\ second' = [second EXCEPT ![k] = x] /\ client' = client
    BY DEF Acquire, AcquireSecond
  <1>3. /\ queue \in Seq(Connections) /\ Once(queue) /\ Elems(queue) \cap Held = {}
        /\ ClientAlone /\ (Using => connected \subseteq Elems(queue) \cup Held)
    BY <1>1, ConservedParts DEF KmipTypeOK
  <1>4. /\ queue' \in Seq(Connections) /\ Once(queue')
        /\ Elems(queue') = Elems(queue) \ {x}
        /\ x \in Connections /\ x \in Elems(queue)
    BY <1>2, <1>3, QueueTail
  <1> HIDE DEF x
  <1>5. /\ x # NoConnection
        /\ \A l \in Callers : client[l] # x /\ second[l] # x
    BY <1>3, <1>4, KmipAssumption, HeldElements
  <1>6. KmipTypeOK'
    BY <1>1, <1>2, <1>4 DEF KmipTypeOK
  <1>7. KmipPlaces'
    BY <1>1, <1>2, <1>5 DEF KmipPlaces, KmipTypeOK
  <1>8. SecondAlone'
    BY <1>1, <1>2, <1>5 DEF SecondAlone, KmipTypeOK
  <1>9. ClientAlone'
    BY <1>1, <1>2, <1>3, <1>5 DEF ClientAlone, KmipTypeOK
  <1>10. \A l \in Callers :
            /\ client'[l] = client[l] \/ (l = k /\ client'[l] = x /\ client[l] = NoConnection)
            /\ second'[l] = second[l] \/ (l = k /\ second'[l] = x /\ second[l] = NoConnection)
    BY <1>1, <1>2 DEF KmipTypeOK, KmipPlaces
  <1>11. x \in Held'
    BY <1>1, <1>2 DEF Held, KmipTypeOK
  <1>12. Held' \subseteq Held \cup {x}
    BY <1>10 DEF Held
  <1>13. Held \subseteq Held' \cup {NoConnection}
    BY <1>10 DEF Held
  <1>14. NoConnection \notin connected
    BY <1>1, KmipAssumption DEF KmipTypeOK
  <1>15. /\ Elems(queue') \cap Held' = {}
         /\ (Using' => connected' \subseteq Elems(queue') \cup Held')
    BY <1>2, <1>3, <1>4, <1>11, <1>12, <1>13, <1>14 DEF Using
  <1>16. KmipConserved'
    BY <1>4, <1>9, <1>15, ConservedNext
  <1> QED
    BY <1>6, <1>7, <1>8, <1>16 DEF KmipInv

(* The finally clause of an operation that has one connection. *)
LEMMA FinishInv ==
    ASSUME KmipInv, NEW k \in Callers, op[k] \in {"call", "get2"}, Finish(k),
           UNCHANGED <<phase, connected, second>>
    PROVE  KmipInv'
  <1>1. KmipTypeOK /\ KmipPlaces /\ SecondAlone /\ KmipConserved
    BY DEF KmipInv
  <1> DEFINE x == client[k]
  <1>2. /\ queue' = Released(x) /\ op' = [op EXCEPT ![k] = "idle"]
        /\ metadata' = metadata \ {k} /\ client' = [client EXCEPT ![k] = NoConnection]
    BY DEF Finish
  <1>3. /\ x \in Connections /\ x # NoConnection /\ x \in Held
        /\ second[k] = NoConnection
    BY <1>1, HeldElements DEF KmipTypeOK, KmipPlaces
  <1>4. /\ queue \in Seq(Connections) /\ Once(queue) /\ Elems(queue) \cap Held = {}
        /\ ClientAlone /\ (Using => connected \subseteq Elems(queue) \cup Held)
    BY <1>1, ConservedParts DEF KmipTypeOK
  <1>5. /\ \A l \in Callers : l # k => client'[l] = client[l] /\ client[l] # x
        /\ \A l \in Callers : second[l] # x
        /\ client'[k] = NoConnection
    BY <1>1, <1>2, <1>3, <1>4 DEF ClientAlone, KmipTypeOK
  <1> HIDE DEF x
  <1>6. /\ queue' \in Seq(Connections) /\ Once(queue')
        /\ Elems(queue') \subseteq Elems(queue) \cup {x}
        /\ Elems(queue) \subseteq Elems(queue')
        /\ x \in connected => x \in Elems(queue')
    <2>1. x \notin Elems(queue)
      BY <1>3, <1>4
    <2>2. CASE x \in connected
      <3>1. queue' = Append(queue, x)
        BY <1>2, <2>2 DEF Released
      <3>2. /\ Append(queue, x) \in Seq(Connections)
            /\ Once(Append(queue, x))
            /\ Elems(Append(queue, x)) = Elems(queue) \cup {x}
        BY <1>3, <1>4, <2>1, QueueAppend
      <3> QED
        BY <3>1, <3>2
    <2>3. CASE x \notin connected
      <3>1. queue' = queue
        BY <1>2, <2>3 DEF Released
      <3> QED
        BY <1>4, <2>3, <3>1
    <2> QED
      BY <2>2, <2>3
  <1>7. Held' \subseteq (Held \cup {NoConnection}) \ {x}
    BY <1>3, <1>5 DEF Held
  <1>8. Held \subseteq Held' \cup {x}
    BY <1>5 DEF Held, x
  <1>9. NoConnection \notin Elems(queue)
    BY <1>4, KmipAssumption DEF Elems
  <1>10. /\ Elems(queue') \cap Held' = {}
         /\ (Using' => connected' \subseteq Elems(queue') \cup Held')
    BY <1>3, <1>4, <1>6, <1>7, <1>8, <1>9 DEF Using
  <1>11. KmipTypeOK'
    BY <1>1, <1>2, <1>6 DEF KmipTypeOK
  <1>12. KmipPlaces'
    BY <1>1, <1>2, <1>3 DEF KmipPlaces, KmipTypeOK
  <1>13. SecondAlone'
    BY <1>1 DEF SecondAlone
  <1>14. ClientAlone'
    BY <1>4, <1>5 DEF ClientAlone
  <1>15. KmipConserved'
    BY <1>6, <1>10, <1>14, ConservedNext
  <1> QED
    BY <1>11, <1>12, <1>13, <1>15 DEF KmipInv

(* The two finally clauses of generate_symmetric_key() with metadata. *)
LEMMA AnswerSecondInv ==
    ASSUME KmipInv, NEW k \in Callers, AnswerSecond(k)
    PROVE  KmipInv'
  <1>1. KmipTypeOK /\ KmipPlaces /\ SecondAlone /\ KmipConserved
    BY DEF KmipInv
  <1> DEFINE x == client[k]
             y == second[k]
             between == Released(y)
  <1>2. /\ op[k] = "call2"
        /\ queue' = IF x \in connected THEN Append(between, x) ELSE between
        /\ op' = [op EXCEPT ![k] = "idle"] /\ metadata' = metadata \ {k}
        /\ client' = [client EXCEPT ![k] = NoConnection]
        /\ second' = [second EXCEPT ![k] = NoConnection]
        /\ UNCHANGED <<phase, connected>>
    BY DEF AnswerSecond
  <1>3. /\ x \in Connections /\ x # NoConnection /\ x \in Held
        /\ y \in Connections /\ y # NoConnection /\ y \in Held
    BY <1>1, <1>2, HeldElements DEF KmipTypeOK, KmipPlaces
  <1>4. /\ queue \in Seq(Connections) /\ Once(queue) /\ Elems(queue) \cap Held = {}
        /\ ClientAlone /\ (Using => connected \subseteq Elems(queue) \cup Held)
    BY <1>1, ConservedParts DEF KmipTypeOK
  <1>5. /\ \A l \in Callers : l # k => client'[l] = client[l] /\ client[l] # x
        /\ \A l \in Callers : l # k => second'[l] = second[l] /\ second[l] # y
        /\ \A l \in Callers : client[l] # y /\ second[l] # x
        /\ client'[k] = NoConnection /\ second'[k] = NoConnection
    BY <1>1, <1>2, <1>3, <1>4 DEF ClientAlone, SecondAlone, KmipTypeOK
  <1>6. x # y
    BY <1>5
  <1> HIDE DEF x, y
  <1>7. /\ between \in Seq(Connections) /\ Once(between)
        /\ Elems(between) = IF y \in connected THEN Elems(queue) \cup {y} ELSE Elems(queue)
    <2>1. y \notin Elems(queue)
      BY <1>3, <1>4
    <2>2. CASE y \in connected
      BY <1>3, <1>4, <2>1, <2>2, QueueAppend DEF Released
    <2>3. CASE y \notin connected
      BY <1>4, <2>3 DEF Released
    <2> QED
      BY <2>2, <2>3
  <1> HIDE DEF between
  <1>8. /\ queue' \in Seq(Connections) /\ Once(queue')
        /\ Elems(queue') = IF x \in connected THEN Elems(between) \cup {x} ELSE Elems(between)
    <2>1. x \notin Elems(between)
      BY <1>3, <1>4, <1>6, <1>7
    <2>2. CASE x \in connected
      BY <1>2, <1>3, <1>7, <2>1, <2>2, QueueAppend
    <2>3. CASE x \notin connected
      BY <1>2, <1>7, <2>3
    <2> QED
      BY <2>2, <2>3
  <1>9. Held' \subseteq (Held \cup {NoConnection}) \ {x, y}
    BY <1>3, <1>5 DEF Held
  <1>10. Held \subseteq Held' \cup {x, y}
    BY <1>5 DEF Held, x, y
  <1>11. NoConnection \notin Elems(queue)
    BY <1>4, KmipAssumption DEF Elems
  <1>12. Elems(queue') \cap Held' = {}
    BY <1>3, <1>4, <1>7, <1>8, <1>9, <1>11
  <1>13. (Using' => connected' \subseteq Elems(queue') \cup Held')
    BY <1>2, <1>4, <1>7, <1>8, <1>10 DEF Using
  <1>14. KmipTypeOK'
    BY <1>1, <1>2, <1>8 DEF KmipTypeOK
  <1>15. KmipPlaces'
    BY <1>1, <1>2, <1>5 DEF KmipPlaces, KmipTypeOK
  <1>16. SecondAlone'
    BY <1>1, <1>5 DEF SecondAlone
  <1>17. ClientAlone'
    BY <1>4, <1>5 DEF ClientAlone
  <1>18. KmipConserved'
    BY <1>8, <1>12, <1>13, <1>17, ConservedNext
  <1> QED
    BY <1>14, <1>15, <1>16, <1>18 DEF KmipInv

(* The steps of a caller and of the client that move no connection. *)
LEMMA WaitingInv ==
    ASSUME KmipInv, UNCHANGED <<queue, client, second>>, connected' \subseteq connected,
           \/ CloseBegin
           \/ \E x \in Connections : Disconnect(x)
           \/ \E k \in Callers : Operation(k) \/ Answer(k) \/ CancelWaiting(k)
    PROVE  KmipInv'
  <1>1. KmipTypeOK /\ KmipPlaces
    BY DEF KmipInv
  <1>2. CASE CloseBegin \/ \E x \in Connections : Disconnect(x)
    <2>1. UNCHANGED <<op, metadata>> /\ (phase' = phase \/ (phase \in {"open", "closed"} /\ phase' = "closing"))
      BY <1>2 DEF CloseBegin, Disconnect
    <2>2. KmipTypeOK'
      BY <1>1, <2>1 DEF KmipTypeOK
    <2>3. KmipPlaces'
      BY <1>1, <2>1 DEF KmipPlaces
    <2> QED
      BY <2>1, <2>2, <2>3, NothingMoves DEF Using
  <1>3. ASSUME NEW k \in Callers, Operation(k) \/ Answer(k) \/ CancelWaiting(k)
        PROVE  KmipInv'
    <2>1. \/ phase \in {"open", "closing", "closed"} /\ op[k] = "idle" /\ op' = [op EXCEPT ![k] = "get"]
          \/ op[k] = "call" /\ op' = [op EXCEPT ![k] = "get2"]
          \/ op[k] = "get" /\ op' = [op EXCEPT ![k] = "idle"]
          \/ op[k] \in {"call", "get2"} /\ Finish(k)
      BY <1>3 DEF Operation, Answer, CancelWaiting
    <2>2. metadata' \subseteq Callers /\ phase' = phase
      BY <1>1, <1>3 DEF Operation, Answer, CancelWaiting, Finish, KmipTypeOK
    <2>3. CASE op[k] \in {"call", "get2"} /\ Finish(k)
      <3>1. client[k] # NoConnection /\ client' = [client EXCEPT ![k] = NoConnection]
        BY <1>1, <2>3 DEF KmipPlaces, Finish
      <3> QED
        BY <1>1, <3>1 DEF KmipTypeOK
    <2>4. CASE ~(op[k] \in {"call", "get2"} /\ Finish(k))
      <3>1. KmipTypeOK'
        BY <1>1, <2>1, <2>2, <2>4 DEF KmipTypeOK
      <3>2. KmipPlaces'
        BY <1>1, <2>1, <2>2, <2>4 DEF KmipPlaces, KmipTypeOK
      <3> QED
        BY <2>2, <3>1, <3>2, NothingMoves DEF Using
    <2> QED
      BY <2>3, <2>4
  <1> QED
    BY <1>2, <1>3

(* The invariant of the KMIP pool is inductive. *)
THEOREM KmipInvariant == KmipSafety => []KmipInv
  <1>1. KmipInit => KmipInv
    <2> SUFFICES ASSUME KmipInit
                 PROVE  KmipInv
      OBVIOUS
    <2>1. KmipTypeOK /\ KmipPlaces /\ SecondAlone
      BY DEF KmipInit, KmipTypeOK, KmipPlaces, SecondAlone
    <2>2. Len(queue) = 0 /\ connected = {} /\ \A k \in Callers : client[k] = NoConnection
      BY DEF KmipInit
    <2>3. KmipConserved
      BY <2>2 DEF KmipConserved, InQueue
    <2> QED
      BY <2>1, <2>3 DEF KmipInv
  <1>2. KmipInv /\ [KmipNext]_kmipVars => KmipInv'
    <2> SUFFICES ASSUME KmipInv, [KmipNext]_kmipVars
                 PROVE  KmipInv'
      OBVIOUS
    <2>1. CASE InitPool \/ CloseNext
      BY <2>1, InitPoolInv, CloseNextInv
    <2>2. CASE CloseBegin \/ \E x \in Connections : Disconnect(x)
      <3>1. UNCHANGED <<queue, client, second>> /\ connected' \subseteq connected
        BY <2>2 DEF CloseBegin, Disconnect
      <3> QED
        BY <2>2, <3>1, WaitingInv
    <2>3. ASSUME NEW k \in Callers, Operation(k) \/ Answer(k) \/ Fail(k) \/ CancelWaiting(k)
          PROVE  KmipInv'
      <3>1. CASE UNCHANGED <<queue, client, second>> /\ connected' = connected /\ ~Fail(k)
        BY <2>3, <3>1, WaitingInv
      <3>2. CASE /\ op[k] \in {"call", "get2"} /\ Finish(k)
                 /\ UNCHANGED <<phase, connected, second>>
        BY <3>2, FinishInv
      <3> QED
        BY <2>3, <3>1, <3>2 DEF Operation, Answer, Fail, CancelWaiting
    <2>4. ASSUME NEW k \in Callers, Acquire(k) \/ AcquireSecond(k) \/ AnswerSecond(k)
          PROVE  KmipInv'
      BY <2>4, TakeInv, AnswerSecondInv
    <2>5. CASE UNCHANGED kmipVars
      <3>1. KmipTypeOK' /\ KmipPlaces'
        BY <2>5 DEF kmipVars, KmipInv, KmipTypeOK, KmipPlaces
      <3> QED
        BY <2>5, <3>1, NothingMoves DEF kmipVars, Using
    <2> QED
      BY <2>1, <2>2, <2>3, <2>4, <2>5 DEF KmipNext, CallerStep
  <1> QED
    BY <1>1, <1>2, PTL DEF KmipSafety

(* No connection of the KMIP pool is shared or, before close(), lost: a    *)
(* usable one is in the queue, once, or one operation holds it, whatever   *)
(* fails, disconnects or is cancelled (kmip_client.py:84-97 and the        *)
(* finally clauses).                                                       *)
THEOREM KmipConservation == KmipSafety => []KmipConserved
  BY KmipInvariant, PTL DEF KmipInv

----------------------------------------------------------------------------
(* Both pools *)

LEMMA PoolsAreParts == Spec => PoolSpec /\ KmipSafety
  <1>1. Init => PoolInit /\ KmipInit
    BY DEF Init
  <1>2. [Next]_pvars => [PoolNext]_poolVars
    BY DEF Next, Grpc, Kmip, pvars
  <1>3. [Next]_pvars => [KmipNext]_kmipVars
    BY DEF Next, Grpc, Kmip, pvars
  <1> QED
    BY <1>1, <1>2, <1>3, PTL DEF Spec, PoolSpec, KmipSafety

(* Both pools side by side: no channel has two owners, every permit is     *)
(* accounted for, and every usable KMIP connection is in one place         *)
(* (client_pool.py, kmip_client.py).                                       *)
THEOREM PoolsSafe == Spec => [](OneOwner /\ PermitsAccounted /\ KmipConserved)
  BY PoolsAreParts, PoolOneOwner, PoolPermitsAccounted, KmipConservation, PTL
=============================================================================
