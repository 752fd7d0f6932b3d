------------------------------ MODULE KmipPool -----------------------------
(***************************************************************************)
(* KMIPConnectionPool and the operations of KMIPEnterpriseClient in        *)
(* security/crypto/kmip_client.py.  Every operation takes a connection     *)
(* from an asyncio.Queue, waits for the server and gives the connection    *)
(* back in a finally clause; generate_symmetric_key() with metadata takes  *)
(* a second connection while it has the first.                             *)
(***************************************************************************)
EXTENDS Integers, FiniteSets, Sequences

CONSTANTS
    Callers,       \* coroutines that call operations of the client
    Connections,   \* the max_connections connections of init_pool()
    NoConnection

ASSUME KmipAssumption == IsFiniteSet(Connections) /\ NoConnection \notin Connections

VARIABLES
    phase,      \* of the client: before, in and after __aenter__ and close()
    queue,      \* _pool
    connected,  \* connections for which is_connected() holds
    op,         \* where the operation of each caller is suspended
    metadata,   \* callers whose generate_symmetric_key() has metadata
    client,     \* the connection an operation has
    second      \* the connection _add_metadata() has

kmipVars == <<phase, queue, connected, op, metadata, client, second>>

Held == {client[k] : k \in Callers} \cup {second[k] : k \in Callers}

KmipInit ==
    /\ phase = "new"
    /\ queue = <<>>
    /\ connected = {}
    /\ op = [k \in Callers |-> "idle"]
    /\ metadata = {}
    /\ client = [k \in Callers |-> NoConnection]
    /\ second = [k \in Callers |-> NoConnection]

InQueue == {queue[i] : i \in 1..Len(queue)}

----------------------------------------------------------------------------
(* init_pool() and close() *)

(* The next connection is opened; __aenter__ fails if that raises, and the *)
(* connections opened before stay open.                                    *)
InitPool ==
    /\ phase \in {"new", "opening"}
    /\ \/ \E x \in Connections \ InQueue :
             /\ queue' = Append(queue, x)
             /\ connected' = connected \cup {x}
             /\ phase' = IF Len(queue) + 1 = Cardinality(Connections)
                         THEN "open" ELSE "opening"
       \/ /\ phase' = "failed"
          /\ UNCHANGED <<queue, connected>>
    /\ UNCHANGED <<op, metadata, client, second>>

(* __aexit__ calls close(), and the application may call it again. *)
CloseBegin ==
    /\ phase \in {"open", "closed"}
    /\ phase' = "closing"
    /\ UNCHANGED <<queue, connected, op, metadata, client, second>>

(* close() takes only what is in the queue when it looks; if closing a     *)
(* connection raises, that one is gone and the others stay in the queue.   *)
CloseNext ==
    /\ phase = "closing"
    /\ \/ /\ queue = <<>>
          /\ phase' = "closed"
          /\ UNCHANGED <<queue, connected>>
       \/ /\ queue # <<>>
          /\ queue' = Tail(queue)
          /\ \/ connected' = connected \ {Head(queue)} /\ UNCHANGED phase
             \/ connected' \in {connected, connected \ {Head(queue)}} /\ phase' = "closed"
    /\ UNCHANGED <<op, metadata, client, second>>

(* External: the server or the network drops a connection. *)
Disconnect(x) ==
    /\ x \in connected
    /\ connected' = connected \ {x}
    /\ UNCHANGED <<phase, queue, op, metadata, client, second>>

----------------------------------------------------------------------------
(* An operation: generate, register, encrypt, decrypt or rotate *)

(* MUTANT of Released: the connection is not given back. *)
ReleasedNever(x) == queue

(* release() puts a connection back unless it is disconnected, and then    *)
(* nothing replaces it.  The queue has room for all connections, so put()  *)
(* does not wait.                                                          *)
Released(x) == IF x \in connected THEN Append(queue, x) ELSE queue

Operation(k) ==
    /\ phase \in {"open", "closing", "closed"}
    /\ op[k] = "idle"
    /\ op' = [op EXCEPT ![k] = "get"]
    /\ metadata' \in {metadata, metadata \cup {k}}
    /\ UNCHANGED <<phase, queue, connected, client, second>>

(* acquire(): get() waits until there is a connection; QueueEmpty is never *)
(* raised, so nothing is retried and nothing gives up.                     *)
Acquire(k) ==
    /\ op[k] = "get"
    /\ queue # <<>>
    /\ queue' = Tail(queue)
    /\ client' = [client EXCEPT ![k] = Head(queue)]
    /\ op' = [op EXCEPT ![k] = "call"]
    /\ UNCHANGED <<phase, connected, metadata, second>>

(* The finally clause of an operation, after success, failure or           *)
(* cancellation.                                                           *)
Finish(k) ==
    /\ queue' = Released(client[k])
    /\ op' = [op EXCEPT ![k] = "idle"]
    /\ metadata' = metadata \ {k}
    /\ client' = [client EXCEPT ![k] = NoConnection]

(* The server answers; a key with metadata needs a second connection. *)
Answer(k) ==
    /\ op[k] = "call"
    /\ \/ /\ k \in metadata
          /\ op' = [op EXCEPT ![k] = "get2"]
          /\ UNCHANGED <<queue, metadata, client>>
       \/ /\ k \notin metadata
          /\ Finish(k)
    /\ UNCHANGED <<phase, connected, second>>

(* The call raises. *)
Fail(k) ==
    /\ op[k] = "call"
    /\ Finish(k)
    /\ UNCHANGED <<phase, connected, second>>

AcquireSecond(k) ==
    /\ op[k] = "get2"
    /\ queue # <<>>
    /\ queue' = Tail(queue)
    /\ second' = [second EXCEPT ![k] = Head(queue)]
    /\ op' = [op EXCEPT ![k] = "call2"]
    /\ UNCHANGED <<phase, connected, metadata, client>>

(* set_attribute() is answered or raises: both connections go back, the    *)
(* second one first.                                                       *)
AnswerSecond(k) ==
    /\ op[k] = "call2"
    /\ queue' = IF client[k] \in connected
                THEN Append(Released(second[k]), client[k])
                ELSE Released(second[k])
    /\ op' = [op EXCEPT ![k] = "idle"]
    /\ metadata' = metadata \ {k}
    /\ client' = [client EXCEPT ![k] = NoConnection]
    /\ second' = [second EXCEPT ![k] = NoConnection]
    /\ UNCHANGED <<phase, connected>>

(* The caller is cancelled while it waits for a connection. *)
CancelWaiting(k) ==
    /\ \/ /\ op[k] = "get"
          /\ op' = [op EXCEPT ![k] = "idle"]
          /\ metadata' = metadata \ {k}
          /\ UNCHANGED <<queue, client>>
       \/ /\ op[k] = "get2"
          /\ Finish(k)
    /\ UNCHANGED <<phase, connected, second>>

----------------------------------------------------------------------------
CallerStep(k) == Answer(k) \/ Fail(k) \/ AnswerSecond(k)

KmipNext ==
    \/ InitPool \/ CloseBegin \/ CloseNext
    \/ \E x \in Connections : Disconnect(x)
    \/ \E k \in Callers :
        \/ Operation(k) \/ Acquire(k) \/ AcquireSecond(k)
        \/ CallerStep(k) \/ CancelWaiting(k)

(* Calls to the server end.  asyncio.Queue wakes those that wait in turn,  *)
(* but a get() that finds the queue filled may overtake one that was       *)
(* woken: that nobody is passed over for ever is more than it promises,    *)
(* and is assumed only where acquire() is shown to hang all the same.      *)
(* Connecting, closing, cancelling and calling are up to the application.  *)
KmipFairness ==
    \A k \in Callers :
        /\ WF_kmipVars(CallerStep(k))
        /\ SF_kmipVars(Acquire(k))
        /\ SF_kmipVars(AcquireSecond(k))

KmipSafety == KmipInit /\ [][KmipNext]_kmipVars

KmipSpec == KmipSafety /\ KmipFairness

----------------------------------------------------------------------------
Using == phase \notin {"closing", "closed"}

(* No connection is shared, and none is lost before close(): every usable  *)
(* connection is either in the queue, once, or held by one operation,      *)
(* whatever fails, disconnects, is cancelled or nested                     *)
(* (kmip_client.py:84-97 and the finally clauses).                         *)
KmipConserved ==
    /\ \A i, j \in 1..Len(queue) : queue[i] = queue[j] => i = j
    /\ InQueue \cap Held = {}
    /\ \A k, l \in Callers : client[k] # NoConnection =>
          /\ client[k] # second[l]
          /\ client[k] = client[l] => k = l
    /\ Using => connected \subseteq InQueue \cup Held

(* acquire() returns a connection or, as its message says, finds the pool  *)
(* exhausted and raises ("Connection pool exhausted", kmip_client.py:92),  *)
(* as long as every connection is usable and nobody closes the client.     *)
(* Refuted: callers of _add_metadata() that hold all connections wait for  *)
(* each other.                                                             *)
AcquireReturns ==
    \A k \in Callers :
        op[k] \in {"get", "get2"} ~>
            op[k] \notin {"get", "get2"} \/ ~Using \/ connected # Connections
=============================================================================
