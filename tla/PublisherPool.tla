--------------------------- MODULE PublisherPool ---------------------------
(***************************************************************************)
(* KafkaPublisherPool of communication/event_stream/nats/publisher.py:     *)
(* transactions are bound to producers of a pool under a lock.  No call    *)
(* of a producer is awaited and nobody waits for the locks of this file    *)
(* while they are held, so every operation runs without a suspension.      *)
(***************************************************************************)
EXTENDS Integers

CONSTANTS
    Pool,        \* config.max_connections
    TxnIds,
    NoTxn, NoProducer

Producer == 0..Pool - 1

ASSUME PublisherAssumption ==
    Pool \in Nat \ {0} /\ NoTxn \notin TxnIds /\ NoProducer \notin Producer

VARIABLES
    transactions,  \* _active_transactions
    open,          \* producers that are in a transaction
    messages,      \* transaction ids of the messages in a producer's transaction
    closed,        \* producers close() has closed
    shutting_down  \* _is_shutting_down

publisherVars == <<transactions, open, messages, closed, shutting_down>>

PublisherInit ==
    /\ transactions = [t \in TxnIds |-> NoProducer]
    /\ open = {}
    /\ messages = [p \in Producer |-> {}]
    /\ closed = {}
    /\ shutting_down = FALSE

(* _get_producer(): the size of the pool modulo (the clock modulo the size *)
(* of the pool), which raises when the latter is 0 and reaches only a part *)
(* of the pool.                                                            *)
Picks == {Pool % r : r \in 1..Pool - 1}

(* A producer that is in a transaction or closed refuses. *)
BeginTransaction(t, p) ==
    /\ transactions[t] = NoProducer
    /\ p \in Picks /\ p \notin open /\ p \notin closed
    /\ transactions' = [transactions EXCEPT ![t] = p]
    /\ open' = open \cup {p}
    /\ UNCHANGED <<messages, closed, shutting_down>>

(* commit_transaction() and abort_transaction(): if the producer raises it *)
(* stays in its transaction, and the id is forgotten all the same.         *)
FinishTransaction(t) ==
    /\ transactions[t] # NoProducer
    /\ transactions' = [transactions EXCEPT ![t] = NoProducer]
    /\ \/ /\ open' = open \ {transactions[t]}
          /\ messages' = [messages EXCEPT ![transactions[t]] = {}]
       \/ UNCHANGED <<open, messages>>
    /\ UNCHANGED <<closed, shutting_down>>

(* MUTANT of OnProducer: only the existence of the transaction is checked. *)
OnProducerStale(t, p) == t # NoTxn => transactions[t] # NoProducer

OnProducer(t, p) == t # NoTxn => transactions[t] = p

(* publish() for the transaction t, or none, on the producer it picked:    *)
(* "Transaction spans multiple producers", a failing serializer and a      *)
(* closed producer raise.                                                  *)
Publish(t, p) ==
    /\ p \in Picks
    /\ OnProducer(t, p) /\ p \notin closed
    /\ messages' = IF p \in open THEN [messages EXCEPT ![p] = @ \cup {t}] ELSE messages
    /\ UNCHANGED <<transactions, open, closed, shutting_down>>

(* close(): a producer whose transaction cannot be aborted, or that cannot *)
(* be flushed, is left as it is; _active_transactions keeps its entries.   *)
ClosePublisher ==
    LET busy == {p \in Producer : \E t \in TxnIds : transactions[t] = p}
    IN  /\ ~shutting_down
        /\ shutting_down' = TRUE
        /\ \E aborted \in SUBSET busy :
             /\ closed' \in SUBSET (aborted \cup (Producer \ busy))
             /\ open' = open \ aborted
             /\ messages' = [p \in Producer |-> IF p \in aborted THEN {} ELSE messages[p]]
        /\ UNCHANGED transactions

PublisherNext ==
    \/ \E t \in TxnIds :
        FinishTransaction(t) \/ \E p \in Producer : BeginTransaction(t, p)
    \/ \E t \in TxnIds \cup {NoTxn}, p \in Producer : Publish(t, p)
    \/ ClosePublisher

PublisherSpec == PublisherInit /\ [][PublisherNext]_publisherVars

----------------------------------------------------------------------------
(* What a transaction commits was published for it or for no transaction:  *)
(* however publish() calls meet transactions that end and begin on their   *)
(* producer, or whose commit raised and left the producer in them, no      *)
(* message slips into a foreign transaction until the pool is closed       *)
(* (publisher.py:134-155, 195-198; close() at 244 forgets no id).          *)
OwnTransaction ==
    ~shutting_down =>
        \A t \in TxnIds : transactions[t] # NoProducer =>
            messages[transactions[t]] \subseteq {t, NoTxn}
=============================================================================
