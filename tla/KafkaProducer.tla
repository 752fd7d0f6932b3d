--------------------------- MODULE KafkaProducer ---------------------------
(***************************************************************************)
(* MessageProducer of communication/event_stream/kafka/producer.py: many   *)
(* coroutines share one producer, and with a transactional id they share   *)
(* one transaction, which _transaction_active remembers.  Every call of    *)
(* the aiokafka producer suspends the caller, and a suspended caller may   *)
(* be cancelled.  begin_transaction() takes effect as the caller resumes;  *)
(* the end of a transaction, once asked for, goes on without its caller.   *)
(***************************************************************************)
EXTENDS Integers

CONSTANTS
    Users,          \* coroutines that send, commit and close
    MaxAttempts     \* attempts of retry_policy

ASSUME ProducerAssumption == MaxAttempts \in Nat \ {0}

VARIABLES
    transactional,  \* whether config.transactional_id is set
    logs_errors,    \* whether the logger is enabled for ERROR
    producer,  \* _producer: "none", "started" or "stopped"
    active,    \* _transaction_active
    txn,       \* the producer's transaction: "none", "open" or "ending"
    at,        \* where each coroutine is suspended
    tries,     \* the attempts its send() has begun
    unreset    \* history: a caller left the end of the transaction without
               \* resetting the flag

producerVars == <<transactional, logs_errors, producer, active, txn, at, tries, unreset>>

ProducerInit ==
    /\ transactional \in BOOLEAN /\ logs_errors \in BOOLEAN
    /\ producer = "none"
    /\ active = FALSE
    /\ txn = "none"
    /\ at = [u \in Users |-> "idle"]
    /\ tries = [u \in Users |-> 0]
    /\ unreset = FALSE

Goto(u, place) == at' = [at EXCEPT ![u] = place]

(* _connect(): start() succeeds. *)
Connect ==
    /\ producer = "none"
    /\ producer' = "started"
    /\ UNCHANGED <<active, txn, at, tries, unreset>>

(* An attempt of send(): without an active transaction one is begun first. *)
Try(u, n) ==
    /\ Goto(u, IF transactional /\ ~active THEN "begin" ELSE "append")
    /\ tries' = [tries EXCEPT ![u] = n]
    /\ UNCHANGED <<producer, active, txn, unreset>>

SendBegin(u) == at[u] = "idle" /\ producer # "none" /\ Try(u, 1)

(* MUTANT of NextTry: the attempts are not counted. *)
NextTryUncounted(u) == tries[u]

NextTry(u) == tries[u] + 1

Retry(u) == at[u] = "sleep" /\ Try(u, NextTry(u))

MayRetry(u) == tries[u] < MaxAttempts

(* commit_transaction() and abort_transaction() of the library: the end is *)
(* asked for at once, in an open transaction only, and waited for.         *)
AskForEnd(u) ==
    /\ txn = "open"
    /\ txn' = "ending"
    /\ Goto(u, "end")

(* The except clause: sleep, or abort what is active and raise.  A logger  *)
(* that is enabled raises before either, at its keyword arguments.         *)
Failed(u) ==
    /\ \/ ~logs_errors /\ MayRetry(u) /\ Goto(u, "sleep") /\ UNCHANGED txn
       \/ ~logs_errors /\ ~MayRetry(u) /\ active /\ AskForEnd(u)
       \/ /\ logs_errors \/ (~MayRetry(u) /\ (active => txn # "open"))
          /\ Goto(u, "idle") /\ UNCHANGED txn
    /\ UNCHANGED <<producer, active, tries, unreset>>

(* begin_transaction() is refused unless there is none, and may fail. *)
Begin(u) ==
    /\ at[u] = "begin"
    /\ \/ Failed(u)
       \/ /\ txn = "none" /\ producer = "started"
          /\ txn' = "open"
          /\ active' = TRUE
          /\ unreset' = FALSE
          /\ Goto(u, "append")
          /\ UNCHANGED <<producer, tries>>

(* A transactional producer takes messages in an open transaction only. *)
Produce(u) ==
    /\ at[u] = "append"
    /\ \/ Failed(u)
       \/ /\ transactional => txn = "open"
          /\ producer = "started"
          /\ Goto(u, "idle")
          /\ UNCHANGED <<producer, active, txn, tries, unreset>>

CommitTransaction(u) ==
    /\ at[u] = "idle" /\ active
    /\ AskForEnd(u)
    /\ UNCHANGED <<producer, active, tries, unreset>>

(* The broker ends the transaction, whether anybody waits for it or not. *)
TransactionEnds ==
    /\ txn = "ending"
    /\ txn' = "none"
    /\ at' = [u \in Users |-> IF at[u] = "end" THEN "ended" ELSE at[u]]
    /\ UNCHANGED <<producer, active, tries, unreset>>

(* The call raises, with the transaction open still, ending or ended. *)
EndRaises(u) ==
    /\ at[u] = "end"
    /\ txn' \in {"open", "ending", "none"}
    /\ unreset' = TRUE
    /\ Goto(u, "idle")
    /\ UNCHANGED <<producer, active, tries>>

(* MUTANT of Inactive: the flag is not reset. *)
InactiveNever == active

Inactive == FALSE

Ended(u) ==
    /\ at[u] = "ended"
    /\ active' = Inactive
    /\ unreset' = FALSE
    /\ Goto(u, "idle")
    /\ UNCHANGED <<producer, txn, tries>>

(* A suspended coroutine is cancelled: nothing in its way catches that. *)
CancelUser(u) ==
    /\ at[u] # "idle"
    /\ unreset' = (unreset \/ at[u] \in {"end", "ended"})
    /\ Goto(u, "idle")
    /\ UNCHANGED <<producer, active, txn, tries>>

(* close(): with an active transaction it raises, because                  *)
(* abort_transaction() is not a method of MessageProducer.                 *)
CloseProducer(u) ==
    /\ at[u] = "idle" /\ producer = "started" /\ ~active
    /\ producer' = "stopped"
    /\ UNCHANGED <<active, txn, at, tries, unreset>>

ProducerStep(u) ==
    Retry(u) \/ Begin(u) \/ Produce(u) \/ EndRaises(u) \/ Ended(u)

ProducerNext ==
    /\ UNCHANGED <<transactional, logs_errors>>
    /\ \/ Connect \/ TransactionEnds
       \/ \E u \in Users : \/ SendBegin(u) \/ CommitTransaction(u) \/ CancelUser(u)
                           \/ CloseProducer(u) \/ ProducerStep(u)

(* Calls of the broker time out and sleeps end. *)
ProducerFairness ==
    \A u \in Users :
        WF_producerVars(ProducerStep(u) /\ UNCHANGED <<transactional, logs_errors>>)

ProducerSpec == ProducerInit /\ [][ProducerNext]_producerVars /\ ProducerFairness

----------------------------------------------------------------------------
(* The flag claims a transaction that is over, after which every message   *)
(* is refused, only until the call that ended it resumes and resets the    *)
(* flag, or after such a call was cancelled or raised; no overlapping of   *)
(* send(), commit and abort does it (producer.py:136-138, 162-164,         *)
(* 170-172).                                                               *)
StaleOnlyIfInterrupted ==
    active /\ txn = "none" => unreset \/ \E u \in Users : at[u] = "ended"

(* Every send() and commit_transaction() comes back, whatever the broker   *)
(* refuses and whoever else begins, commits or aborts the transaction.     *)
SendReturns == \A u \in Users : at[u] # "idle" ~> at[u] = "idle"
=============================================================================
