----------------------------- MODULE Subscriber -----------------------------
(***************************************************************************)
(* KafkaSubscriber (src/communication/event_stream/nats/subscriber.py)     *)
(* used as a context manager, on one partition of its topics.              *)
(*                                                                         *)
(* run() polls synchronously and awaits nothing that suspends, so the      *)
(* tasks it creates for the messages run only once it has raised and       *)
(* close() has been called.  The broker and the consumer library are       *)
(* external.                                                               *)
(***************************************************************************)
EXTENDS Integers

CONSTANT Records   \* number of messages in the partition

ASSUME SubscriberAssumption == Records \in Nat

VARIABLES settings,     \* [auto: enable_auto_commit, dead_letters: has a dead_letter_topic]
          subscriber,   \* "off", "polling": in run(), or "closed": run() has raised
          subscribed,   \* the consumer has a subscription to the topics
          assignment,   \* _assignment is not empty
          fetch,        \* the offset poll() returns next
          backlog,      \* offsets whose _process_message() task has not run
          marked,       \* the committed offset of the group
          done          \* messages handled, or dropped as invalid

subscriberVars == <<settings, subscriber, subscribed, assignment, fetch, backlog, marked, done>>

SubscriberInit ==
    /\ settings \in [auto : BOOLEAN, dead_letters : BOOLEAN]
    /\ subscriber = "off" /\ subscribed = FALSE /\ assignment = FALSE
    /\ fetch = 0 /\ backlog = {} /\ marked = 0 /\ done = {}

\* __aenter__() and the beginning of run(), in a new process.
RunSubscriber ==
    /\ subscriber = "off"
    /\ subscriber' = "polling" /\ subscribed' = TRUE
    /\ UNCHANGED <<assignment, fetch, backlog, marked, done>>

OnAssign ==
    /\ subscriber = "polling" /\ subscribed /\ ~assignment
    /\ assignment' = TRUE
    /\ fetch' = marked
    /\ UNCHANGED <<subscriber, subscribed, backlog, marked, done>>

\* With enable_auto_commit the library commits what poll() has returned, in
\* the background and when the partition or the consumer is given up.
Committed == {marked} \cup (IF settings.auto /\ assignment THEN {fetch} ELSE {})

AutoCommit ==
    /\ subscriber = "polling"
    /\ marked' \in Committed
    /\ UNCHANGED <<subscriber, subscribed, assignment, fetch, backlog, done>>

OnRevoke ==
    /\ subscriber = "polling" /\ assignment
    /\ assignment' = FALSE
    /\ marked' \in Committed
    /\ UNCHANGED <<subscriber, subscribed, fetch, backlog, done>>

PollMessage ==
    /\ subscriber = "polling" /\ assignment /\ fetch < Records
    /\ backlog' = backlog \cup {fetch}
    /\ fetch' = fetch + 1
    /\ UNCHANGED <<subscriber, subscribed, assignment, marked, done>>

\* close(), which __aexit__() calls without suspending either.
CloseSubscriber ==
    /\ subscriber' = "closed"
    /\ subscribed' = FALSE /\ assignment' = FALSE
    /\ marked' \in Committed

\* A KafkaException: _rebalance_recovery() replaces the consumer.  The old
\* one may call _on_revoke() when it is closed.  A subscription to no
\* topics is accepted and nothing arrives any more; one to partitions is
\* refused, and run() raises, as it does without a new consumer.
RebalanceRecovery ==
    /\ subscriber = "polling"
    /\ \/ /\ assignment' = FALSE /\ subscribed' = FALSE
          /\ marked' \in Committed
          /\ UNCHANGED subscriber
       \/ CloseSubscriber
    /\ UNCHANGED <<fetch, backlog, done>>

\* Another exception leaves the loop.
RunRaises ==
    /\ subscriber = "polling"
    /\ CloseSubscriber
    /\ UNCHANGED <<fetch, backlog, done>>

(* The tasks. *)
\* MUTANT of LoopFree: run() awaits its polls, so that the tasks get a turn.
LoopFreeAlways == TRUE

\* The event loop is free for the tasks.
LoopFree == subscriber = "closed"

\* commit() is refused by a consumer that is closed, like the retry that
\* _handle_processing_failure() asks for, since headers() is a list.
CommitMessage(o) == marked' = IF subscriber = "polling" THEN o + 1 ELSE marked

\* The message is handled and, unless commits are automatic, committed.
Handled(o) ==
    /\ done' = done \cup {o}
    /\ IF settings.auto THEN UNCHANGED marked ELSE CommitMessage(o)

\* An invalid message is dropped when there is no dead-letter topic; with
\* one, an undefined name ends the task.
HandleInvalid(o) ==
    /\ done' = IF settings.dead_letters THEN done ELSE done \cup {o}
    /\ UNCHANGED marked

\* The handler raises, the circuit is open, or the task is cancelled at the
\* end of the program.
TaskFails == UNCHANGED <<done, marked>>

ProcessMessage(o) ==
    /\ LoopFree
    /\ backlog' = backlog \ {o}
    /\ Handled(o) \/ HandleInvalid(o) \/ TaskFails
    /\ UNCHANGED <<subscriber, subscribed, assignment, fetch>>

\* The program ends, with or without having processed its messages.
ProgramEnds ==
    /\ subscriber # "off"
    /\ subscriber' = "off" /\ subscribed' = FALSE /\ assignment' = FALSE
    /\ backlog' = {}
    /\ UNCHANGED <<fetch, marked, done>>

SubscriberNext ==
    /\ UNCHANGED settings
    /\ \/ RunSubscriber \/ OnAssign \/ OnRevoke \/ AutoCommit \/ PollMessage
       \/ RebalanceRecovery \/ RunRaises \/ ProgramEnds
       \/ \E o \in backlog : ProcessMessage(o)

SubscriberSpec == SubscriberInit /\ [][SubscriberNext]_subscriberVars
-----------------------------------------------------------------------------
(* With manual commits nothing is ever committed, whatever is assigned,    *)
(* revoked, recovered or restarted: a task that handles a message runs     *)
(* only when close() has closed the consumer it commits with               *)
(* (subscriber.py:139-170, 196-218), so a program that starts again begins *)
(* with the first message.                                                 *)
NothingCommitted == ~settings.auto => marked = 0
=============================================================================
