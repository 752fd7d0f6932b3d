--------------------------- MODULE KafkaConsumer ---------------------------
(***************************************************************************)
(* KafkaConsumerGroup of communication/event_stream/kafka/                 *)
(* consumer_group.py on one partition: the consumption loop, its retries,  *)
(* rebalancing and close(), which run as coroutines of their own, and      *)
(* offsets that are committed asynchronously.  The consumer crashes and    *)
(* restarts at will.  It is used as in main(), one loop inside async with, *)
(* or freely, where a loop that was left may be run again on the same      *)
(* consumer.                                                               *)
(***************************************************************************)
EXTENDS Integers, FiniteSets

CONSTANTS
    Messages,      \* number of messages in the partition
    MaxTries,      \* attempts of retry_policy
    Batches        \* values of max_batch_size: topics with offsets before a
                   \* commit

ASSUME ConsumerAssumption ==
    Messages \in Nat /\ MaxTries \in Nat \ {0} /\ Batches \subseteq Nat \ {0}

Offset == 0..Messages - 1

VARIABLES
    config,     \* max_batch_size, whether there is a dead_letter_topic,
                \* whether WARNING is logged, and whether the consumer is
                \* used as in main()
    loop,       \* the loop is "off", "poll", "process" or "retry", or has
                \* "left" for the end of the async with block
    running,    \* _running
    assigned,   \* the partition is assigned to this consumer
    position,   \* the offset poll() returns next
    message,    \* the offset being processed
    retries,    \* the attempts _handle_retry() has made
    offsets,    \* _offset_commits: the offset of the partition, if any
    requests,   \* commits on their way to the broker
    committed,  \* the committed offset of the group
    handled,    \* messages that the loop is done with: processed, retried
                \* with success, or given up
    dropped     \* history: messages in hand when a loop was left that was
                \* not the one of main()

consumerVars == <<config, loop, running, assigned, position, message, retries, offsets,
                  requests, committed, handled, dropped>>

Config == [batch : Batches, dead_letters : BOOLEAN, warnings : BOOLEAN, scoped : BOOLEAN]

ConsumerInit ==
    /\ config \in Config
    /\ loop = "off" /\ running = FALSE /\ assigned = FALSE
    /\ position = 0 /\ message = 0 /\ retries = 0
    /\ offsets = {} /\ requests = {}
    /\ committed = 0
    /\ handled = {} /\ dropped = {}

----------------------------------------------------------------------------
(* _commit_offsets(): commit_async() is asked to commit the successor of   *)
(* every offset, and the offsets are forgotten before it answers.          *)
CommitOffsets(S) ==
    /\ requests' = requests \cup {o + 1 : o \in S}
    /\ offsets' = {}

(* on_commit: a commit that fails is only logged. *)
CommitAnswer(o) ==
    /\ o \in requests
    /\ requests' = requests \ {o}
    /\ committed' \in {committed, o}
    /\ UNCHANGED <<loop, running, assigned, position, message, retries, offsets, handled, dropped>>

(* _connect() *)
ConnectConsumer ==
    /\ ~running
    /\ config.scoped => loop = "off"
    /\ running' = TRUE
    /\ UNCHANGED <<loop, assigned, position, message, retries, offsets, requests,
                   committed, handled, dropped>>

(* _handle_rebalance() *)
Assign ==
    /\ running /\ ~assigned
    /\ assigned' = TRUE
    /\ position' = committed
    /\ UNCHANGED <<loop, running, message, retries, offsets, requests, committed, handled, dropped>>

Revoke ==
    /\ assigned
    /\ assigned' = FALSE
    /\ CommitOffsets(offsets)
    /\ UNCHANGED <<loop, running, position, message, retries, committed, handled, dropped>>

----------------------------------------------------------------------------
(* run_consumption_loop(), one at a time *)

RunLoop ==
    /\ loop = "off" /\ running
    /\ loop' = "poll"
    /\ UNCHANGED <<running, assigned, position, message, retries, offsets, requests,
                   committed, handled, dropped>>

(* MUTANT of OffsetsAtPoll: offsets are recorded before the processing. *)
OffsetsAtPollEager(o) == {o}

OffsetsAtPoll(o) == offsets

CanPoll == running /\ assigned /\ position < Messages

Poll ==
    /\ loop = "poll" /\ CanPoll
    /\ loop' = "process"
    /\ message' = position
    /\ position' = position + 1
    /\ offsets' = OffsetsAtPoll(position)
    /\ UNCHANGED <<running, assigned, retries, requests, committed, handled, dropped>>

(* The end of an iteration with the offsets S: commit if there are enough. *)
Continue(S) ==
    /\ loop' = "poll"
    /\ handled' = handled \cup {message}
    /\ IF Cardinality(S) >= config.batch
       THEN CommitOffsets(S)
       ELSE offsets' = S /\ UNCHANGED requests
    /\ UNCHANGED dropped

(* The finally clause commits; D is what the loop had in hand. *)
Leaves(D) ==
    /\ loop' = IF config.scoped THEN "left" ELSE "off"
    /\ CommitOffsets(offsets)
    /\ dropped' = IF config.scoped THEN dropped ELSE dropped \cup D
    /\ UNCHANGED handled

(* _send_to_dlq() refers to an exception that is not in its scope and      *)
(* raises; without a dead-letter topic it does nothing.                    *)
SendToDlq == IF config.dead_letters THEN Leaves({message}) ELSE Continue(offsets)

Processed ==
    /\ loop = "process"
    /\ Continue({message})
    /\ UNCHANGED <<running, assigned, position, message, retries, committed>>

Invalid ==
    /\ loop = "process"
    /\ SendToDlq
    /\ UNCHANGED <<running, assigned, position, message, retries, committed>>

(* An open circuit breaker refuses the message. *)
BreakerOpen ==
    /\ loop = "process"
    /\ Leaves({message})
    /\ UNCHANGED <<running, assigned, position, message, retries, committed>>

ProcessingFails ==
    /\ loop = "process"
    /\ loop' = "retry"
    /\ retries' = 1
    /\ UNCHANGED <<running, assigned, position, message, offsets, requests,
                   committed, handled, dropped>>

(* _handle_retry(): success is not recorded in the offsets; after a        *)
(* failure the logger, if enabled, raises at its keyword argument.         *)
RetryAnswer ==
    /\ loop = "retry"
    /\ \/ /\ Continue(offsets)
          /\ UNCHANGED retries
       \/ /\ config.warnings
          /\ Leaves({message})
          /\ UNCHANGED retries
       \/ /\ ~config.warnings /\ retries < MaxTries
          /\ retries' = retries + 1
          /\ UNCHANGED <<loop, offsets, requests, handled, dropped>>
       \/ /\ ~config.warnings /\ retries = MaxTries
          /\ SendToDlq
          /\ UNCHANGED retries
    /\ UNCHANGED <<running, assigned, position, message, committed>>

LoopEnds ==
    /\ loop = "poll" /\ ~running
    /\ Leaves({})
    /\ UNCHANGED <<running, assigned, position, message, retries, committed>>

(* The task of the loop is cancelled at any of its suspensions.  The       *)
(* thread that polls goes on, and what it gets nobody sees.                *)
CancelLoop ==
    /\ \/ loop = "poll" /\ Leaves({}) /\ UNCHANGED position
       \/ /\ loop = "poll" /\ CanPoll
          /\ Leaves({position})
          /\ position' = position + 1
       \/ loop \in {"process", "retry"} /\ Leaves({message}) /\ UNCHANGED position
    /\ UNCHANGED <<running, assigned, message, retries, committed>>

(* close(), by anybody or at the end of async with. *)
CloseConsumer ==
    /\ running \/ loop = "left"
    /\ running' = FALSE
    /\ assigned' = FALSE
    /\ loop' = IF loop = "left" THEN "off" ELSE loop
    /\ CommitOffsets(offsets)
    /\ UNCHANGED <<position, message, retries, committed, handled, dropped>>

(* The process dies; commits on their way may still arrive. *)
Crash ==
    /\ loop' = "off" /\ running' = FALSE /\ assigned' = FALSE
    /\ offsets' = {}
    /\ UNCHANGED <<position, message, retries, requests, committed, handled, dropped>>

ConsumerNext ==
    /\ UNCHANGED config
    /\ \/ \E o \in 1..Messages : CommitAnswer(o)
       \/ ConnectConsumer \/ Assign \/ Revoke \/ RunLoop
       \/ Poll \/ Processed \/ Invalid \/ BreakerOpen
       \/ ProcessingFails \/ RetryAnswer
       \/ LoopEnds \/ CancelLoop \/ CloseConsumer \/ Crash

ConsumerSpec == ConsumerInit /\ [][ConsumerNext]_consumerVars

----------------------------------------------------------------------------
(* What consumption need not come back to: used as in main(), only what    *)
(* was handled; otherwise also what a loop dropped as it was left.         *)
Settled == handled \cup dropped

Log == INSTANCE ConsumerLog WITH handled <- Settled

(* The consumer implements the log it promises.  Although rebalances and   *)
(* close() commit while a message is processed, commits overtake each      *)
(* other, the loop is cancelled and the consumer restarts, the group's     *)
(* offset never moves past a message the loop is not done with, if the     *)
(* consumer is used as in main(); used freely, it moves past a message     *)
(* only if a loop was left with that message in hand                       *)
(* (consumer_group.py:153, 166-173, 194, 244-268).                         *)
AtLeastOnce == Log!LogSpec
=============================================================================
