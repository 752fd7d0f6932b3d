---------------------------- MODULE ConsumerLog ----------------------------
(***************************************************************************)
(* What a consumer group promises about one partition: messages are        *)
(* handled one by one, and the committed offset moves, forwards or back,   *)
(* only to a place before which everything was handled.  Consumers that    *)
(* restart at the committed offset therefore see every message at least    *)
(* once.                                                                   *)
(***************************************************************************)
EXTENDS Integers

CONSTANT Messages   \* number of messages in the partition

VARIABLES
    handled,    \* offsets some consumer is done with or has dropped
    committed   \* where a restarted consumer resumes

LogInit == handled = {} /\ committed = 0

Handle(o) == handled' = handled \cup {o} /\ UNCHANGED committed

Commit(c) ==
    /\ 0..c - 1 \subseteq handled
    /\ committed' = c
    /\ UNCHANGED handled

LogNext ==
    \/ \E o \in 0..Messages - 1 : Handle(o)
    \/ \E c \in 0..Messages : Commit(c)

LogSpec == LogInit /\ [][LogNext]_<<handled, committed>>
=============================================================================
