---------------------------- MODULE StreamsProofs --------------------------
(* Proofs about the clients of the event stream and the gRPC server, for   *)
(* any coroutines, messages, transactions, producers and calls.            *)
EXTENDS MCStreams, TLAPS

----------------------------------------------------------------------------
(* MessageProducer *)

Places == {"idle", "begin", "append", "sleep", "end", "ended"}

(* Somebody waits for the end of the transaction only while it is ending,  *)
(* and is alone in that; a flag that is set without an open transaction    *)
(* has somebody to reset it, or a caller that left without doing so.       *)
ProducerInv ==
    /\ at \in [Users -> Places]
    /\ \A u \in Users : at[u] = "end" => txn = "ending"
    /\ \A u, v \in Users : at[u] = "end" /\ at[v] = "end" => u = v
    /\ active /\ txn # "open" => unreset \/ \E u \in Users : at[u] \in {"end", "ended"}

(* The flag _transaction_active outlives a transaction only until the call *)
(* that ended it resumes, or after such a call was cancelled or raised     *)
(* (producer.py:136-138, 162-164, 170-172), whoever else begins, sends,    *)
(* commits and fails.                                                      *)
THEOREM ProducerStaleOnlyIfInterrupted == ProducerSpec => []StaleOnlyIfInterrupted
  <1>1. ProducerInit => ProducerInv
    BY DEF ProducerInit, ProducerInv, Places
  <1>2. ProducerInv /\ [ProducerNext]_producerVars => ProducerInv'
    <2> SUFFICES ASSUME ProducerInv, [ProducerNext]_producerVars
                 PROVE  ProducerInv'
      OBVIOUS
    <2>1. /\ at \in [Users -> Places]
          /\ \A u \in Users : at[u] = "end" => txn = "ending"
          /\ \A u, v \in Users : at[u] = "end" /\ at[v] = "end" => u = v
          /\ active /\ txn # "open" => unreset \/ \E u \in Users : at[u] \in {"end", "ended"}
      BY DEF ProducerInv
    <2>2. CASE UNCHANGED <<active, txn, at, unreset>>
      BY <2>1, <2>2 DEF ProducerInv
    <2>3. ASSUME NEW u \in Users, NEW place \in Places \ {"end", "ended"},
                 at[u] \notin {"end", "ended"},
                 Goto(u, place), UNCHANGED <<active, txn, unreset>>
          PROVE  ProducerInv'
      BY <2>1, <2>3 DEF ProducerInv, Goto
    <2>4. ASSUME NEW u \in Users, AskForEnd(u), UNCHANGED <<active, unreset>>
          PROVE  ProducerInv'
      <3>1. txn = "open" /\ txn' = "ending" /\ at' = [at EXCEPT ![u] = "end"]
        BY <2>4 DEF AskForEnd, Goto
      <3>2. \A v \in Users : at[v] # "end"
        BY <2>1, <3>1
      <3>3. at' \in [Users -> Places] /\ at'[u] = "end"
        BY <2>1, <3>1 DEF Places
      <3>4. \A v \in Users : at'[v] = "end" => v = u
        BY <2>1, <3>1, <3>2
      <3> QED
        BY <3>1, <3>3, <3>4 DEF ProducerInv
    <2>5. ASSUME NEW u \in Users, at[u] \notin {"end", "ended"}, Failed(u)
          PROVE  ProducerInv'
      <3>1. UNCHANGED <<active, unreset>>
        BY <2>5 DEF Failed
      <3>2. CASE AskForEnd(u)
        BY <2>4, <3>1, <3>2
      <3>3. CASE Goto(u, "sleep") /\ UNCHANGED txn
        BY <2>3, <2>5, <3>1, <3>3 DEF Places
      <3>4. CASE Goto(u, "idle") /\ UNCHANGED txn
        BY <2>3, <2>5, <3>1, <3>4 DEF Places
      <3> QED
        BY <2>5, <3>2, <3>3, <3>4 DEF Failed
    <2>6. ASSUME NEW u \in Users, SendBegin(u) \/ Retry(u)
          PROVE  ProducerInv'
      <3>1. /\ at[u] \notin {"end", "ended"} /\ UNCHANGED <<active, txn, unreset>>
            /\ Goto(u, "begin") \/ Goto(u, "append")
        BY <2>6 DEF SendBegin, Retry, Try
      <3> QED
        BY <2>3, <3>1 DEF Places
    <2>7. ASSUME NEW u \in Users, CommitTransaction(u)
          PROVE  ProducerInv'
      BY <2>4, <2>7 DEF CommitTransaction
    <2>8. ASSUME NEW u \in Users, Begin(u)
          PROVE  ProducerInv'
      <3>1. CASE Failed(u)
        BY <2>5, <2>8, <3>1 DEF Begin
      <3>2. CASE txn = "none" /\ txn' = "open" /\ Goto(u, "append")
        <4>1. at' \in [Users -> Places] /\ \A v \in Users : at'[v] # "end"
          BY <2>1, <3>2 DEF Goto, Places
        <4> QED
          BY <3>2, <4>1 DEF ProducerInv
      <3> QED
        BY <2>8, <3>1, <3>2 DEF Begin
    <2>9. ASSUME NEW u \in Users, Produce(u)
          PROVE  ProducerInv'
      BY <2>3, <2>5, <2>9 DEF Produce, Places
    <2>10. CASE TransactionEnds
      <3>1. /\ txn' = "none" /\ UNCHANGED <<active, unreset>> /\ txn = "ending"
            /\ at' = [u \in Users |-> IF at[u] = "end" THEN "ended" ELSE at[u]]
        BY <2>10 DEF TransactionEnds
      <3>2. at' \in [Users -> Places] /\ \A u \in Users : at'[u] # "end"
        BY <2>1, <3>1 DEF Places
      <3>3. \A u \in Users : at[u] \in {"end", "ended"} => at'[u] = "ended"
        BY <3>1
      <3> QED
        BY <2>1, <3>1, <3>2, <3>3 DEF ProducerInv
    <2>11. ASSUME NEW u \in Users, at[u] = "end", Goto(u, "idle"), unreset'
           PROVE  ProducerInv'
      <3>1. at' \in [Users -> Places] /\ \A v \in Users : at'[v] # "end"
        BY <2>1, <2>11 DEF Goto, Places
      <3> QED
        BY <2>11, <3>1 DEF ProducerInv
    <2>12. ASSUME NEW u \in Users, EndRaises(u)
           PROVE  ProducerInv'
      BY <2>11, <2>12 DEF EndRaises
    <2>13. ASSUME NEW u \in Users, Goto(u, "idle"), txn' = txn, unreset' \/ ~active'
           PROVE  ProducerInv'
      <3>1. /\ at' \in [Users -> Places]
            /\ \A v \in Users : at'[v] = "end" => at[v] = "end"
        BY <2>1, <2>13 DEF Goto, Places
      <3> QED
        BY <2>1, <2>13, <3>1 DEF ProducerInv
    <2>14. ASSUME NEW u \in Users, Ended(u)
           PROVE  ProducerInv'
      BY <2>13, <2>14 DEF Ended, Inactive
    <2>15. ASSUME NEW u \in Users, CancelUser(u)
           PROVE  ProducerInv'
      <3>1. CASE at[u] \in {"end", "ended"}
        BY <2>13, <2>15, <3>1 DEF CancelUser
      <3>2. CASE at[u] \notin {"end", "ended"}
        <4>1. CASE unreset
          BY <2>13, <2>15, <4>1 DEF CancelUser
        <4>2. CASE ~unreset
          <5>1. unreset' = FALSE /\ txn' = txn /\ active' = active /\ Goto(u, "idle")
            BY <2>15, <3>2, <4>2 DEF CancelUser
          <5>2. /\ at' \in [Users -> Places]
                /\ \A v \in Users : at[v] \in {"end", "ended"} <=> at'[v] \in {"end", "ended"}
                /\ \A v \in Users : at'[v] = "end" => at[v] = "end"
            BY <2>1, <3>2, <5>1 DEF Goto, Places
          <5> QED
            BY <2>1, <4>2, <5>1, <5>2 DEF ProducerInv
        <4> QED
          BY <4>1, <4>2
      <3> QED
        BY <3>1, <3>2
    <2> QED
      BY <2>2, <2>6, <2>7, <2>8, <2>9, <2>10, <2>12, <2>14, <2>15
         DEF ProducerNext, ProducerStep, producerVars, Connect, CloseProducer
  <1>3. ProducerInv => StaleOnlyIfInterrupted
    BY DEF ProducerInv, StaleOnlyIfInterrupted
  <1> QED
    BY <1>1, <1>2, <1>3, PTL DEF ProducerSpec

----------------------------------------------------------------------------
(* KafkaPublisherPool *)

PublisherTypeOK ==
    /\ transactions \in [TxnIds -> Producer \cup {NoProducer}]
    /\ open \subseteq Producer
    /\ messages \in [Producer -> SUBSET (TxnIds \cup {NoTxn})]
    /\ shutting_down \in BOOLEAN

(* Until the pool is closed an id is bound to a producer of its own that   *)
(* is in a transaction, and a producer outside a transaction has no        *)
(* messages of one.  A producer whose commit failed stays in its           *)
(* transaction, so no other id is ever bound to it.                        *)
Bound ==
    ~shutting_down =>
       /\ \A t \in TxnIds : transactions[t] # NoProducer => transactions[t] \in open
       /\ \A t, s \in TxnIds :
             transactions[t] # NoProducer /\ transactions[t] = transactions[s] => t = s
       /\ \A p \in Producer : p \notin open => messages[p] = {}

PublisherInv == PublisherTypeOK /\ Bound /\ OwnTransaction

(* No message slips into the transaction of another id, whatever           *)
(* transactions ended or failed to end before (publisher.py:134-155,       *)
(* 195-198).                                                               *)
THEOREM PublisherOwnTransaction == PublisherSpec => []OwnTransaction
  <1>1. PublisherInit => PublisherInv
    BY DEF PublisherInit, PublisherInv, PublisherTypeOK, Bound, OwnTransaction
  <1>2. PublisherInv /\ [PublisherNext]_publisherVars => PublisherInv'
    <2> SUFFICES ASSUME PublisherInv, [PublisherNext]_publisherVars
                 PROVE  PublisherInv'
      OBVIOUS
    <2>0. PublisherTypeOK /\ Bound /\ OwnTransaction
      BY DEF PublisherInv
    <2>1. ASSUME NEW t \in TxnIds, NEW p \in Producer, BeginTransaction(t, p)
          PROVE  PublisherInv'
      <3>1. PublisherTypeOK'
        BY <2>0, <2>1 DEF BeginTransaction, PublisherTypeOK
      <3>2. p # NoProducer
        BY PublisherAssumption
      <3>3. Bound'
        BY <2>0, <2>1, <3>2 DEF BeginTransaction, Bound, PublisherTypeOK
      <3>4. OwnTransaction'
        BY <2>0, <2>1, <3>2 DEF BeginTransaction, Bound, OwnTransaction, PublisherTypeOK
      <3> QED
        BY <3>1, <3>3, <3>4 DEF PublisherInv
    <2>2. ASSUME NEW t \in TxnIds, FinishTransaction(t)
          PROVE  PublisherInv'
      <3>1. transactions[t] \in Producer
        BY <2>0, <2>2 DEF FinishTransaction, PublisherTypeOK
      <3>2. PublisherTypeOK'
        BY <2>0, <2>2, <3>1 DEF FinishTransaction, PublisherTypeOK
      <3>3. Bound'
        BY <2>0, <2>2, <3>1 DEF FinishTransaction, Bound, PublisherTypeOK
      <3>4. OwnTransaction'
        BY <2>0, <2>2, <3>1 DEF FinishTransaction, Bound, OwnTransaction, PublisherTypeOK
      <3> QED
        BY <3>2, <3>3, <3>4 DEF PublisherInv
    <2>3. ASSUME NEW u \in TxnIds \cup {NoTxn}, NEW p \in Producer, Publish(u, p)
          PROVE  PublisherInv'
      <3>1. /\ UNCHANGED <<transactions, open, shutting_down>>
            /\ \/ UNCHANGED messages
               \/ /\ OnProducer(u, p) /\ p \in open
                  /\ messages' = [messages EXCEPT ![p] = @ \cup {u}]
        BY <2>3 DEF Publish
      <3>2. PublisherTypeOK'
        BY <2>0, <3>1 DEF PublisherTypeOK
      <3>3. Bound'
        BY <2>0, <3>1 DEF Bound, PublisherTypeOK
      <3>4. OwnTransaction'
        <4>1. CASE UNCHANGED messages
          BY <2>0, <3>1, <4>1 DEF OwnTransaction
        <4>2. CASE OnProducer(u, p) /\ messages' = [messages EXCEPT ![p] = @ \cup {u}]
          <5> SUFFICES ASSUME ~shutting_down, NEW t \in TxnIds, transactions[t] # NoProducer
                       PROVE  messages'[transactions[t]] \subseteq {t, NoTxn}
            BY <3>1 DEF OwnTransaction
          <5>1. transactions[t] \in Producer /\ messages[transactions[t]] \subseteq {t, NoTxn}
            BY <2>0 DEF OwnTransaction, PublisherTypeOK
          <5>2. CASE transactions[t] = p
            <6>1. u \in {t, NoTxn}
              BY <2>0, <4>2, <5>2 DEF OnProducer, Bound
            <6>2. messages'[transactions[t]] = messages[transactions[t]] \cup {u}
              BY <2>0, <4>2, <5>1, <5>2 DEF PublisherTypeOK
            <6> QED
              BY <5>1, <6>1, <6>2
          <5>3. CASE transactions[t] # p
            BY <2>0, <4>2, <5>1, <5>3 DEF PublisherTypeOK
          <5> QED
            BY <5>2, <5>3
        <4> QED
          BY <3>1, <4>1, <4>2
      <3> QED
        BY <3>2, <3>3, <3>4 DEF PublisherInv
    <2>5. CASE ClosePublisher
      <3>1. PublisherTypeOK'
        <4>1. PICK aborted : /\ open' = open \ aborted
                             /\ messages' = [p \in Producer |-> IF p \in aborted THEN {}
                                                                ELSE messages[p]]
          BY <2>5 DEF ClosePublisher
        <4> QED
          BY <2>0, <2>5, <4>1 DEF ClosePublisher, PublisherTypeOK
      <3>2. shutting_down' = TRUE
        BY <2>5 DEF ClosePublisher
      <3> QED
        BY <3>1, <3>2 DEF PublisherInv, Bound, OwnTransaction
    <2>6. CASE UNCHANGED publisherVars
      BY <2>0, <2>6 DEF publisherVars, PublisherInv, PublisherTypeOK, Bound, OwnTransaction
    <2> QED
      BY <2>1, <2>2, <2>3, <2>5, <2>6 DEF PublisherNext
  <1>3. PublisherInv => OwnTransaction
    BY DEF PublisherInv
  <1> QED
    BY <1>1, <1>2, <1>3, PTL DEF PublisherSpec

----------------------------------------------------------------------------
(* KafkaConsumerGroup *)

(* Everything before offset o was handled or dropped. *)
DoneBefore(o) == 0..o - 1 \subseteq Settled

(* Whatever is committed, asked to be committed or recorded to be          *)
(* committed has only settled messages before it; so has the place to      *)
(* which an assigned partition was read, but for the message in work.  A   *)
(* loop of main() that was left has no such place any more, and no loop    *)
(* runs again before close() has given the partition up.                   *)
ConsumerInv ==
    /\ loop \in {"off", "poll", "process", "retry", "left"}
    /\ committed \in 0..Messages /\ DoneBefore(committed)
    /\ \A r \in requests : r \in 1..Messages /\ DoneBefore(r)
    /\ \A o \in offsets : o \in Offset /\ DoneBefore(o + 1)
    /\ loop \in {"process", "retry"} => message \in Offset /\ DoneBefore(message)
    /\ assigned /\ loop # "left" =>
          /\ position \in 0..Messages
          /\ loop \in {"off", "poll"} => DoneBefore(position)
          /\ loop \in {"process", "retry"} => 0..position - 1 \subseteq Settled \cup {message}

(* _commit_offsets() asks for what it may ask for. *)
LEMMA CommitOffsetsStep ==
    ASSUME NEW S, \A r \in requests : r \in 1..Messages /\ 0..r - 1 \subseteq Settled',
           \A o \in S : o \in Offset /\ 0..o \subseteq Settled',
           CommitOffsets(S)
    PROVE  /\ \A r \in requests' : r \in 1..Messages /\ DoneBefore(r)'
           /\ offsets' = {}
  <1>1. requests' = requests \cup {o + 1 : o \in S} /\ offsets' = {}
    BY DEF CommitOffsets
  <1>2. ASSUME NEW o \in S
        PROVE  o + 1 \in 1..Messages /\ DoneBefore(o + 1)'
    <2>1. o \in 0..Messages - 1 /\ 0..o \subseteq Settled'
      BY DEF Offset
    <2>2. o + 1 - 1 = o
      BY <2>1
    <2> QED
      BY <2>1, <2>2, ConsumerAssumption DEF DoneBefore
  <1> QED
    BY <1>1, <1>2 DEF DoneBefore

(* The recorded offsets stay committable as more is settled. *)
LEMMA RecordedStep ==
    ASSUME ConsumerInv, Settled \subseteq Settled'
    PROVE  /\ \A o \in offsets : o \in Offset /\ 0..o \subseteq Settled' /\ DoneBefore(o + 1)'
           /\ \A r \in requests : r \in 1..Messages /\ 0..r - 1 \subseteq Settled'
  <1>1. ASSUME NEW o \in offsets
        PROVE  o \in Offset /\ 0..o \subseteq Settled' /\ DoneBefore(o + 1)'
    <2>1. o \in Offset /\ 0..(o + 1) - 1 \subseteq Settled
      BY DEF ConsumerInv, DoneBefore
    <2>2. (o + 1) - 1 = o
      BY <2>1 DEF Offset
    <2> QED
      BY <2>1, <2>2 DEF DoneBefore
  <1>2. \A r \in requests : r \in 1..Messages /\ 0..r - 1 \subseteq Settled'
    BY DEF ConsumerInv, DoneBefore
  <1> QED
    BY <1>1, <1>2

(* The end of an iteration handles the message in work. *)
LEMMA ContinueStep ==
    ASSUME ConsumerInv, loop \in {"process", "retry"}, NEW S, S = offsets \/ S = {message},
           Continue(S), UNCHANGED <<running, assigned, position, message, committed>>
    PROVE  ConsumerInv' /\ message \in Offset /\ Settled' = Settled \cup {message}
  <1>1. /\ loop' = "poll" /\ Settled' = Settled \cup {message}
        /\ CommitOffsets(S) \/ (offsets' = S /\ UNCHANGED requests)
    BY DEF Continue, Settled
  <1>2. message \in Offset /\ 0..message - 1 \subseteq Settled
    BY DEF ConsumerInv, DoneBefore
  <1>3. \A o \in S : o \in Offset /\ 0..o \subseteq Settled'
    <2>1. \A o \in offsets : o \in Offset /\ 0..o \subseteq Settled'
      BY <1>1, RecordedStep
    <2>2. message \in Offset /\ 0..message \subseteq Settled'
      <3>1. 0..message = 0..message - 1 \cup {message}
        BY <1>2 DEF Offset
      <3> QED
        BY <1>1, <1>2, <3>1
    <2> QED
      BY <2>1, <2>2
  <1>4. \A r \in requests : r \in 1..Messages /\ 0..r - 1 \subseteq Settled'
    BY <1>1, RecordedStep
  <1>5. \A r \in requests' : r \in 1..Messages /\ DoneBefore(r)'
    BY <1>1, <1>3, <1>4, CommitOffsetsStep DEF DoneBefore
  <1>6. \A o \in offsets' : o \in Offset /\ DoneBefore(o + 1)'
    <2>1. ASSUME NEW o \in S
          PROVE  o \in Offset /\ DoneBefore(o + 1)'
      <3>1. (o + 1) - 1 = o
        BY <1>3 DEF Offset
      <3> QED
        BY <1>3, <3>1 DEF DoneBefore
    <2>2. offsets' = {} \/ offsets' = S
      BY <1>1 DEF CommitOffsets
    <2> QED
      BY <2>1, <2>2
  <1>7. committed' \in 0..Messages /\ DoneBefore(committed)'
    BY <1>1 DEF ConsumerInv, DoneBefore
  <1>8. assigned' => position' \in 0..Messages /\ DoneBefore(position)'
    BY <1>1 DEF ConsumerInv, DoneBefore
  <1> QED
    BY <1>1, <1>2, <1>5, <1>6, <1>7, <1>8 DEF ConsumerInv

(* Leaving the loop with D in hand: the place it had read to is given up   *)
(* or has only settled messages before it.                                 *)
LEMMA LeavesStep ==
    ASSUME ConsumerInv, NEW D, Leaves(D), UNCHANGED <<assigned, message, committed>>,
           assigned => position' \in 0..Messages /\ 0..position' - 1 \subseteq Settled \cup D
    PROVE  ConsumerInv' /\ Settled' \in {Settled, Settled \cup D}
  <1>1. /\ loop' \in {"left", "off"}
        /\ loop' = "off" => Settled' = Settled \cup D
        /\ Settled' \in {Settled, Settled \cup D}
    BY DEF Leaves, Settled
  <1>2. (\A r \in requests' : r \in 1..Messages /\ DoneBefore(r)') /\ offsets' = {}
    <2>1. CommitOffsets(offsets)
      BY DEF Leaves
    <2>2. Settled \subseteq Settled'
      BY <1>1
    <2>3. /\ \A o \in offsets : o \in Offset /\ 0..o \subseteq Settled'
          /\ \A r \in requests : r \in 1..Messages /\ 0..r - 1 \subseteq Settled'
      BY <2>2, RecordedStep
    <2> QED
      BY <2>1, <2>3, CommitOffsetsStep
  <1>3. committed' \in 0..Messages /\ DoneBefore(committed)'
    BY <1>1 DEF ConsumerInv, DoneBefore
  <1>4. assigned' /\ loop' = "off" => position' \in 0..Messages /\ DoneBefore(position)'
    BY <1>1 DEF DoneBefore
  <1> QED
    BY <1>1, <1>2, <1>3, <1>4 DEF ConsumerInv

(* Giving the partition up, which commits the recorded offsets. *)
LEMMA GiveUpStep ==
    ASSUME ConsumerInv, CommitOffsets(offsets), ~assigned',
           UNCHANGED <<message, committed, handled, dropped>>,
           loop' = loop \/ loop' = "off"
    PROVE  ConsumerInv'
  <1>1. Settled' = Settled
    BY DEF Settled
  <1>2. /\ \A o \in offsets : o \in Offset /\ 0..o \subseteq Settled'
        /\ \A r \in requests : r \in 1..Messages /\ 0..r - 1 \subseteq Settled'
    BY <1>1, RecordedStep
  <1>3. (\A r \in requests' : r \in 1..Messages /\ DoneBefore(r)') /\ offsets' = {}
    BY <1>2, CommitOffsetsStep
  <1> QED
    BY <1>1, <1>3 DEF ConsumerInv, DoneBefore

(* Every step keeps the invariant and settles one message, moves the       *)
(* committed offset to a place it may have, or changes neither.            *)
LEMMA ConsumerStep ==
    ASSUME ConsumerInv, [ConsumerNext]_consumerVars
    PROVE  ConsumerInv' /\ [Log!LogNext]_<<Settled, committed>>
  <1>1. ASSUME NEW S, S = offsets \/ S = {message}, loop \in {"process", "retry"},
               Continue(S), UNCHANGED <<running, assigned, position, message, committed>>
        PROVE  ConsumerInv' /\ Log!LogNext
    <2>1. ConsumerInv' /\ message \in Offset /\ Settled' = Settled \cup {message}
      BY <1>1, ContinueStep
    <2> QED
      BY <1>1, <2>1 DEF Log!LogNext, Log!Handle, Offset
  <1>2. ASSUME loop \in {"process", "retry"}, Leaves({message}),
               UNCHANGED <<assigned, position, message, committed>>
        PROVE  ConsumerInv' /\ [Log!LogNext]_<<Settled, committed>>
    <2>1. message \in Offset
      BY <1>2 DEF ConsumerInv
    <2>2. assigned => position' \in 0..Messages /\ 0..position' - 1 \subseteq Settled \cup {message}
      BY <1>2 DEF ConsumerInv
    <2>3. ConsumerInv' /\ Settled' \in {Settled, Settled \cup {message}}
      BY <1>2, <2>2, LeavesStep
    <2> QED
      BY <1>2, <2>1, <2>3 DEF Log!LogNext, Log!Handle, Offset
  <1>3. CASE Processed
    BY <1>1, <1>3 DEF Processed
  <1>4. CASE Invalid \/ BreakerOpen
    BY <1>1, <1>2, <1>4 DEF Invalid, BreakerOpen, SendToDlq
  <1>5. CASE RetryAnswer
    <2>1. CASE Continue(offsets) \/ Leaves({message})
      BY <1>1, <1>2, <1>5, <2>1 DEF RetryAnswer
    <2>2. CASE SendToDlq
      BY <1>1, <1>2, <1>5, <2>2 DEF RetryAnswer, SendToDlq
    <2>3. CASE UNCHANGED <<loop, offsets, requests, handled, dropped>>
      BY <1>5, <2>3 DEF RetryAnswer, ConsumerInv, DoneBefore, Settled
    <2> QED
      BY <1>5, <2>1, <2>2, <2>3 DEF RetryAnswer
  <1>6. CASE Revoke \/ CloseConsumer
    <2>1. ConsumerInv'
      BY <1>6, GiveUpStep DEF Revoke, CloseConsumer
    <2>2. UNCHANGED <<Settled, committed>>
      BY <1>6 DEF Revoke, CloseConsumer, Settled
    <2> QED
      BY <2>1, <2>2
  <1>7. ASSUME NEW o \in 1..Messages, CommitAnswer(o)
        PROVE  ConsumerInv' /\ [Log!LogNext]_<<Settled, committed>>
    <2>1. /\ o \in requests /\ requests' \subseteq requests /\ committed' \in {committed, o}
          /\ UNCHANGED <<loop, running, assigned, position, message, offsets>>
          /\ Settled' = Settled
      BY <1>7 DEF CommitAnswer, Settled
    <2>2. o \in 0..Messages /\ 0..o - 1 \subseteq Settled
      BY <2>1 DEF ConsumerInv, DoneBefore
    <2>3. ConsumerInv'
      BY <2>1, <2>2 DEF ConsumerInv, DoneBefore
    <2>4. Log!Commit(o) \/ UNCHANGED <<Settled, committed>>
      BY <2>1, <2>2 DEF Log!Commit
    <2> QED
      BY <2>2, <2>3, <2>4 DEF Log!LogNext
  <1>8. ASSUME CanPoll, loop = "poll"
        PROVE  /\ position \in Offset /\ 0..position - 1 \subseteq Settled
               /\ position + 1 \in 0..Messages
               /\ 0..(position + 1) - 1 = 0..position - 1 \cup {position}
    <2>1. position \in Offset /\ 0..position - 1 \subseteq Settled /\ position + 1 \in 0..Messages
      BY <1>8, ConsumerAssumption DEF CanPoll, ConsumerInv, DoneBefore, Offset
    <2> QED
      BY <2>1 DEF Offset
  <1>9. CASE Poll
    <2>1. /\ loop' = "process"
          /\ message' = position /\ position' = position + 1 /\ offsets' = offsets
          /\ UNCHANGED <<assigned, requests, committed>> /\ Settled' = Settled
      BY <1>9 DEF Poll, OffsetsAtPoll, Settled
    <2>2. ConsumerInv'
      BY <1>8, <1>9, <2>1 DEF Poll, ConsumerInv, DoneBefore
    <2> QED
      BY <2>1, <2>2
  <1>10. ASSUME loop = "poll", Leaves({}), UNCHANGED <<assigned, position, message, committed>>
         PROVE  ConsumerInv' /\ UNCHANGED <<Settled, committed>>
    <2>1. assigned => position' \in 0..Messages /\ 0..position' - 1 \subseteq Settled \cup {}
      BY <1>10 DEF ConsumerInv, DoneBefore
    <2> QED
      BY <1>10, <2>1, LeavesStep
  <1>11. CASE LoopEnds
    BY <1>10, <1>11 DEF LoopEnds
  <1>12. CASE CancelLoop
    <2>1. CASE loop = "poll" /\ Leaves({}) /\ UNCHANGED position
      BY <1>10, <1>12, <2>1 DEF CancelLoop
    <2>2. CASE loop \in {"process", "retry"} /\ Leaves({message}) /\ UNCHANGED position
      BY <1>2, <1>12, <2>2 DEF CancelLoop
    <2>3. CASE loop = "poll" /\ CanPoll /\ Leaves({position}) /\ position' = position + 1
      <3>1. /\ position \in Offset
            /\ position' \in 0..Messages /\ 0..position' - 1 \subseteq Settled \cup {position}
        BY <1>8, <2>3
      <3>2. ConsumerInv' /\ Settled' \in {Settled, Settled \cup {position}}
        BY <1>12, <2>3, <3>1, LeavesStep DEF CancelLoop
      <3> QED
        BY <1>12, <3>1, <3>2 DEF CancelLoop, Log!LogNext, Log!Handle, Offset
    <2> QED
      BY <1>12, <2>1, <2>2, <2>3 DEF CancelLoop
  <1>13. CASE ConnectConsumer \/ RunLoop \/ Assign \/ ProcessingFails \/ Crash
              \/ UNCHANGED consumerVars
    <2>1. /\ UNCHANGED <<Settled, requests, committed>>
          /\ offsets' \subseteq offsets
      BY <1>13 DEF ConnectConsumer, RunLoop, Assign, ProcessingFails, Crash, consumerVars, Settled
    <2>2. ConsumerInv'
      BY <1>13, <2>1 DEF ConnectConsumer, RunLoop, Assign, ProcessingFails, Crash, consumerVars,
         ConsumerInv, DoneBefore
    <2> QED
      BY <2>1, <2>2
  <1> QED
    BY <1>3, <1>4, <1>5, <1>6, <1>7, <1>9, <1>11, <1>12, <1>13 DEF ConsumerNext

LEMMA ConsumerInitial == ConsumerInit => ConsumerInv /\ Log!LogInit
  BY ConsumerAssumption DEF ConsumerInit, ConsumerInv, DoneBefore, Settled, Log!LogInit

(* The consumer group implements the log of ConsumerLog for any number of  *)
(* messages, attempts and batch sizes: no commit, however late, moves the  *)
(* group past a message the loop is not done with, if the consumer is used *)
(* as in main(), nor otherwise past one that no loop had in hand when it   *)
(* was left (consumer_group.py:153, 166-173, 194, 244-268).                *)
THEOREM ConsumerImplementsLog == ConsumerSpec => AtLeastOnce
  BY ConsumerInitial, ConsumerStep, PTL DEF ConsumerSpec, AtLeastOnce, Log!LogSpec

----------------------------------------------------------------------------
(* KafkaSubscriber *)

(* With manual commits the subscriber never commits anything: the tasks    *)
(* that would run when the consumer is closed, whatever is assigned,       *)
(* revoked, recovered or restarted (subscriber.py:139-170, 196-218).       *)
THEOREM SubscriberNeverCommits == SubscriberSpec => []NothingCommitted
  <1>1. SubscriberInit => NothingCommitted
    BY DEF SubscriberInit, NothingCommitted
  <1>2. NothingCommitted /\ [SubscriberNext]_subscriberVars => NothingCommitted'
    <2> SUFFICES ASSUME NothingCommitted, [SubscriberNext]_subscriberVars
                 PROVE  NothingCommitted'
      OBVIOUS
    <2>1. settings' = settings
      BY DEF SubscriberNext, subscriberVars
    <2>2. ASSUME marked' \in Committed
          PROVE  NothingCommitted'
      BY <2>1, <2>2 DEF NothingCommitted, Committed
    <2>3. marked \in Committed
      BY DEF Committed
    <2>4. CASE RunSubscriber \/ OnAssign \/ OnRevoke \/ AutoCommit \/ PollMessage \/ ProgramEnds
      BY <2>2, <2>3, <2>4
         DEF RunSubscriber, OnAssign, OnRevoke, AutoCommit, PollMessage, ProgramEnds
    <2>5. CASE RebalanceRecovery \/ RunRaises
      BY <2>2, <2>5 DEF RebalanceRecovery, RunRaises, CloseSubscriber
    <2>6. ASSUME NEW o \in backlog, ProcessMessage(o)
          PROVE  NothingCommitted'
      <3>1. marked' = marked
        BY <2>6 DEF ProcessMessage, LoopFree, Handled, CommitMessage, HandleInvalid, TaskFails
      <3> QED
        BY <2>2, <2>3, <3>1
    <2>7. CASE UNCHANGED subscriberVars
      BY <2>2, <2>3, <2>7 DEF subscriberVars
    <2> QED
      BY <2>4, <2>5, <2>6, <2>7 DEF SubscriberNext
  <1> QED
    BY <1>1, <1>2, PTL DEF SubscriberSpec

----------------------------------------------------------------------------
(* The gRPC server *)

ServerInv ==
    /\ rpc \in [Rpcs -> {"none", "active", "answered", "aborted"}]
    /\ Active # {} => server \in {"started", "serving"}

(* What a server that drains may do: it stays so and takes no new call.    *)
DrainStep == draining => draining' /\ Active' \subseteq Active

(* A server that has ended, whichever way, has left no call open, and once *)
(* stop() has been called no new one begins, however signals and calls     *)
(* arrive (server.py: GracefulExit, start and stop).                       *)
THEOREM ServerDrains ==
    ServerSpec => [](server \in Over => Active = {}) /\ [][DrainStep]_serverVars
  <1>1. ServerInit => ServerInv
    BY DEF ServerInit, ServerInv, Active
  <1>2. ServerInv /\ [ServerNext]_serverVars => ServerInv' /\ DrainStep
    <2> SUFFICES ASSUME ServerInv, [ServerNext]_serverVars
                 PROVE  ServerInv' /\ DrainStep
      OBVIOUS
    <2>1. ASSUME rpc' = rpc, Active # {} => server' \in {"started", "serving"}, draining => draining'
          PROVE  ServerInv' /\ DrainStep
      BY <2>1 DEF ServerInv, DrainStep, Active
    <2>2. ASSUME rpc' = [r \in Rpcs |-> IF r \in Active THEN "aborted" ELSE rpc[r]],
                 draining => draining'
          PROVE  ServerInv' /\ DrainStep
      <3>1. Active' = {}
        BY <2>2 DEF Active
      <3> QED
        BY <2>2, <3>1 DEF ServerInv, DrainStep
    <2>3. CASE UNCHANGED serverVars
      BY <2>1, <2>3 DEF serverVars, ServerInv
    <2>4. CASE LaunchServer \/ LoadServices \/ StartServer \/ EnterGracefulExit
      BY <2>1, <2>4 DEF LaunchServer, LoadServices, StartServer, EnterGracefulExit, ServerInv
    <2>5. CASE Unhandled
      <3>1. \/ rpc' = [r \in Rpcs |-> IF r \in Active THEN "aborted" ELSE rpc[r]]
            \/ rpc' = rpc /\ server' = server
        BY <2>5 DEF Unhandled, Exit
      <3>2. ~draining
        BY <2>5 DEF Unhandled
      <3> QED
        BY <2>1, <2>2, <3>1, <3>2 DEF ServerInv
    <2>6. CASE SignalHandler \/ Shutdown
      BY <2>1, <2>6 DEF SignalHandler, Shutdown, ServerInv
    <2>7. CASE SignalAgain
      BY <2>2, <2>7 DEF SignalAgain, Exit
    <2>8. CASE Terminate
      BY <2>1, <2>8 DEF Terminate
    <2>9. CASE GraceEnds
      BY <2>2, <2>9 DEF GraceEnds
    <2>10. ASSUME NEW r \in Rpcs, Accept(r)
           PROVE  ServerInv' /\ DrainStep
      <3>1. server' \in {"started", "serving"} /\ ~draining
        BY <2>10 DEF Accept
      <3>2. rpc' \in [Rpcs -> {"none", "active", "answered", "aborted"}]
        BY <2>10 DEF Accept, ServerInv
      <3> QED
        BY <3>1, <3>2 DEF ServerInv, DrainStep
    <2>11. ASSUME NEW r \in Rpcs, Respond(r)
           PROVE  ServerInv' /\ DrainStep
      <3>1. /\ rpc' = [rpc EXCEPT ![r] = "answered"]
            /\ server' = server /\ draining' = draining
        BY <2>11 DEF Respond
      <3>2. rpc' \in [Rpcs -> {"none", "active", "answered", "aborted"}]
        BY <3>1 DEF ServerInv
      <3>3. Active' \subseteq Active
        BY <3>1 DEF ServerInv, Active
      <3> QED
        BY <3>1, <3>2, <3>3 DEF ServerInv, DrainStep
    <2> QED
      BY <2>3, <2>4, <2>5, <2>6, <2>7, <2>8, <2>9, <2>10, <2>11 DEF ServerNext
  <1>3. ServerInv => (server \in Over => Active = {})
    BY DEF ServerInv, Over
  <1> QED
    BY <1>1, <1>2, <1>3, PTL DEF ServerSpec

----------------------------------------------------------------------------
(* In the composition of MCStreams a step is one of a single part and      *)
(* leaves the variables of the others alone.                               *)
LEMMA StreamsAreParts ==
    Spec => /\ ProducerSpec /\ ConsumerSpec /\ PublisherSpec
            /\ SubscriberSpec /\ ServerSpec
  <1>1. Init => /\ ProducerInit /\ ConsumerInit /\ PublisherInit
                /\ SubscriberInit /\ ServerInit
    BY DEF Init
  <1>2. [Next]_streamVars => /\ [ConsumerNext]_consumerVars
                             /\ [SubscriberNext]_subscriberVars
    BY DEF Next, streamVars
  <1>3. [Next]_streamVars => [ProducerNext]_producerVars
    BY DEF Next, streamVars
  <1>4. [Next]_streamVars => [PublisherNext]_publisherVars
    BY DEF Next, streamVars
  <1>5. [Next]_streamVars => [ServerNext]_serverVars
    BY DEF Next, streamVars
  <1> QED
    BY <1>1, <1>2, <1>3, <1>4, <1>5, PTL
    DEF Spec, ProducerSpec, ConsumerSpec, PublisherSpec, SubscriberSpec, ServerSpec

(* The consumer group keeps its promise in the composition that TLC        *)
(* explores, for any number of messages (consumer_group.py:153, 166-173,   *)
(* 194, 244-268).                                                          *)
THEOREM StreamsAtLeastOnce == Spec => AtLeastOnce
  BY StreamsAreParts, ConsumerImplementsLog, PTL

(* The invariants of the producer, the publisher pool, the subscriber and  *)
(* the server hold whichever part a behaviour uses (producer.py,           *)
(* publisher.py, subscriber.py, server.py).                                *)
THEOREM StreamsSafe ==
    Spec => []( /\ StaleOnlyIfInterrupted /\ OwnTransaction /\ NothingCommitted
                /\ server \in Over => Active = {} )
  BY StreamsAreParts, ProducerStaleOnlyIfInterrupted, PublisherOwnTransaction,
     SubscriberNeverCommits, ServerDrains, PTL

=============================================================================
