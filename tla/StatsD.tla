------------------------------- MODULE StatsD -------------------------------
(***************************************************************************)
(* The StatsD client (src/observability/metrics/statsd.py).  A metric is   *)
(* the number of its bytes.  Over UDP a flush sends everything without     *)
(* ever suspending; over TCP and TLS the first chunk of a flush waits for  *)
(* _conn_lock, which flush() itself holds.                                 *)
(***************************************************************************)
EXTENDS Naturals, SequencesExt

CONSTANTS Sizes,       \* lengths of a metric in bytes
          Mtu,         \* config.mtu
          BufferSize,  \* config.buffer_size
          MaxSubmits   \* bound on the metrics of a behaviour

ASSUME StatsDAssumption ==
    /\ Sizes \subseteq Nat
    /\ Mtu \in Nat \ {0} /\ BufferSize \in Nat \ {0}

VARIABLES protocol,   \* config.protocol: "udp", or "stream" for tcp and tls
          buffer,     \* _buffer: a deque of at most BufferSize metrics
          submits,    \* calls of _submit() that passed the sampling
          flushes,    \* flush() calls that have not begun
          lock,       \* _conn_lock is held by a flush that waits for it
          datagrams,  \* the chunks of the last flush, as handed to sendto()
          sock        \* "open" or "closed"

statsdVars == <<protocol, buffer, submits, flushes, lock, datagrams, sock>>

StatsDInit ==
    /\ protocol \in {"udp", "stream"}
    /\ buffer = <<>> /\ datagrams = <<>>
    /\ submits = 0 /\ flushes = 0
    /\ lock = FALSE
    /\ sock = "open"

\* counter(), gauge(), timing() and histogram(): a full deque drops its
\* oldest metric; a full buffer starts a flush in a task of its own.
Submit(size) ==
    LET all  == Append(buffer, size)
        kept == IF Len(all) > BufferSize THEN Tail(all) ELSE all
    IN  /\ submits < MaxSubmits
        /\ submits' = submits + 1
        /\ buffer' = kept
        /\ flushes' = IF Len(kept) >= BufferSize THEN flushes + 1 ELSE flushes
        /\ UNCHANGED <<protocol, lock, datagrams, sock>>

\* MUTANT of Counted: the newline between two metrics is not counted.
CountedBare(size) == size

\* What a metric adds to current_size.
Counted(size) == size + 1

\* _flush(): metrics are joined until the next one would exceed the MTU.
AddMetric(st, size) ==
    IF st.size + size > Mtu
    THEN [chunks |-> Append(st.chunks, st.chunk), chunk |-> <<size>>, size |-> Counted(size)]
    ELSE [st EXCEPT !.chunk = Append(@, size), !.size = @ + Counted(size)]

NoMetrics == [chunks |-> <<>>, chunk |-> <<>>, size |-> 0]

\* The state of the loop after each number of metrics.
Packed(metrics) ==
    LET packed[i \in 0..Len(metrics)] ==
            IF i = 0 THEN NoMetrics ELSE AddMetric(packed[i - 1], metrics[i])
    IN  packed

Chunks(metrics) ==
    LET end == Packed(metrics)[Len(metrics)]
    IN  Append(end.chunks, end.chunk)

\* A flush() asked for by the application or by the pipeline() manager.
AskFlush ==
    /\ flushes < 2
    /\ flushes' = flushes + 1
    /\ UNCHANGED <<protocol, buffer, submits, lock, datagrams, sock>>

\* Nothing to flush.
FlushEmpty ==
    /\ flushes > 0 /\ ~lock
    /\ buffer = <<>>
    /\ flushes' = flushes - 1
    /\ UNCHANGED <<protocol, buffer, submits, lock, datagrams, sock>>

\* Over UDP sendto() may raise at any chunk, always on a closed socket:
\* the chunks from there on are lost, the buffer being empty already.
FlushUdp ==
    /\ flushes > 0 /\ protocol = "udp"
    /\ buffer # <<>>
    /\ \E n \in 0..Len(Chunks(buffer)) :
          /\ sock = "closed" => n = 0
          /\ datagrams' = SubSeq(Chunks(buffer), 1, n)
    /\ buffer' = <<>>
    /\ flushes' = flushes - 1
    /\ UNCHANGED <<protocol, submits, lock, sock>>

\* Over a stream: _send() reaches _ensure_connection() and waits for ever.
FlushStream ==
    /\ flushes > 0 /\ protocol = "stream" /\ ~lock
    /\ buffer # <<>>
    /\ buffer' = <<>>
    /\ lock' = TRUE
    /\ flushes' = flushes - 1
    /\ UNCHANGED <<protocol, submits, datagrams, sock>>

\* close(): a flush that sends everything, and then the socket.  A flush
\* that fails or hangs ends close() there, as the actions above have it.
CloseStatsD ==
    /\ sock = "open" /\ ~lock
    /\ \/ buffer = <<>> /\ UNCHANGED datagrams
       \/ buffer # <<>> /\ protocol = "udp" /\ datagrams' = Chunks(buffer)
    /\ buffer' = <<>>
    /\ sock' = "closed"
    /\ UNCHANGED <<protocol, submits, flushes, lock>>

StatsDNext ==
    \/ \E size \in Sizes : Submit(size)
    \/ AskFlush \/ FlushEmpty \/ FlushUdp \/ FlushStream \/ CloseStatsD

StatsDSpec == StatsDInit /\ [][StatsDNext]_statsdVars
-----------------------------------------------------------------------------
\* The bytes of each prefix of a chunk, a newline after every metric.
Sums(chunk) ==
    LET sum[i \in 0..Len(chunk)] == IF i = 0 THEN 0 ELSE sum[i - 1] + chunk[i] + 1
    IN  sum

Bytes(chunk) == Sums(chunk)[Len(chunk)]

(* No datagram is longer than the MTU, the newlines included, unless it is *)
(* a single metric that does not fit by itself; and metrics are joined as  *)
(* long as they fit.                                                       *)
DatagramsFit ==
    \A i \in DOMAIN datagrams :
        /\ Bytes(datagrams[i]) <= Mtu + 1 \/ Len(datagrams[i]) = 1
        /\ i < Len(datagrams) =>
              Bytes(datagrams[i]) + datagrams[i + 1][1] > Mtu
=============================================================================
