--------------------------- MODULE ServicesProofs ---------------------------
(* Proofs about the stream monitor, the Prometheus metrics, the StatsD     *)
(* client, the operator, the syslog handler and the triple store, for any  *)
(* values of the constants.                                                *)
EXTENDS MCServices, FiniteSetTheorems, SequenceTheorems,
        NaturalsInduction, WellFoundedInduction, TLAPS

----------------------------------------------------------------------------
(* The stream monitor *)

(* While the generator runs it has reported the windows before the current *)
(* one; between a yield and the consumer's next request the current one as *)
(* well.  A generator that was closed may have stopped at either point.    *)
MonitorInv ==
    /\ clock \in Nat /\ window \in Nat /\ reports \in Seq(Nat)
    /\ stream = "running" => Len(reports) = window
    /\ stream = "yielded" => Len(reports) = window + 1
    /\ WindowsInOrder

(* The consumer gets the windows in order, none twice and none left out,   *)
(* for any retention, any number of points and any time                    *)
(* (monitor.py: process_stream and ingest_data).                           *)
THEOREM MonitorWindowsInOrder == MonitorSpec => []WindowsInOrder
  <1>1. MonitorInit => MonitorInv
    BY DEF MonitorInit, MonitorInv, WindowsInOrder
  <1>2. MonitorInv /\ [MonitorNext]_monitorVars => MonitorInv'
    <2> SUFFICES ASSUME MonitorInv, [MonitorNext]_monitorVars
                 PROVE  MonitorInv'
      OBVIOUS
    <2>1. CASE UNCHANGED <<clock, window, stream, reports>>
      BY <2>1 DEF MonitorInv, WindowsInOrder
    <2>2. ASSUME NEW p \in Point, IngestData(p)
          PROVE  MonitorInv'
      BY <2>1, <2>2 DEF IngestData
    <2>3. CASE TimePasses
      BY <2>3 DEF TimePasses, MonitorInv, WindowsInOrder
    <2>4. ASSUME NEW S \in Anomalies, ProcessFails(S)
          PROVE  MonitorInv'
      BY <2>1, <2>4 DEF ProcessFails, Rotated
    <2>5. ASSUME NEW S \in Anomalies, Report(S)
          PROVE  MonitorInv'
      <3>1. /\ Len(reports) = window /\ clock >= window + 1
            /\ reports' = Append(reports, window) /\ stream' = "yielded"
            /\ UNCHANGED <<clock, window>>
        BY <2>5 DEF Report, Due, MonitorInv
      <3>2. reports' \in Seq(Nat) /\ Len(reports') = window + 1
        BY <3>1 DEF MonitorInv
      <3>3. \A i \in 1..Len(reports') : reports'[i] = i - 1
        BY <3>1, <3>2 DEF MonitorInv, WindowsInOrder
      <3> QED
        BY <3>1, <3>2, <3>3 DEF MonitorInv, WindowsInOrder
    <2>6. CASE ConsumerResumes
      BY <2>6 DEF ConsumerResumes, Rotated, MonitorInv, WindowsInOrder
    <2>7. CASE ConsumerStops
      BY <2>7 DEF ConsumerStops, MonitorInv, WindowsInOrder
    <2> QED
      BY <2>1, <2>2, <2>3, <2>4, <2>5, <2>6, <2>7 DEF MonitorNext, monitorVars
  <1>3. MonitorInv => WindowsInOrder
    BY DEF MonitorInv
  <1> QED
    BY <1>1, <1>2, <1>3, PTL DEF MonitorSpec

----------------------------------------------------------------------------
(* The Prometheus metrics *)

MetricsInv ==
    /\ now \in 0..Horizon
    /\ values \in [Metrics -> [LabelSets -> 0..NoSample]]
    /\ ValuesStamped

(* The string key is left opaque: two sets of labels may share it.         *)
LEMMA StampedAt ==
    ASSUME NEW m, NEW l, stamps' = Stamped(m, l), NEW key
    PROVE  StampsAt(key)' = IF key = CacheKey(m, l) THEN {[key |-> key, time |-> now]}
                                                     ELSE StampsAt(key)
  <1> DEFINE mine == CacheKey(m, l)
  <1>1. Stamped(m, l) = {s \in stamps : s.key # mine} \cup {[key |-> mine, time |-> now]}
    BY DEF Stamped
  <1> HIDE DEF mine
  <1> QED
    BY <1>1 DEF StampsAt, mine

(* Every value reported has one time stamp not older than itself, for any  *)
(* metrics, labels, times to live and times, also where labels share a key *)
(* (prometheus.py: update, _check_ttl and collect).                        *)
THEOREM MetricsValuesStamped == MetricsSpec => []ValuesStamped
  <1>1. MetricsInit => MetricsInv
    BY MetricsAssumption DEF MetricsInit, MetricsInv, ValuesStamped, Samples, NoSample
  <1>2. MetricsInv /\ [MetricsNext]_metricVars => MetricsInv'
    <2> SUFFICES ASSUME MetricsInv, [MetricsNext]_metricVars
                 PROVE  MetricsInv'
      OBVIOUS
    <2>0. ASSUME NEW m \in Metrics, NEW l \in LabelSets, values[m][l] # NoSample
          PROVE  \E t \in values[m][l]..now :
                    StampsAt(CacheKey(m, l)) = {[key |-> CacheKey(m, l), time |-> t]}
      BY <2>0 DEF MetricsInv, ValuesStamped, Samples
    <2>1. ASSUME UNCHANGED <<values, stamps>>, now' \in 0..Horizon, now <= now'
          PROVE  MetricsInv'
      <3>1. values' \in [Metrics -> [LabelSets -> 0..NoSample]]
        BY <2>1 DEF MetricsInv, NoSample
      <3>2. ASSUME NEW m \in Metrics, NEW l \in LabelSets, values'[m][l] # NoSample
            PROVE  \E t \in values'[m][l]..now' :
                      StampsAt(CacheKey(m, l))' = {[key |-> CacheKey(m, l), time |-> t]}
        <4>1. PICK t \in values[m][l]..now :
                      StampsAt(CacheKey(m, l)) = {[key |-> CacheKey(m, l), time |-> t]}
          BY <2>0, <2>1, <3>2
        <4>2. values[m][l] \in Nat /\ now \in Nat
          BY MetricsAssumption DEF MetricsInv, NoSample
        <4>3. t \in values'[m][l]..now'
          BY <2>1, <4>2
        <4>4. StampsAt(CacheKey(m, l))' = StampsAt(CacheKey(m, l))
          BY <2>1 DEF StampsAt
        <4> QED
          BY <4>1, <4>3, <4>4
      <3>3. ValuesStamped'
        BY <3>2 DEF ValuesStamped, Samples, NoSample
      <3> QED
        BY <2>1, <3>1, <3>3 DEF MetricsInv
    <2>2. CASE UNCHANGED <<now, values, stamps>>
      BY <2>1, <2>2, MetricsAssumption DEF MetricsInv
    <2>3. CASE Passes
      BY <2>1, <2>3, MetricsAssumption DEF Passes, MetricsInv
    <2>4. CASE WrongLabels
      BY <2>2, <2>4 DEF WrongLabels
    <2>5. ASSUME NEW m \in Metrics, Collect(m)
          PROVE  MetricsInv'
      BY <2>2, <2>5 DEF Collect
    <2>6. ASSUME NEW m \in Metrics, NEW l \in LabelSets, UpdateMetric(m, l)
          PROVE  MetricsInv'
      <3>1. now' = now /\ values' = [values EXCEPT ![m][l] = now]
        BY <2>6 DEF UpdateMetric
      <3>2. stamps' = Stamped(m, l)
        BY <2>6 DEF UpdateMetric, Checked
      <3>3. now \in 0..NoSample /\ now # NoSample /\ now \in Nat
        BY MetricsAssumption DEF MetricsInv, NoSample
      <3>4. values' \in [Metrics -> [LabelSets -> 0..NoSample]]
        BY <3>1, <3>3 DEF MetricsInv
      <3>5. \A n \in Metrics, k \in LabelSets :
                values'[n][k] = IF n = m /\ k = l THEN now ELSE values[n][k]
        BY <3>1 DEF MetricsInv
      <3>6. ASSUME NEW n \in Metrics, NEW k \in LabelSets, values'[n][k] # NoSample
            PROVE  \E t \in values'[n][k]..now' :
                      StampsAt(CacheKey(n, k))' = {[key |-> CacheKey(n, k), time |-> t]}
        <4>1. values'[n][k] \in Nat /\ values[n][k] \in Nat
          BY <3>4, MetricsAssumption DEF MetricsInv, NoSample
        <4>2. CASE CacheKey(n, k) = CacheKey(m, l)
          <5>1. StampsAt(CacheKey(n, k))' = {[key |-> CacheKey(n, k), time |-> now]}
            BY <3>2, <4>2, StampedAt
          <5>2. values'[n][k] <= now
            <6>1. CASE n = m /\ k = l
              BY <3>3, <3>5, <6>1
            <6>2. CASE ~(n = m /\ k = l)
              <7>1. values'[n][k] = values[n][k]
                BY <3>5, <6>2
              <7>2. \E t \in values[n][k]..now : TRUE
                BY <2>0, <3>6, <7>1
              <7> QED
                BY <3>3, <4>1, <7>1, <7>2
            <6> QED
              BY <6>1, <6>2
          <5>3. now \in values'[n][k]..now'
            BY <3>1, <3>3, <4>1, <5>2
          <5> QED
            BY <5>1, <5>3
        <4>3. CASE CacheKey(n, k) # CacheKey(m, l)
          <5>1. StampsAt(CacheKey(n, k))' = StampsAt(CacheKey(n, k)) /\ values'[n][k] = values[n][k]
            BY <3>2, <3>5, <4>3, StampedAt
          <5> QED
            BY <2>0, <3>1, <3>6, <5>1
        <4> QED
          BY <4>2, <4>3
      <3>7. ValuesStamped'
        BY <3>6 DEF ValuesStamped, Samples, NoSample
      <3> QED
        BY <3>1, <3>4, <3>7 DEF MetricsInv, NoSample
    <2> QED
      BY <2>2, <2>3, <2>4, <2>5, <2>6 DEF MetricsNext, metricVars
  <1>3. MetricsInv => ValuesStamped
    BY DEF MetricsInv
  <1> QED
    BY <1>1, <1>2, <1>3, PTL DEF MetricsSpec

----------------------------------------------------------------------------
(* Induction over the natural numbers, for a set: the form in which the    *)
(* loops below are followed metric by metric.                              *)

LEMMA SetInduction ==
    ASSUME NEW S \in SUBSET Nat, 0 \in S, \A n \in S : n + 1 \in S
    PROVE  S = Nat
  <1> SUFFICES ASSUME S # Nat
               PROVE  FALSE
    OBVIOUS
  <1> DEFINE Rest == Nat \ S
  <1>1. Rest # {} /\ Rest \subseteq Nat
    OBVIOUS
  <1>2. PICK n \in Rest : \A m \in Rest : ~(m < n)
    <2>1. \E x \in Rest : \A y \in Rest : ~(<<y, x>> \in OpToRel(<, Nat))
      <3> HIDE DEF Rest
      <3> QED
        BY <1>1, NatLessThanWellFounded, WFMin
    <2> QED
      BY <1>1, <2>1 DEF OpToRel
  <1>3. n \in Nat /\ n # 0 /\ n - 1 \in Nat
    OBVIOUS
  <1>4. n - 1 \in S
    BY <1>2, <1>3
  <1>5. (n - 1) + 1 \in S
    BY <1>4
  <1> QED
    BY <1>3, <1>5

----------------------------------------------------------------------------
(* The StatsD client *)

(* The function that adds up a chunk exists: the sums of a shorter prefix  *)
(* are continued by one metric.                                            *)
LEMMA SumsIs ==
    ASSUME NEW s \in Seq(Nat)
    PROVE  Sums(s) = [i \in 0..Len(s) |-> IF i = 0 THEN 0 ELSE Sums(s)[i - 1] + s[i] + 1]
  <1> DEFINE Adds(f, m) == f = [i \in 0..m |-> IF i = 0 THEN 0 ELSE f[i - 1] + s[i] + 1]
             Good == {m \in Nat : \E f : Adds(f, m)}
  <1>1. 0 \in Good
    <2>1. Adds([i \in 0..0 |-> 0], 0)
      OBVIOUS
    <2> QED
      BY <2>1
  <1>2. ASSUME NEW m \in Good
        PROVE  m + 1 \in Good
    <2>1. m \in Nat /\ m + 1 \in Nat
      OBVIOUS
    <2>2. PICK f : Adds(f, m)
      OBVIOUS
    <2> DEFINE g == [i \in 0..(m + 1) |-> IF i = m + 1 THEN f[m] + s[m + 1] + 1 ELSE f[i]]
    <2>3. ASSUME NEW i \in 0..(m + 1)
          PROVE  g[i] = IF i = 0 THEN 0 ELSE g[i - 1] + s[i] + 1
      <3>1. CASE i = 0
        BY <2>1, <2>2, <3>1
      <3>2. CASE i = m + 1
        <4>1. i # 0 /\ i - 1 = m /\ m \in 0..(m + 1) /\ m # m + 1
          BY <2>1, <3>2
        <4> QED
          BY <3>2, <4>1
      <3>3. CASE i # 0 /\ i # m + 1
        <4>1. i \in 0..m /\ i - 1 \in 0..(m + 1) /\ i - 1 # m + 1
          BY <2>1, <3>3
        <4>2. f[i] = f[i - 1] + s[i] + 1
          BY <2>2, <3>3, <4>1
        <4> QED
          BY <3>3, <4>1, <4>2
      <3> QED
        BY <3>1, <3>2, <3>3
    <2>4. Adds(g, m + 1)
      <3>1. g = [i \in 0..(m + 1) |-> g[i]]
        OBVIOUS
      <3> HIDE DEF g
      <3> QED
        BY <2>3, <3>1
    <2> QED
      BY <2>1, <2>4
  <1>3. Good = Nat
    <2> HIDE DEF Good
    <2>1. Good \in SUBSET Nat
      BY DEF Good
    <2> QED
      BY <1>1, <1>2, <2>1, SetInduction
  <1>4. PICK f : Adds(f, Len(s))
    BY <1>3
  <1> QED
    BY <1>4 DEF Sums

(* The sums are natural numbers, and those of the prefixes of a chunk do   *)
(* not depend on what follows: a metric more is its bytes and a newline.   *)
LEMMA SumsNat ==
    ASSUME NEW s \in Seq(Nat)
    PROVE  \A i \in 0..Len(s) : Sums(s)[i] \in Nat
  <1> DEFINE Good == {m \in Nat : m \in 0..Len(s) => Sums(s)[m] \in Nat}
  <1>1. 0 \in Good
    BY SumsIs
  <1>2. ASSUME NEW m \in Good
        PROVE  m + 1 \in Good
    <2> SUFFICES ASSUME m + 1 \in 0..Len(s)
                 PROVE  Sums(s)[m + 1] \in Nat
      OBVIOUS
    <2>1. m \in 0..Len(s) /\ m + 1 # 0 /\ (m + 1) - 1 = m /\ m + 1 \in 1..Len(s)
      OBVIOUS
    <2>2. Sums(s)[m] \in Nat /\ s[m + 1] \in Nat
      BY <2>1
    <2>3. Sums(s)[m + 1] = Sums(s)[m] + s[m + 1] + 1
      BY <2>1, SumsIs
    <2> QED
      BY <2>2, <2>3
  <1>3. Good = Nat
    <2> HIDE DEF Good
    <2>1. Good \in SUBSET Nat
      BY DEF Good
    <2> QED
      BY <1>1, <1>2, <2>1, SetInduction
  <1> QED
    BY <1>3

LEMMA BytesOfAppend ==
    ASSUME NEW s \in Seq(Nat), NEW x \in Nat
    PROVE  /\ Bytes(s) \in Nat
           /\ Bytes(<<>>) = 0
           /\ Bytes(Append(s, x)) = Bytes(s) + x + 1
  <1> DEFINE t == Append(s, x)
             n == Len(s)
  <1>1. /\ t \in Seq(Nat) /\ n \in Nat /\ Len(t) = n + 1 /\ t[n + 1] = x
        /\ \A i \in 1..n : t[i] = s[i]
    OBVIOUS
  <1>2. <<>> \in Seq(Nat) /\ Len(<<>>) = 0
    OBVIOUS
  <1>3. Bytes(<<>>) = 0
    <2>1. ASSUME NEW e \in Seq(Nat), Len(e) = 0
          PROVE  Bytes(e) = 0
      <3>1. Sums(e) = [i \in 0..Len(e) |-> IF i = 0 THEN 0 ELSE Sums(e)[i - 1] + e[i] + 1]
        BY SumsIs
      <3>2. 0 \in 0..Len(e)
        BY <2>1
      <3>3. Sums(e)[0] = 0
        BY <3>1, <3>2
      <3> QED
        BY <2>1, <3>3 DEF Bytes
    <2> QED
      BY <1>2, <2>1
  <1>4. Bytes(s) \in Nat
    BY <1>1, SumsNat DEF Bytes
  <1> HIDE DEF t
  <1> DEFINE Good == {m \in Nat : m \in 0..n => Sums(t)[m] = Sums(s)[m]}
  <1>5. /\ \A i \in 0..n : Sums(s)[i] = IF i = 0 THEN 0 ELSE Sums(s)[i - 1] + s[i] + 1
        /\ \A i \in 0..(n + 1) : Sums(t)[i] = IF i = 0 THEN 0 ELSE Sums(t)[i - 1] + t[i] + 1
    <2>1. Sums(s) = [i \in 0..n |-> IF i = 0 THEN 0 ELSE Sums(s)[i - 1] + s[i] + 1]
      BY SumsIs
    <2>2. Sums(t) = [i \in 0..(n + 1) |-> IF i = 0 THEN 0 ELSE Sums(t)[i - 1] + t[i] + 1]
      BY <1>1, SumsIs
    <2>3. \A i \in 0..n : Sums(s)[i] = IF i = 0 THEN 0 ELSE Sums(s)[i - 1] + s[i] + 1
      BY <2>1
    <2>4. \A i \in 0..(n + 1) : Sums(t)[i] = IF i = 0 THEN 0 ELSE Sums(t)[i - 1] + t[i] + 1
      BY <2>2
    <2> QED
      BY <2>3, <2>4
  <1>6. 0 \in Good
    BY <1>1, <1>5
  <1>7. ASSUME NEW m \in Good
        PROVE  m + 1 \in Good
    <2> SUFFICES ASSUME m + 1 \in 0..n
                 PROVE  Sums(t)[m + 1] = Sums(s)[m + 1]
      OBVIOUS
    <2>1. /\ m \in 0..n /\ m + 1 # 0 /\ (m + 1) - 1 = m /\ m + 1 \in 1..n
          /\ m + 1 \in 0..(n + 1)
      BY <1>1
    <2>2. Sums(t)[m + 1] = Sums(t)[m] + t[m + 1] + 1
      BY <1>5, <2>1
    <2>3. Sums(s)[m + 1] = Sums(s)[m] + s[m + 1] + 1
      BY <1>5, <2>1
    <2> QED
      BY <1>1, <2>1, <2>2, <2>3
  <1>8. Good = Nat
    <2> HIDE DEF Good
    <2>1. Good \in SUBSET Nat
      BY DEF Good
    <2> QED
      BY <1>6, <1>7, <2>1, SetInduction
  <1>9. Sums(t)[n] = Sums(s)[n]
    BY <1>1, <1>8
  <1>10. Sums(t)[n + 1] = Sums(t)[n] + x + 1
    <2>1. n + 1 \in 0..(n + 1) /\ n + 1 # 0 /\ (n + 1) - 1 = n
      BY <1>1
    <2> QED
      BY <1>1, <1>5, <2>1
  <1>11. Bytes(t) = Bytes(s) + x + 1
    BY <1>1, <1>9, <1>10 DEF Bytes
  <1> QED
    BY <1>3, <1>4, <1>11 DEF t

(* The state of the loop after each metric exists, in the same way.        *)
LEMMA PackedIs ==
    ASSUME NEW s \in Seq(Nat)
    PROVE  Packed(s) = [i \in 0..Len(s) |->
                           IF i = 0 THEN NoMetrics ELSE AddMetric(Packed(s)[i - 1], s[i])]
  <1> DEFINE Packs(f, m) == f = [i \in 0..m |-> IF i = 0 THEN NoMetrics ELSE AddMetric(f[i - 1], s[i])]
             Good == {m \in Nat : \E f : Packs(f, m)}
  <1>1. 0 \in Good
    <2>1. Packs([i \in 0..0 |-> NoMetrics], 0)
      OBVIOUS
    <2> QED
      BY <2>1
  <1>2. ASSUME NEW m \in Good
        PROVE  m + 1 \in Good
    <2>1. m \in Nat /\ m + 1 \in Nat
      OBVIOUS
    <2>2. PICK f : Packs(f, m)
      OBVIOUS
    <2> DEFINE g == [i \in 0..(m + 1) |-> IF i = m + 1 THEN AddMetric(f[m], s[m + 1]) ELSE f[i]]
    <2>3. ASSUME NEW i \in 0..(m + 1)
          PROVE  g[i] = IF i = 0 THEN NoMetrics ELSE AddMetric(g[i - 1], s[i])
      <3>1. CASE i = 0
        BY <2>1, <2>2, <3>1
      <3>2. CASE i = m + 1
        <4>1. i # 0 /\ i - 1 = m /\ m \in 0..(m + 1) /\ m # m + 1
          BY <2>1, <3>2
        <4> QED
          BY <3>2, <4>1
      <3>3. CASE i # 0 /\ i # m + 1
        <4>1. i \in 0..m /\ i - 1 \in 0..(m + 1) /\ i - 1 # m + 1
          BY <2>1, <3>3
        <4>2. f[i] = AddMetric(f[i - 1], s[i])
          BY <2>2, <3>3, <4>1
        <4> QED
          BY <3>3, <4>1, <4>2
      <3> QED
        BY <3>1, <3>2, <3>3
    <2>4. Packs(g, m + 1)
      <3>1. g = [i \in 0..(m + 1) |-> g[i]]
        OBVIOUS
      <3> HIDE DEF g
      <3> QED
        BY <2>3, <3>1
    <2> QED
      BY <2>1, <2>4
  <1>3. Good = Nat
    <2> HIDE DEF Good
    <2>1. Good \in SUBSET Nat
      BY DEF Good
    <2> QED
      BY <1>1, <1>2, <2>1, SetInduction
  <1>4. PICK f : Packs(f, Len(s))
    BY <1>3
  <1> QED
    BY <1>4 DEF Packed

(* A chunk fits into a datagram, or is a metric that does not fit alone.   *)
Small(chunk) == Bytes(chunk) <= Mtu + 1 \/ Len(chunk) = 1

(* What DatagramsFit asks of the chunks of a flush.                        *)
Fit(chunks) ==
    /\ \A i \in 1..Len(chunks) : Small(chunks[i])
    /\ \A i \in 1..(Len(chunks) - 1) : Bytes(chunks[i]) + chunks[i + 1][1] > Mtu

(* The invariant of the loop of _flush(): current_size counts the current  *)
(* chunk with its newlines, and the metrics it begins with had no room in  *)
(* the chunk before.                                                       *)
PackInv(chunks, chunk, size) ==
    /\ chunks \in Seq(Seq(Nat)) /\ chunk \in Seq(Nat)
    /\ size = Bytes(chunk)
    /\ Len(chunks) > 0 => Len(chunk) > 0
    /\ Fit(Append(chunks, chunk))

(* The chunks so far and one more: it is small and did not fit before.     *)
LEMMA FitAppend ==
    ASSUME NEW chunks \in Seq(Seq(Nat)), Fit(chunks), NEW chunk \in Seq(Nat), Small(chunk),
           Len(chunks) > 0 => Bytes(chunks[Len(chunks)]) + chunk[1] > Mtu
    PROVE  Fit(Append(chunks, chunk))
  <1> DEFINE all == Append(chunks, chunk)
             n == Len(chunks)
  <1>1. /\ n \in Nat /\ Len(all) = n + 1 /\ all[n + 1] = chunk
        /\ \A i \in 1..n : all[i] = chunks[i]
    OBVIOUS
  <1> HIDE DEF all
  <1>2. \A i \in 1..Len(all) : Small(all[i])
    <2> SUFFICES ASSUME NEW i \in 1..Len(all)
                 PROVE  Small(all[i])
      OBVIOUS
    <2>1. i \in 1..n \/ i = n + 1
      BY <1>1
    <2> QED
      BY <1>1, <2>1 DEF Fit
  <1>3. ASSUME NEW i \in 1..(Len(all) - 1)
        PROVE  Bytes(all[i]) + all[i + 1][1] > Mtu
    <2>1. i \in 1..n /\ (i = n \/ (i \in 1..(n - 1) /\ i + 1 \in 1..n))
      BY <1>1
    <2>2. CASE i = n
      <3>1. Len(chunks) > 0 /\ all[i] = chunks[n] /\ all[i + 1] = chunk
        BY <1>1, <2>1, <2>2
      <3> QED
        BY <3>1
    <2>3. CASE i \in 1..(n - 1) /\ i + 1 \in 1..n
      <3>1. all[i] = chunks[i] /\ all[i + 1] = chunks[i + 1]
        BY <1>1, <2>1, <2>3
      <3> QED
        BY <2>3, <3>1 DEF Fit
    <2> QED
      BY <2>1, <2>2, <2>3
  <1> QED
    BY <1>2, <1>3 DEF Fit, all

LEMMA FitFront ==
    ASSUME NEW chunks \in Seq(Seq(Nat)), NEW chunk \in Seq(Nat), Fit(Append(chunks, chunk))
    PROVE  /\ Fit(chunks) /\ Small(chunk)
           /\ Len(chunks) > 0 => Bytes(chunks[Len(chunks)]) + chunk[1] > Mtu
  <1> DEFINE all == Append(chunks, chunk)
             n == Len(chunks)
  <1>1. /\ n \in Nat /\ Len(all) = n + 1 /\ all[n + 1] = chunk
        /\ \A i \in 1..n : all[i] = chunks[i]
    OBVIOUS
  <1>2. Fit(all)
    OBVIOUS
  <1> HIDE DEF all
  <1>3. /\ \A i \in 1..(n + 1) : Small(all[i])
        /\ \A i \in 1..n : Bytes(all[i]) + all[i + 1][1] > Mtu
    <2>1. Len(all) - 1 = n
      BY <1>1
    <2> QED
      BY <1>1, <1>2, <2>1 DEF Fit
  <1>4. Small(chunk)
    <2>1. n + 1 \in 1..(n + 1)
      BY <1>1
    <2> QED
      BY <1>1, <1>3, <2>1
  <1>5. \A i \in 1..n : Small(chunks[i])
    <2> SUFFICES ASSUME NEW i \in 1..n
                 PROVE  Small(chunks[i])
      OBVIOUS
    <2>1. i \in 1..(n + 1)
      BY <1>1
    <2> QED
      BY <1>1, <1>3, <2>1
  <1>6. \A i \in 1..(n - 1) : Bytes(chunks[i]) + chunks[i + 1][1] > Mtu
    <2> SUFFICES ASSUME NEW i \in 1..(n - 1)
                 PROVE  Bytes(chunks[i]) + chunks[i + 1][1] > Mtu
      OBVIOUS
    <2>1. i \in 1..n /\ i + 1 \in 1..n
      BY <1>1
    <2>2. all[i] = chunks[i] /\ all[i + 1] = chunks[i + 1]
      BY <1>1, <2>1
    <2> QED
      BY <1>3, <2>1, <2>2
  <1>7. n > 0 => Bytes(chunks[n]) + chunk[1] > Mtu
    <2> SUFFICES ASSUME n > 0
                 PROVE  Bytes(chunks[n]) + chunk[1] > Mtu
      OBVIOUS
    <2>1. n \in 1..n /\ all[n] = chunks[n] /\ all[n + 1] = chunk
      BY <1>1
    <2> QED
      BY <1>3, <2>1
  <1> QED
    BY <1>4, <1>5, <1>6, <1>7 DEF Fit

(* A metric joins the current chunk, or ends it and begins the next one.   *)
LEMMA PackStep ==
    ASSUME NEW chunks, NEW chunk, NEW size, PackInv(chunks, chunk, size), NEW x \in Nat
    PROVE  /\ size + x > Mtu  => PackInv(Append(chunks, chunk), <<x>>, x + 1)
           /\ size + x <= Mtu => PackInv(chunks, Append(chunk, x), size + (x + 1))
  <1>1. /\ chunks \in Seq(Seq(Nat)) /\ chunk \in Seq(Nat)
        /\ size = Bytes(chunk) /\ Fit(Append(chunks, chunk))
        /\ Len(chunks) > 0 => Len(chunk) > 0
    BY DEF PackInv
  <1>2. /\ Fit(chunks) /\ Small(chunk)
        /\ Len(chunks) > 0 => Bytes(chunks[Len(chunks)]) + chunk[1] > Mtu
    BY <1>1, FitFront
  <1>3. size \in Nat /\ Bytes(Append(chunk, x)) = size + x + 1
    BY <1>1, BytesOfAppend
  <1>4. ASSUME size + x > Mtu
        PROVE  PackInv(Append(chunks, chunk), <<x>>, x + 1)
    <2> DEFINE all == Append(chunks, chunk)
    <2>1. all \in Seq(Seq(Nat)) /\ all[Len(all)] = chunk
      BY <1>1
    <2>2. Fit(all)
      BY <1>1
    <2>3. <<x>> \in Seq(Nat) /\ Len(<<x>>) = 1 /\ <<x>>[1] = x
      OBVIOUS
    <2>4. Bytes(<<x>>) = x + 1
      <3>1. <<>> \in Seq(Nat) /\ Append(<<>>, x) = <<x>>
        OBVIOUS
      <3>2. Bytes(<<>>) = 0 /\ Bytes(Append(<<>>, x)) = Bytes(<<>>) + x + 1
        BY <3>1, BytesOfAppend
      <3> QED
        BY <3>1, <3>2
    <2>5. Bytes(all[Len(all)]) + <<x>>[1] > Mtu
      BY <1>1, <1>4, <2>1, <2>3
    <2>6. Small(<<x>>)
      BY <2>3 DEF Small
    <2> HIDE DEF all
    <2>7. Fit(Append(all, <<x>>))
      BY <2>1, <2>2, <2>3, <2>5, <2>6, FitAppend
    <2> QED
      BY <2>1, <2>3, <2>4, <2>7 DEF PackInv, all
  <1>5. ASSUME size + x <= Mtu
        PROVE  PackInv(chunks, Append(chunk, x), size + (x + 1))
    <2> DEFINE longer == Append(chunk, x)
    <2>1. longer \in Seq(Nat) /\ Len(longer) > 0
      BY <1>1
    <2>2. Bytes(longer) = size + (x + 1)
      BY <1>3
    <2>3. Small(longer)
      BY <1>3, <1>5, StatsDAssumption DEF Small
    <2>4. Len(chunks) > 0 => Bytes(chunks[Len(chunks)]) + longer[1] > Mtu
      <3>1. Len(chunk) > 0 => longer[1] = chunk[1]
        BY <1>1
      <3> QED
        BY <1>1, <1>2, <3>1
    <2> HIDE DEF longer
    <2>5. Fit(Append(chunks, longer))
      BY <1>1, <1>2, <2>1, <2>3, <2>4, FitAppend
    <2> QED
      BY <1>1, <2>1, <2>2, <2>5 DEF PackInv, longer
  <1> QED
    BY <1>4, <1>5

PackState == [chunks : Seq(Seq(Nat)), chunk : Seq(Nat), size : Nat]

PackOK(st) == st \in PackState /\ PackInv(st.chunks, st.chunk, st.size)

(* One step of the loop for every metric.                                  *)
LEMMA PackedSteps ==
    ASSUME NEW s \in Seq(Nat)
    PROVE  /\ Packed(s)[0] = NoMetrics
           /\ \A i \in 1..Len(s) : Packed(s)[i] = AddMetric(Packed(s)[i - 1], s[i])
  <1>1. Packed(s) = [i \in 0..Len(s) |->
                        IF i = 0 THEN NoMetrics ELSE AddMetric(Packed(s)[i - 1], s[i])]
    BY PackedIs
  <1>2. Len(s) \in Nat
    OBVIOUS
  <1>3. \A i \in 0..Len(s) : Packed(s)[i] =
           IF i = 0 THEN NoMetrics ELSE AddMetric(Packed(s)[i - 1], s[i])
    BY <1>1
  <1>4. Packed(s)[0] = NoMetrics
    BY <1>2, <1>3
  <1>5. \A i \in 1..Len(s) : Packed(s)[i] = AddMetric(Packed(s)[i - 1], s[i])
    <2> SUFFICES ASSUME NEW i \in 1..Len(s)
                 PROVE  Packed(s)[i] = AddMetric(Packed(s)[i - 1], s[i])
      OBVIOUS
    <2>1. i \in 0..Len(s) /\ i # 0
      BY <1>2
    <2> QED
      BY <1>3, <2>1
  <1> QED
    BY <1>4, <1>5

(* The loop: every metric of the buffer is added in turn.                  *)
LEMMA PackedFits ==
    ASSUME NEW s \in Seq(Nat)
    PROVE  \A i \in 0..Len(s) : PackOK(Packed(s)[i])
  <1> DEFINE st(i) == Packed(s)[i]
             Good == {m \in Nat : m \in 0..Len(s) => PackOK(st(m))}
  <1>1. /\ st(0) = NoMetrics
        /\ \A i \in 1..Len(s) : st(i) = AddMetric(st(i - 1), s[i])
    BY PackedSteps
  <1> HIDE DEF st
  <1>2. 0 \in Good
    <2>1. NoMetrics.chunks = <<>> /\ NoMetrics.chunk = <<>> /\ NoMetrics.size = 0
      BY DEF NoMetrics
    <2>2. <<>> \in Seq(Nat) /\ <<>> \in Seq(Seq(Nat)) /\ Len(<<>>) = 0
      OBVIOUS
    <2>3. Bytes(<<>>) = 0
      BY <2>2, BytesOfAppend
    <2>4. Fit(Append(<<>>, <<>>))
      <3>1. Fit(<<>>)
        BY <2>2 DEF Fit
      <3>2. Small(<<>>)
        BY <2>3, StatsDAssumption DEF Small
      <3>3. ASSUME NEW e \in Seq(Seq(Nat)), Len(e) = 0, Fit(e), NEW c \in Seq(Nat), Small(c)
            PROVE  Fit(Append(e, c))
        <4>1. Len(e) > 0 => Bytes(e[Len(e)]) + c[1] > Mtu
          BY <3>3
        <4> QED
          BY <3>3, <4>1, FitAppend
      <3> QED
        BY <2>2, <3>1, <3>2, <3>3
    <2>5. PackInv(<<>>, <<>>, 0)
      BY <2>2, <2>3, <2>4 DEF PackInv
    <2>6. NoMetrics \in PackState
      BY <2>2 DEF NoMetrics, PackState
    <2> QED
      BY <1>1, <2>1, <2>5, <2>6 DEF PackOK
  <1>3. ASSUME NEW m \in Good
        PROVE  m + 1 \in Good
    <2> SUFFICES ASSUME m + 1 \in 0..Len(s)
                 PROVE  PackOK(st(m + 1))
      OBVIOUS
    <2> DEFINE old == st(m)
               x == s[m + 1]
    <2>1. m \in 0..Len(s) /\ (m + 1) - 1 = m /\ m + 1 \in 1..Len(s) /\ x \in Nat
      OBVIOUS
    <2>2. st(m + 1) = AddMetric(old, x)
      BY <1>1, <2>1
    <2>3. old \in PackState /\ PackInv(old.chunks, old.chunk, old.size)
      BY <2>1 DEF PackOK
    <2> HIDE DEF old, x
    <2>4. old.size \in Nat /\ old.chunk \in Seq(Nat) /\ old.chunks \in Seq(Seq(Nat))
      BY <2>3 DEF PackState
    <2>5. CASE old.size + x > Mtu
      <3>1. st(m + 1) = [chunks |-> Append(old.chunks, old.chunk), chunk |-> <<x>>, size |-> x + 1]
        BY <2>2, <2>5 DEF AddMetric, Counted
      <3> DEFINE chunks == Append(old.chunks, old.chunk)
                 chunk == <<x>>
                 size == x + 1
      <3>2. PackInv(chunks, chunk, size)
        BY <2>1, <2>3, <2>5, PackStep
      <3>3. chunks \in Seq(Seq(Nat)) /\ chunk \in Seq(Nat) /\ size \in Nat
        BY <2>1, <2>4
      <3>4. st(m + 1) = [chunks |-> chunks, chunk |-> chunk, size |-> size]
        BY <3>1
      <3> HIDE DEF chunks, chunk, size
      <3> QED
        BY <3>2, <3>3, <3>4 DEF PackOK, PackState
    <2>6. CASE old.size + x <= Mtu
      <3>1. st(m + 1) = [old EXCEPT !.chunk = Append(@, x), !.size = @ + (x + 1)]
        BY <2>1, <2>2, <2>4, <2>6, StatsDAssumption DEF AddMetric, Counted
      <3> DEFINE chunks == old.chunks
                 chunk == Append(old.chunk, x)
                 size == old.size + (x + 1)
      <3>2. PackInv(chunks, chunk, size)
        BY <2>1, <2>3, <2>6, PackStep
      <3>3. chunks \in Seq(Seq(Nat)) /\ chunk \in Seq(Nat) /\ size \in Nat
        BY <2>1, <2>4
      <3>4. st(m + 1) = [chunks |-> chunks, chunk |-> chunk, size |-> size]
        BY <2>3, <3>1 DEF PackState
      <3> HIDE DEF chunks, chunk, size
      <3> QED
        BY <3>2, <3>3, <3>4 DEF PackOK, PackState
    <2> QED
      BY <2>1, <2>4, <2>5, <2>6, StatsDAssumption
  <1>4. Good = Nat
    <2> HIDE DEF Good
    <2>1. Good \in SUBSET Nat
      BY DEF Good
    <2> QED
      BY <1>2, <1>3, <2>1, SetInduction
  <1>5. \A i \in 0..Len(s) : PackOK(st(i))
    BY <1>4
  <1> QED
    BY <1>5 DEF st

(* The chunks cut the buffer s into pieces, the last one ending at n.      *)
Cuts(off, chunks, s, n) ==
    /\ off \in [1..(Len(chunks) + 1) -> Nat]
    /\ off[1] = 0 /\ off[Len(chunks) + 1] = n
    /\ \A k \in 1..Len(chunks) :
          off[k] <= off[k + 1] /\ chunks[k] = SubSeq(s, off[k] + 1, off[k + 1])

LosesNone(chunks, s, n) == \E off : Cuts(off, chunks, s, n)

LEMMA SubSeqGrows ==
    ASSUME NEW s \in Seq(Nat), NEW a \in Nat, NEW b \in Nat, a <= b, b < Len(s)
    PROVE  /\ Append(SubSeq(s, a + 1, b), s[b + 1]) = SubSeq(s, a + 1, b + 1)
           /\ SubSeq(s, b + 1, b + 1) = <<s[b + 1]>>
  <1>1. \A i \in 1..Len(s) : s[i] \in Nat
    OBVIOUS
  <1>2. ASSUME NEW c \in Nat, c <= b
        PROVE  Append(SubSeq(s, c + 1, b), s[b + 1]) = SubSeq(s, c + 1, b + 1)
    <2> DEFINE short == SubSeq(s, c + 1, b)
               long == SubSeq(s, c + 1, b + 1)
               x == s[b + 1]
    <2>1. x \in Nat
      BY <1>1
    <2>2. /\ short \in Seq(Nat) /\ Len(short) = b - c
          /\ \A i \in 1..(b - c) : short[i] = s[c + i]
      <3>1. \A i \in (c + 1)..b : s[i] \in Nat
        BY <1>1, <1>2
      <3>2. /\ short \in Seq(Nat) /\ Len(short) = IF c + 1 <= b THEN b - (c + 1) + 1 ELSE 0
            /\ \A i \in 1..(b - (c + 1) + 1) : short[i] = s[(c + 1) + i - 1]
        BY <3>1, SubSeqProperties
      <3> HIDE DEF short
      <3>3. b - (c + 1) + 1 = b - c
        BY <1>2
      <3>4. Len(short) = b - c
        BY <1>2, <3>2, <3>3
      <3>5. ASSUME NEW i \in 1..(b - c)
            PROVE  short[i] = s[c + i]
        <4>1. i \in 1..(b - (c + 1) + 1) /\ (c + 1) + i - 1 = c + i
          BY <1>2, <3>3
        <4>2. short[i] = s[(c + 1) + i - 1]
          BY <3>2, <4>1
        <4> QED
          BY <4>1, <4>2
      <3> QED
        BY <3>2, <3>4, <3>5
    <2>3. /\ long \in Seq(Nat) /\ Len(long) = b - c + 1
          /\ \A i \in 1..(b - c + 1) : long[i] = s[c + i]
      <3>1. \A i \in (c + 1)..(b + 1) : s[i] \in Nat
        BY <1>1, <1>2
      <3>2. /\ long \in Seq(Nat) /\ Len(long) = IF c + 1 <= b + 1 THEN (b + 1) - (c + 1) + 1 ELSE 0
            /\ \A i \in 1..((b + 1) - (c + 1) + 1) : long[i] = s[(c + 1) + i - 1]
        BY <3>1, SubSeqProperties
      <3> HIDE DEF long
      <3>3. (b + 1) - (c + 1) + 1 = b - c + 1
        BY <1>2
      <3>4. Len(long) = b - c + 1
        BY <1>2, <3>2, <3>3
      <3>5. ASSUME NEW i \in 1..(b - c + 1)
            PROVE  long[i] = s[c + i]
        <4>1. i \in 1..((b + 1) - (c + 1) + 1) /\ (c + 1) + i - 1 = c + i
          BY <1>2, <3>3
        <4>2. long[i] = s[(c + 1) + i - 1]
          BY <3>2, <4>1
        <4> QED
          BY <4>1, <4>2
      <3> QED
        BY <3>2, <3>4, <3>5
    <2> HIDE DEF short, long, x
    <2>4. /\ Append(short, x) \in Seq(Nat) /\ Len(Append(short, x)) = b - c + 1
          /\ \A i \in 1..(b - c) : Append(short, x)[i] = s[c + i]
          /\ Append(short, x)[b - c + 1] = x
      <3>1. /\ Append(short, x) \in Seq(Nat)
            /\ Len(Append(short, x)) = Len(short) + 1
            /\ \A i \in 1..Len(short) : Append(short, x)[i] = short[i]
            /\ Append(short, x)[Len(short) + 1] = x
        <4>1. short \in Seq(Nat) /\ x \in Nat
          BY <2>1, <2>2
        <4>2. Append(short, x) \in Seq(Nat)
          BY <4>1
        <4>3. Len(Append(short, x)) = Len(short) + 1
          BY <4>1
        <4>4. \A i \in 1..Len(short) : Append(short, x)[i] = short[i]
          BY <4>1
        <4>5. Append(short, x)[Len(short) + 1] = x
          BY <4>1
        <4> QED
          BY <4>2, <4>3, <4>4, <4>5
      <3>2. Len(short) = b - c
        BY <2>2
      <3>3. \A i \in 1..(b - c) : Append(short, x)[i] = short[i]
        BY <3>1, <3>2
      <3>4. \A i \in 1..(b - c) : Append(short, x)[i] = s[c + i]
        BY <2>2, <3>3
      <3> QED
        BY <3>1, <3>2, <3>4
    <2>5. ASSUME NEW i \in 1..(b - c + 1)
          PROVE  Append(short, x)[i] = long[i]
      <3>1. CASE i = b - c + 1
        <4>1. c + i = b + 1
          BY <1>2, <3>1
        <4> QED
          BY <2>3, <2>4, <3>1, <4>1 DEF x
      <3>2. CASE i # b - c + 1
        <4>1. i \in 1..(b - c)
          BY <1>2, <3>2
        <4> QED
          BY <2>3, <2>4, <4>1
      <3> QED
        BY <3>1, <3>2
    <2>6. Append(short, x) = long
      BY <2>3, <2>4, <2>5, SeqEqual
    <2> QED
      BY <2>6 DEF short, long, x
  <1>3. SubSeq(s, b + 1, b + 1) = <<s[b + 1]>>
    <2>1. SubSeq(s, b + 1, b) = <<>>
      BY SubSeqEmpty
    <2>2. Append(SubSeq(s, b + 1, b), s[b + 1]) = SubSeq(s, b + 1, b + 1)
      BY <1>2
    <2>3. \A y \in Nat : Append(<<>>, y) = <<y>>
      OBVIOUS
    <2>4. s[b + 1] \in Nat
      BY <1>1
    <2> QED
      BY <2>1, <2>2, <2>3, <2>4
  <1> QED
    BY <1>2, <1>3

(* The next metric begins a chunk of its own, or lengthens the last one.   *)
LEMMA CutStep ==
    ASSUME NEW s \in Seq(Nat), NEW n \in Nat, n < Len(s), NEW cs \in Seq(Seq(Nat)), NEW c \in Seq(Nat),
           LosesNone(Append(cs, c), s, n)
    PROVE  /\ LosesNone(Append(Append(cs, c), <<s[n + 1]>>), s, n + 1)
           /\ LosesNone(Append(cs, Append(c, s[n + 1])), s, n + 1)
  <1> DEFINE x == s[n + 1]
             L == Len(cs) + 1
             all == Append(cs, c)
             more == Append(all, <<x>>)
             longer == Append(cs, Append(c, x))
  <1>1. x \in Nat /\ L \in Nat /\ L >= 1
    OBVIOUS
  <1>2. /\ all \in Seq(Seq(Nat)) /\ Len(all) = L /\ all[L] = c
        /\ \A k \in 1..(L - 1) : all[k] = cs[k]
    OBVIOUS
  <1>3. /\ Len(longer) = L /\ longer[L] = Append(c, x)
        /\ \A k \in 1..(L - 1) : longer[k] = cs[k]
    <2>1. Append(c, x) \in Seq(Nat)
      BY <1>1
    <2> QED
      BY <2>1
  <1>4. PICK off : Cuts(off, all, s, n)
    BY DEF LosesNone
  <1> HIDE DEF all, x
  <1>5. /\ Len(more) = L + 1 /\ more[L + 1] = <<x>>
        /\ \A k \in 1..L : more[k] = all[k]
    <2>1. <<x>> \in Seq(Nat)
      BY <1>1
    <2> QED
      BY <1>2, <2>1
  <1> HIDE DEF more, longer, L
  <1>6. /\ off \in [1..(L + 1) -> Nat] /\ off[1] = 0 /\ off[L + 1] = n
        /\ \A k \in 1..L : off[k] <= off[k + 1] /\ all[k] = SubSeq(s, off[k] + 1, off[k + 1])
    BY <1>2, <1>4 DEF Cuts
  <1>7. LosesNone(more, s, n + 1)
    <2> DEFINE o == [k \in 1..(L + 2) |-> IF k = L + 2 THEN n + 1 ELSE off[k]]
    <2>1. /\ o \in [1..(L + 2) -> Nat] /\ o[L + 2] = n + 1
          /\ \A k \in 1..(L + 1) : o[k] = off[k]
      BY <1>1, <1>6
    <2> HIDE DEF o
    <2>2. o[1] = 0 /\ o[L + 1] = n
      BY <1>1, <1>6, <2>1
    <2>3. ASSUME NEW k \in 1..(L + 1)
          PROVE  o[k] <= o[k + 1] /\ more[k] = SubSeq(s, o[k] + 1, o[k + 1])
      <3>1. CASE k = L + 1
        <4>1. k + 1 = L + 2
          BY <1>1, <3>1
        <4>2. o[k] = n /\ o[k + 1] = n + 1 /\ more[k] = <<x>>
          BY <1>5, <2>1, <2>2, <3>1, <4>1
        <4>3. SubSeq(s, n + 1, n + 1) = <<x>>
          <5>1. n <= n
            OBVIOUS
          <5> QED
            BY <5>1, SubSeqGrows DEF x
        <4>4. SubSeq(s, o[k] + 1, o[k + 1]) = SubSeq(s, n + 1, n + 1)
          BY <4>2
        <4>5. o[k] <= o[k + 1]
          BY <4>2
        <4> QED
          BY <4>2, <4>3, <4>4, <4>5
      <3>2. CASE k # L + 1
        <4>1. k \in 1..L /\ k \in 1..(L + 1) /\ k + 1 \in 1..(L + 1)
          BY <1>1, <3>2
        <4> QED
          BY <1>5, <1>6, <2>1, <4>1
      <3> QED
        BY <3>1, <3>2
    <2>4. (L + 1) + 1 = L + 2
      BY <1>1
    <2>5. Cuts(o, more, s, n + 1)
      BY <1>5, <2>1, <2>2, <2>3, <2>4 DEF Cuts
    <2> QED
      BY <2>5 DEF LosesNone
  <1>8. LosesNone(longer, s, n + 1)
    <2> DEFINE o == [k \in 1..(L + 1) |-> IF k = L + 1 THEN n + 1 ELSE off[k]]
    <2>1. /\ o \in [1..(L + 1) -> Nat] /\ o[L + 1] = n + 1
          /\ \A k \in 1..L : o[k] = off[k]
      BY <1>1, <1>6
    <2> HIDE DEF o
    <2>2. o[1] = 0
      BY <1>1, <1>6, <2>1
    <2>3. ASSUME NEW k \in 1..L
          PROVE  o[k] <= o[k + 1] /\ longer[k] = SubSeq(s, o[k] + 1, o[k + 1])
      <3>1. CASE k = L
        <4>1. o[k] = off[L] /\ o[k + 1] = n + 1 /\ longer[k] = Append(c, x)
          BY <1>3, <2>1, <3>1
        <4>2. off[L] \in Nat /\ off[L] <= n /\ c = SubSeq(s, off[L] + 1, n)
          <5>1. L \in 1..L /\ L \in 1..(L + 1)
            BY <1>1
          <5>2. off[L] \in Nat /\ off[L] <= off[L + 1] /\ all[L] = SubSeq(s, off[L] + 1, off[L + 1])
            BY <1>6, <5>1
          <5>3. off[L + 1] = n /\ all[L] = c
            BY <1>2, <1>6
          <5> QED
            BY <5>2, <5>3
        <4>3. Append(SubSeq(s, off[L] + 1, n), x) = SubSeq(s, off[L] + 1, n + 1)
          BY <4>2, SubSeqGrows DEF x
        <4>4. SubSeq(s, o[k] + 1, o[k + 1]) = SubSeq(s, off[L] + 1, n + 1)
          BY <4>1
        <4>5. o[k] <= o[k + 1]
          BY <4>1, <4>2
        <4>6. longer[k] = Append(SubSeq(s, off[L] + 1, n), x)
          BY <4>1, <4>2
        <4> QED
          BY <4>3, <4>4, <4>5, <4>6
      <3>2. CASE k # L
        <4>1. k \in 1..(L - 1) /\ k + 1 \in 1..L
          BY <1>1, <3>2
        <4>2. longer[k] = all[k]
          BY <1>2, <1>3, <4>1
        <4> QED
          BY <1>6, <2>1, <4>1, <4>2
      <3> QED
        BY <3>1, <3>2
    <2>4. Cuts(o, longer, s, n + 1)
      BY <1>3, <2>1, <2>2, <2>3 DEF Cuts
    <2> QED
      BY <2>4 DEF LosesNone
  <1> QED
    BY <1>7, <1>8 DEF more, longer, all, x

(* A flush cuts the whole buffer: every metric is in one chunk, once, and  *)
(* in the order of the calls, for any metrics and any MTU (statsd.py:      *)
(* _flush).                                                                *)
THEOREM ChunksLoseNone ==
    ASSUME NEW s \in Seq(Nat)
    PROVE  LosesNone(Chunks(s), s, Len(s))
  <1> DEFINE st(i) == Packed(s)[i]
             All(i) == Append(st(i).chunks, st(i).chunk)
             Good == {m \in Nat : m \in 0..Len(s) => LosesNone(All(m), s, m)}
  <1>1. st(0) = NoMetrics /\ \A i \in 1..Len(s) : st(i) = AddMetric(st(i - 1), s[i])
    BY PackedSteps
  <1>2. \A i \in 0..Len(s) : st(i) \in PackState
    BY PackedFits DEF PackOK
  <1> HIDE DEF st
  <1>3. 0 \in Good
    <2> DEFINE one == Append(<<>>, <<>>)
               o == [k \in 1..2 |-> 0]
    <2>1. All(0) = one
      <3>1. NoMetrics.chunks = <<>> /\ NoMetrics.chunk = <<>>
        BY DEF NoMetrics
      <3> QED
        BY <1>1, <3>1
    <2>2. Len(one) = 1 /\ one[1] = <<>>
      OBVIOUS
    <2>3. SubSeq(s, 0 + 1, 0) = <<>>
      BY SubSeqEmpty
    <2>4. o \in [1..2 -> Nat] /\ o[1] = 0 /\ o[2] = 0
      OBVIOUS
    <2> HIDE DEF one, o
    <2>5. Cuts(o, one, s, 0)
      <3>1. Len(one) + 1 = 2
        BY <2>2
      <3>2. \A k \in 1..Len(one) : k = 1 /\ k + 1 = 2
        BY <2>2
      <3>3. o[1] <= o[2] /\ one[1] = SubSeq(s, o[1] + 1, o[2])
        BY <2>2, <2>3, <2>4
      <3> QED
        BY <2>4, <3>1, <3>2, <3>3 DEF Cuts
    <2> QED
      BY <2>1, <2>5 DEF LosesNone
  <1>4. ASSUME NEW m \in Good
        PROVE  m + 1 \in Good
    <2> SUFFICES ASSUME m + 1 \in 0..Len(s)
                 PROVE  LosesNone(All(m + 1), s, m + 1)
      OBVIOUS
    <2>1. /\ m \in 0..Len(s) /\ m \in Nat /\ m < Len(s) /\ (m + 1) - 1 = m /\ m + 1 \in 1..Len(s)
      OBVIOUS
    <2> DEFINE cs == st(m).chunks
               c == st(m).chunk
    <2>2. st(m) \in PackState /\ cs \in Seq(Seq(Nat)) /\ c \in Seq(Nat)
      BY <1>2, <2>1 DEF PackState
    <2>3. LosesNone(Append(cs, c), s, m)
      BY <2>1
    <2>4. \/ st(m + 1).chunks = Append(cs, c) /\ st(m + 1).chunk = <<s[m + 1]>>
          \/ st(m + 1).chunks = cs /\ st(m + 1).chunk = Append(c, s[m + 1])
      <3>1. st(m + 1) = AddMetric(st(m), s[m + 1])
        BY <1>1, <2>1
      <3>2. CASE st(m).size + s[m + 1] > Mtu
        BY <3>1, <3>2 DEF AddMetric
      <3>3. CASE ~(st(m).size + s[m + 1] > Mtu)
        <4>1. st(m + 1) = [st(m) EXCEPT !.chunk = Append(@, s[m + 1]), !.size = @ + Counted(s[m + 1])]
          BY <3>1, <3>3 DEF AddMetric
        <4> QED
          BY <2>2, <4>1 DEF PackState
      <3> QED
        BY <3>2, <3>3
    <2> HIDE DEF cs, c
    <2>5. /\ LosesNone(Append(Append(cs, c), <<s[m + 1]>>), s, m + 1)
          /\ LosesNone(Append(cs, Append(c, s[m + 1])), s, m + 1)
      BY <2>1, <2>2, <2>3, CutStep
    <2> QED
      BY <2>4, <2>5
  <1>5. Good = Nat
    <2> HIDE DEF Good
    <2>1. Good \in SUBSET Nat
      BY DEF Good
    <2> QED
      BY <1>3, <1>4, <2>1, SetInduction
  <1>6. LosesNone(All(Len(s)), s, Len(s))
    BY <1>5
  <1> QED
    BY <1>6 DEF Chunks, st

(* Only a flush over UDP and close() hand chunks to sendto().  A flush     *)
(* that fails hands over the first of them.                                *)
StatsDInv ==
    /\ buffer \in Seq(Nat)
    /\ datagrams \in Seq(Seq(Nat)) /\ Fit(datagrams)

LEMMA ChunksFit ==
    ASSUME NEW s \in Seq(Nat)
    PROVE  Chunks(s) \in Seq(Seq(Nat)) /\ Fit(Chunks(s))
  <1> DEFINE end == Packed(s)[Len(s)]
  <1>1. PackOK(end)
    <2>1. Len(s) \in 0..Len(s)
      OBVIOUS
    <2> QED
      BY <2>1, PackedFits
  <1>2. Chunks(s) = Append(end.chunks, end.chunk)
    BY DEF Chunks
  <1> HIDE DEF end
  <1> QED
    BY <1>1, <1>2 DEF PackOK, PackInv

LEMMA FitPrefix ==
    ASSUME NEW chunks \in Seq(Seq(Nat)), Fit(chunks), NEW n \in 0..Len(chunks)
    PROVE  SubSeq(chunks, 1, n) \in Seq(Seq(Nat)) /\ Fit(SubSeq(chunks, 1, n))
  <1> DEFINE some == SubSeq(chunks, 1, n)
  <1>1. some \in Seq(Seq(Nat)) /\ Len(some) = n /\ \A i \in 1..n : some[i] = chunks[i]
    OBVIOUS
  <1> HIDE DEF some
  <1>2. Len(chunks) \in Nat /\ n \in Nat /\ n <= Len(chunks)
    OBVIOUS
  <1>3. ASSUME NEW i \in 1..n
        PROVE  Small(some[i])
    <2>1. i \in 1..Len(chunks) /\ some[i] = chunks[i]
      BY <1>1, <1>2
    <2> QED
      BY <2>1 DEF Fit
  <1>4. ASSUME NEW i \in 1..(n - 1)
        PROVE  Bytes(some[i]) + some[i + 1][1] > Mtu
    <2>1. i \in 1..(Len(chunks) - 1) /\ i \in 1..n /\ i + 1 \in 1..n
      BY <1>2
    <2>2. some[i] = chunks[i] /\ some[i + 1] = chunks[i + 1]
      BY <1>1, <2>1
    <2> QED
      BY <2>1, <2>2 DEF Fit
  <1> QED
    BY <1>1, <1>3, <1>4 DEF Fit, some

(* Every datagram respects the MTU and is filled as far as it can be, for  *)
(* any lengths of metrics, MTU, buffer size and number of metrics          *)
(* (statsd.py: _flush, _send and close).                                   *)
THEOREM StatsDDatagramsFit == StatsDSpec => []DatagramsFit
  <1>1. StatsDInit => StatsDInv
    BY DEF StatsDInit, StatsDInv, Fit
  <1>2. StatsDInv /\ [StatsDNext]_statsdVars => StatsDInv'
    <2> SUFFICES ASSUME StatsDInv, [StatsDNext]_statsdVars
                 PROVE  StatsDInv'
      OBVIOUS
    <2>1. CASE UNCHANGED <<buffer, datagrams>>
      BY <2>1 DEF StatsDInv
    <2>2. buffer \in Seq(Nat)
      BY DEF StatsDInv
    <2>3. <<>> \in Seq(Nat)
      OBVIOUS
    <2>4. ASSUME NEW size \in Sizes, Submit(size)
          PROVE  StatsDInv'
      <3> DEFINE all == Append(buffer, size)
      <3>1. all \in Seq(Nat) /\ all # <<>>
        <4>1. size \in Nat
          BY StatsDAssumption
        <4> QED
          BY <2>2, <4>1
      <3> HIDE DEF all
      <3>2. Tail(all) \in Seq(Nat)
        BY <3>1
      <3>3. buffer' \in Seq(Nat) /\ datagrams' = datagrams
        BY <2>4, <3>1, <3>2 DEF Submit, all
      <3> QED
        BY <3>3 DEF StatsDInv
    <2>5. CASE AskFlush \/ FlushEmpty
      BY <2>1, <2>5 DEF AskFlush, FlushEmpty
    <2>6. CASE FlushUdp
      <3>1. PICK n \in 0..Len(Chunks(buffer)) : datagrams' = SubSeq(Chunks(buffer), 1, n)
        BY <2>6 DEF FlushUdp
      <3>2. buffer' = <<>>
        BY <2>6 DEF FlushUdp
      <3>3. Chunks(buffer) \in Seq(Seq(Nat)) /\ Fit(Chunks(buffer))
        BY <2>2, ChunksFit
      <3>4. SubSeq(Chunks(buffer), 1, n) \in Seq(Seq(Nat)) /\ Fit(SubSeq(Chunks(buffer), 1, n))
        BY <3>3, FitPrefix
      <3> QED
        BY <2>3, <3>1, <3>2, <3>4 DEF StatsDInv
    <2>7. CASE FlushStream
      BY <2>3, <2>7 DEF FlushStream, StatsDInv
    <2>8. CASE CloseStatsD
      <3>1. buffer' = <<>> /\ (datagrams' = datagrams \/ datagrams' = Chunks(buffer))
        BY <2>8 DEF CloseStatsD
      <3>2. Chunks(buffer) \in Seq(Seq(Nat)) /\ Fit(Chunks(buffer))
        BY <2>2, ChunksFit
      <3> QED
        BY <2>3, <3>1, <3>2 DEF StatsDInv
    <2> QED
      BY <2>1, <2>4, <2>5, <2>6, <2>7, <2>8 DEF StatsDNext, statsdVars
  <1>3. StatsDInv => DatagramsFit
    <2> SUFFICES ASSUME StatsDInv, NEW i \in DOMAIN datagrams
                 PROVE  /\ Small(datagrams[i])
                        /\ i < Len(datagrams) => Bytes(datagrams[i]) + datagrams[i + 1][1] > Mtu
      BY DEF DatagramsFit, Small
    <2>1. Len(datagrams) \in Nat /\ i \in 1..Len(datagrams)
      BY DEF StatsDInv
    <2>2. i < Len(datagrams) => i \in 1..(Len(datagrams) - 1)
      BY <2>1
    <2> QED
      BY <2>1, <2>2 DEF StatsDInv, Fit
  <1> QED
    BY <1>1, <1>2, <1>3, PTL DEF StatsDSpec

----------------------------------------------------------------------------
(* The operator *)

OperatorTypeOK ==
    /\ loop \in {"off", "listing", "gathering", "sleeping", "backoff"}
    /\ round \in SUBSET Resources /\ external \in SUBSET Resources
    /\ step \in [Calls -> {"none", "waiting", "status", "pause", "heal"}]
    /\ failed \in [Calls -> Nat]

(* A call is under way exactly while gather() or the API waits for it, and *)
(* gather() waits only inside a round.                                     *)
CallsAwaited ==
    /\ \A r \in Resources : /\ r \in round <=> step[<<"loop", r>>] # "none"
                            /\ r \in external <=> step[<<"api", r>>] # "none"
    /\ round # {} => loop = "gathering"

(* The loop begins after the election.                                     *)
ElectedFirst == leader = "electing" => loop = "off"

(* A call fails Attempts times at most, and one that begins has not failed *)
(* yet.                                                                    *)
AttemptsLeft ==
    \A c \in Calls : /\ failed[c] <= Attempts
                     /\ step[c] \in {"none", "waiting"} => failed[c] = 0
                     /\ step[c] \in {"status", "pause"} => failed[c] < Attempts

(* The semaphore admits MaxConcurrent calls, those of the API included.    *)
SemaphoreKept == Cardinality(Holders) <= MaxConcurrent

OperatorInv == OperatorTypeOK /\ ElectedFirst /\ CallsAwaited /\ AttemptsLeft /\ SemaphoreKept

(* While gather() waits, a call can go on: one that holds the semaphore    *)
(* waits for nobody, and where none does a permit is free for one that     *)
(* waits.                                                                  *)
SomeoneProceeds ==
    loop = "gathering" =>
        \/ round = {}
        \/ Holders # {}
        \/ Cardinality(Holders) < MaxConcurrent /\ \E c \in Calls : step[c] = "waiting"

LEMMA HoldersFinite == IsFiniteSet(Calls) /\ IsFiniteSet(Holders) /\ Cardinality(Holders) \in Nat
  <1>1. IsFiniteSet({"loop", "api"})
    <2>1. IsFiniteSet({"loop"})
      BY FS_Singleton
    <2>2. {"loop", "api"} = {"loop"} \cup {"api"}
      OBVIOUS
    <2> QED
      BY <2>1, <2>2, FS_AddElement
  <1>2. IsFiniteSet(Calls)
    BY <1>1, OperatorAssumption, FS_Product DEF Calls
  <1>3. Holders \subseteq Calls
    BY DEF Holders
  <1> QED
    BY <1>2, <1>3, FS_Subset, FS_CardinalityType

(* A step that lets nobody else in keeps the semaphore.                    *)
LEMMA FewerHolders ==
    ASSUME SemaphoreKept, NEW S, S \subseteq Holders
    PROVE  Cardinality(S) <= MaxConcurrent
  <1>1. IsFiniteSet(S) /\ Cardinality(S) <= Cardinality(Holders)
    BY HoldersFinite, FS_Subset
  <1>2. Cardinality(S) \in Nat
    BY <1>1, FS_CardinalityType
  <1> QED
    BY <1>1, <1>2, HoldersFinite, OperatorAssumption DEF SemaphoreKept

(* One call moves from where it is to "v".                                 *)
LEMMA CallMoves ==
    ASSUME OperatorInv, NEW c \in Calls, NEW v, step' = [step EXCEPT ![c] = v]
    PROVE  /\ \A d \in Calls : step'[d] = IF d = c THEN v ELSE step[d]
           /\ v \in {"none", "waiting"} \/ c \in Holders => Holders' \subseteq Holders
  <1>1. \A d \in Calls : step'[d] = IF d = c THEN v ELSE step[d]
    BY DEF OperatorInv, OperatorTypeOK
  <1> QED
    BY <1>1 DEF Holders

LEMMA OperatorTypeStep ==
    OperatorInv /\ [OperatorNext]_operatorVars => OperatorTypeOK'
  <1> SUFFICES ASSUME OperatorInv, [OperatorNext]_operatorVars
               PROVE  OperatorTypeOK'
    OBVIOUS
  <1>1. OperatorTypeOK
    BY DEF OperatorInv
  <1> USE DEF OperatorTypeOK
  <1>2. CASE Elect \/ Refused \/ Gathered \/ WakeUp \/ BreakerRecovers \/ UNCHANGED operatorVars
    BY <1>1, <1>2 DEF Elect, Refused, Gathered, WakeUp, BreakerRecovers, operatorVars
  <1>3. ASSUME NEW rs \in SUBSET Resources, List(rs)
        PROVE  OperatorTypeOK'
    BY <1>1, <1>3 DEF List
  <1>4. ASSUME NEW r \in Resources, Trigger(r)
        PROVE  OperatorTypeOK'
    BY <1>1, <1>4 DEF Trigger
  <1>5. ASSUME NEW c \in Calls, Acquire(c) \/ Again(c)
        PROVE  OperatorTypeOK'
    BY <1>1, <1>5 DEF Acquire, Again
  <1>6. ASSUME NEW c \in Calls, NetworkError(c)
        PROVE  OperatorTypeOK'
    BY <1>1, <1>6 DEF NetworkError, Failures
  <1>7. ASSUME NEW c \in Calls, End(c), loop' = loop
        PROVE  OperatorTypeOK'
    BY <1>1, <1>7 DEF End
  <1>8. ASSUME NEW c \in Calls, CriticalFailure(c) \/ Invalid(c) \/ Heal(c)
        PROVE  OperatorTypeOK'
    BY <1>7, <1>8 DEF CriticalFailure, Invalid, Heal
  <1> QED
    BY <1>2, <1>3, <1>4, <1>5, <1>6, <1>8 DEF OperatorNext, Proceed

LEMMA OperatorElectedStep ==
    OperatorInv /\ [OperatorNext]_operatorVars => ElectedFirst'
  <1> SUFFICES ASSUME ElectedFirst, [OperatorNext]_operatorVars
               PROVE  ElectedFirst'
    BY DEF OperatorInv
  <1> USE DEF ElectedFirst
  <1>1. CASE Elect \/ Refused \/ Gathered \/ WakeUp \/ BreakerRecovers \/ UNCHANGED operatorVars
    BY <1>1 DEF Elect, Refused, Gathered, WakeUp, BreakerRecovers, operatorVars
  <1>2. ASSUME NEW rs \in SUBSET Resources, List(rs)
        PROVE  ElectedFirst'
    BY <1>2 DEF List
  <1>3. ASSUME NEW r \in Resources, Trigger(r)
        PROVE  ElectedFirst'
    BY <1>3 DEF Trigger
  <1>4. ASSUME NEW c \in Calls, Acquire(c) \/ Proceed(c)
        PROVE  ElectedFirst'
    BY <1>4 DEF Acquire, Proceed, CriticalFailure, Invalid, NetworkError, Again, Heal
  <1> QED
    BY <1>1, <1>2, <1>3, <1>4 DEF OperatorNext

LEMMA OperatorAwaitedStep ==
    OperatorInv /\ [OperatorNext]_operatorVars => CallsAwaited'
  <1> SUFFICES ASSUME OperatorInv, [OperatorNext]_operatorVars
               PROVE  CallsAwaited'
    OBVIOUS
  <1>1. OperatorTypeOK /\ CallsAwaited
    BY DEF OperatorInv
  <1>2. \A r \in Resources : <<"loop", r>> \in Calls /\ <<"api", r>> \in Calls
    BY DEF Calls
  <1>3. CASE Elect \/ Refused \/ Gathered \/ WakeUp \/ BreakerRecovers \/ UNCHANGED operatorVars
    <2>1. UNCHANGED <<round, external, step>>
      BY <1>3 DEF Elect, Refused, Gathered, WakeUp, BreakerRecovers, operatorVars
    <2>2. loop = "gathering" => loop' = "gathering" \/ round = {}
      BY <1>3 DEF OperatorInv, ElectedFirst, Elect, Refused, Gathered, WakeUp, BreakerRecovers, operatorVars
    <2> QED
      BY <1>1, <2>1, <2>2 DEF CallsAwaited
  <1>4. ASSUME NEW rs \in SUBSET Resources, List(rs)
        PROVE  CallsAwaited'
    <2>1. /\ loop = "listing" /\ loop' = "gathering" /\ round' = rs /\ external' = external
          /\ step' = [c \in Calls |-> IF c \in {"loop"} \X rs THEN "waiting" ELSE step[c]]
      BY <1>4 DEF List
    <2>2. round = {}
      BY <1>1, <2>1 DEF CallsAwaited
    <2>3. \A r \in Resources : /\ step'[<<"loop", r>>] = IF r \in rs THEN "waiting" ELSE "none"
                               /\ step'[<<"api", r>>] = step[<<"api", r>>]
      <3> SUFFICES ASSUME NEW r \in Resources
                   PROVE  /\ step'[<<"loop", r>>] = IF r \in rs THEN "waiting" ELSE "none"
                          /\ step'[<<"api", r>>] = step[<<"api", r>>]
        OBVIOUS
      <3>1. step[<<"loop", r>>] = "none"
        BY <1>1, <2>2 DEF CallsAwaited
      <3>2. (<<"loop", r>> \in {"loop"} \X rs <=> r \in rs) /\ <<"api", r>> \notin {"loop"} \X rs
        OBVIOUS
      <3> QED
        BY <1>2, <2>1, <3>1, <3>2
    <2> QED
      BY <1>1, <2>1, <2>3 DEF CallsAwaited
  <1>5. ASSUME NEW r \in Resources, Trigger(r)
        PROVE  CallsAwaited'
    <2>1. /\ loop' = loop /\ round' = round /\ external' = external \cup {r}
          /\ step' = [step EXCEPT ![<<"api", r>>] = "waiting"]
      BY <1>5 DEF Trigger
    <2>2. \A q \in Resources : /\ step'[<<"loop", q>>] = step[<<"loop", q>>]
                               /\ step'[<<"api", q>>] = IF q = r THEN "waiting" ELSE step[<<"api", q>>]
      <3>1. \A d \in Calls : step'[d] = IF d = <<"api", r>> THEN "waiting" ELSE step[d]
        BY <1>2, <2>1, CallMoves
      <3> QED
        BY <1>2, <3>1
    <2> QED
      BY <1>1, <2>1, <2>2 DEF CallsAwaited
  <1>6. ASSUME NEW c \in Calls, NEW v \in {"status", "pause", "heal"}, step[c] # "none",
               step' = [step EXCEPT ![c] = v], UNCHANGED <<loop, round, external>>
        PROVE  CallsAwaited'
    <2>1. \A d \in Calls : step'[d] = IF d = c THEN v ELSE step[d]
      BY <1>6, CallMoves
    <2>2. \A d \in Calls : step'[d] = "none" <=> step[d] = "none"
      BY <1>6, <2>1
    <2> QED
      BY <1>1, <1>2, <1>6, <2>2 DEF CallsAwaited
  <1>7. ASSUME NEW c \in Calls, Acquire(c) \/ Again(c) \/ NetworkError(c)
        PROVE  CallsAwaited'
    <2>1. step[c] # "none" /\ UNCHANGED <<loop, round, external>>
      BY <1>7 DEF Acquire, Again, NetworkError
    <2>2. \E v \in {"status", "pause", "heal"} : step' = [step EXCEPT ![c] = v]
      BY <1>7 DEF Acquire, Again, NetworkError
    <2> QED
      BY <1>6, <2>1, <2>2
  <1>8. ASSUME NEW c \in Calls, CriticalFailure(c) \/ Invalid(c) \/ Heal(c)
        PROVE  CallsAwaited'
    <2>1. End(c) /\ loop' = loop
      BY <1>8 DEF CriticalFailure, Invalid, Heal
    <2>2. \A d \in Calls : step'[d] = IF d = c THEN "none" ELSE step[d]
      BY <2>1, CallMoves DEF End
    <2>3. PICK r \in Resources : c = <<"loop", r>> \/ c = <<"api", r>>
      BY DEF Calls
    <2>4. CASE c = <<"loop", r>>
      <3>1. round' = round \ {r} /\ external' = external
        BY <2>1, <2>4 DEF End
      <3>2. \A q \in Resources : /\ step'[<<"loop", q>>] = IF q = r THEN "none" ELSE step[<<"loop", q>>]
                                 /\ step'[<<"api", q>>] = step[<<"api", q>>]
        BY <1>2, <2>2, <2>4
      <3> QED
        BY <1>1, <2>1, <3>1, <3>2 DEF CallsAwaited
    <2>5. CASE c = <<"api", r>>
      <3>1. round' = round /\ external' = external \ {r}
        BY <2>1, <2>5 DEF End
      <3>2. \A q \in Resources : /\ step'[<<"api", q>>] = IF q = r THEN "none" ELSE step[<<"api", q>>]
                                 /\ step'[<<"loop", q>>] = step[<<"loop", q>>]
        BY <1>2, <2>2, <2>5
      <3> QED
        BY <1>1, <2>1, <3>1, <3>2 DEF CallsAwaited
    <2> QED
      BY <2>3, <2>4, <2>5
  <1> QED
    BY <1>3, <1>4, <1>5, <1>7, <1>8 DEF OperatorNext, Proceed

LEMMA OperatorAttemptsStep ==
    OperatorInv /\ [OperatorNext]_operatorVars => AttemptsLeft'
  <1> SUFFICES ASSUME OperatorInv, [OperatorNext]_operatorVars
               PROVE  AttemptsLeft'
    OBVIOUS
  <1>1. OperatorTypeOK /\ CallsAwaited /\ AttemptsLeft
    BY DEF OperatorInv
  <1>2. CASE UNCHANGED <<step, failed>>
    BY <1>1, <1>2 DEF AttemptsLeft
  <1>3. ASSUME NEW rs \in SUBSET Resources, List(rs)
        PROVE  AttemptsLeft'
    <2>1. failed' = failed /\ round = {}
      BY <1>1, <1>3 DEF List, CallsAwaited
    <2>2. ASSUME NEW c \in Calls
          PROVE  step'[c] = step[c] \/ (step[c] = "none" /\ step'[c] = "waiting")
      <3>1. step'[c] = IF c \in {"loop"} \X rs THEN "waiting" ELSE step[c]
        BY <1>3 DEF List
      <3>2. c \in {"loop"} \X rs => step[c] = "none"
        <4> SUFFICES ASSUME NEW q \in rs, c = <<"loop", q>>
                     PROVE  step[c] = "none"
          OBVIOUS
        <4>1. q \in Resources /\ q \notin round
          BY <2>1
        <4> QED
          BY <1>1, <4>1 DEF CallsAwaited
      <3> QED
        BY <3>1, <3>2
    <2> QED
      BY <1>1, <2>1, <2>2 DEF AttemptsLeft
  <1>4. ASSUME NEW r \in Resources, Trigger(r)
        PROVE  AttemptsLeft'
    <2>1. <<"api", r>> \in Calls /\ step[<<"api", r>>] = "none" /\ failed' = failed
      BY <1>1, <1>4 DEF Trigger, CallsAwaited, Calls
    <2>2. \A d \in Calls : step'[d] = IF d = <<"api", r>> THEN "waiting" ELSE step[d]
      BY <1>4, <2>1, CallMoves DEF Trigger
    <2> QED
      BY <1>1, <2>1, <2>2 DEF AttemptsLeft
  <1>5. ASSUME NEW c \in Calls, Acquire(c) \/ Again(c)
        PROVE  AttemptsLeft'
    <2>1. step[c] \in {"waiting", "pause"} /\ failed' = failed /\ step' = [step EXCEPT ![c] = "status"]
      BY <1>5 DEF Acquire, Again
    <2>2. \A d \in Calls : step'[d] = IF d = c THEN "status" ELSE step[d]
      BY <2>1, CallMoves
    <2>3. failed[c] < Attempts
      BY <1>1, <2>1, OperatorAssumption DEF AttemptsLeft
    <2> QED
      BY <1>1, <2>1, <2>2, <2>3 DEF AttemptsLeft
  <1>6. ASSUME NEW c \in Calls, NetworkError(c)
        PROVE  AttemptsLeft'
    <2> DEFINE v == IF Failures(failed[c]) < Attempts THEN "pause" ELSE "heal"
    <2>1. step[c] = "status" /\ step' = [step EXCEPT ![c] = v]
      BY <1>6 DEF NetworkError
    <2>2. \A d \in Calls : step'[d] = IF d = c THEN v ELSE step[d]
      BY <2>1, CallMoves
    <2>3. \A d \in Calls : failed'[d] = IF d = c THEN failed[c] + 1 ELSE failed[d]
      BY <1>1, <1>6 DEF NetworkError, Failures, OperatorTypeOK
    <2>4. failed[c] \in Nat /\ failed[c] < Attempts
      BY <1>1, <2>1 DEF AttemptsLeft, OperatorTypeOK
    <2>5. failed[c] + 1 <= Attempts /\ (v = "pause" => failed[c] + 1 < Attempts) /\ v \in {"pause", "heal"}
      BY <2>4, OperatorAssumption DEF Failures
    <2> HIDE DEF v
    <2> QED
      BY <1>1, <2>2, <2>3, <2>5 DEF AttemptsLeft
  <1>7. ASSUME NEW c \in Calls, CriticalFailure(c) \/ Invalid(c) \/ Heal(c)
        PROVE  AttemptsLeft'
    <2>1. End(c)
      BY <1>7 DEF CriticalFailure, Invalid, Heal
    <2>2. \A d \in Calls : step'[d] = IF d = c THEN "none" ELSE step[d]
      BY <2>1, CallMoves DEF End
    <2>3. \A d \in Calls : failed'[d] = IF d = c THEN 0 ELSE failed[d]
      BY <1>1, <2>1 DEF End, OperatorTypeOK
    <2>4. 0 <= Attempts
      BY OperatorAssumption
    <2> QED
      BY <1>1, <2>2, <2>3, <2>4 DEF AttemptsLeft
  <1>8. CASE Elect \/ Refused \/ Gathered \/ WakeUp \/ BreakerRecovers \/ UNCHANGED operatorVars
    BY <1>2, <1>8 DEF Elect, Refused, Gathered, WakeUp, BreakerRecovers, operatorVars
  <1> QED
    BY <1>3, <1>4, <1>5, <1>6, <1>7, <1>8 DEF OperatorNext, Proceed

LEMMA OperatorSemaphoreStep ==
    OperatorInv /\ [OperatorNext]_operatorVars => SemaphoreKept'
  <1> SUFFICES ASSUME OperatorInv, [OperatorNext]_operatorVars
               PROVE  SemaphoreKept'
    OBVIOUS
  <1>1. OperatorTypeOK /\ SemaphoreKept
    BY DEF OperatorInv
  <1>2. ASSUME Holders' \subseteq Holders
        PROVE  SemaphoreKept'
    <2>1. Cardinality(Holders') <= MaxConcurrent
      BY <1>1, <1>2, FewerHolders
    <2> QED
      BY <2>1 DEF SemaphoreKept
  <1>3. CASE Elect \/ Refused \/ Gathered \/ WakeUp \/ BreakerRecovers \/ UNCHANGED operatorVars
    <2>1. step' = step
      BY <1>3 DEF Elect, Refused, Gathered, WakeUp, BreakerRecovers, operatorVars
    <2>2. Holders' = Holders
      BY <2>1 DEF Holders
    <2> QED
      BY <1>2, <2>2
  <1>4. ASSUME NEW rs \in SUBSET Resources, List(rs)
        PROVE  SemaphoreKept'
    <2>1. \A c \in Calls : step'[c] = step[c] \/ step'[c] = "waiting"
      BY <1>4 DEF List
    <2>2. Holders' \subseteq Holders
      BY <2>1 DEF Holders
    <2> QED
      BY <1>2, <2>2
  <1>5. ASSUME NEW r \in Resources, Trigger(r)
        PROVE  SemaphoreKept'
    <2>1. <<"api", r>> \in Calls /\ step' = [step EXCEPT ![<<"api", r>>] = "waiting"]
      BY <1>5 DEF Trigger, Calls
    <2>2. Holders' \subseteq Holders
      BY <2>1, CallMoves
    <2> QED
      BY <1>2, <2>2
  <1>6. ASSUME NEW c \in Calls, Acquire(c)
        PROVE  SemaphoreKept'
    <2>1. /\ Cardinality(Holders) < MaxConcurrent /\ step[c] = "waiting"
          /\ step' = [step EXCEPT ![c] = "status"]
      BY <1>6 DEF Acquire
    <2>2. \A d \in Calls : step'[d] = IF d = c THEN "status" ELSE step[d]
      BY <2>1, CallMoves
    <2>3. Holders' = Holders \cup {c} /\ c \notin Holders
      BY <2>1, <2>2 DEF Holders
    <2>4. Cardinality(Holders \cup {c}) = Cardinality(Holders) + 1
      BY <2>3, HoldersFinite, FS_AddElement
    <2>5. Cardinality(Holders') <= MaxConcurrent
      BY <2>1, <2>3, <2>4, HoldersFinite, OperatorAssumption
    <2> QED
      BY <2>5 DEF SemaphoreKept
  <1>7. ASSUME NEW c \in Calls, Proceed(c)
        PROVE  SemaphoreKept'
    <2>1. c \in Holders
      BY <1>7 DEF Proceed, CriticalFailure, Invalid, NetworkError, Again, Heal, Holders
    <2>2. PICK v : step' = [step EXCEPT ![c] = v]
      BY <1>7, Zenon DEF Proceed, CriticalFailure, Invalid, NetworkError, Again, Heal, End
    <2>3. Holders' \subseteq Holders
      BY <2>1, <2>2, CallMoves
    <2> QED
      BY <1>2, <2>3
  <1> QED
    BY <1>3, <1>4, <1>5, <1>6, <1>7 DEF OperatorNext

(* The loop and the API together never run more than MaxConcurrent         *)
(* reconciliations, no call is made more than Attempts times, gather()     *)
(* waits exactly for the calls that are under way, and one of them can     *)
(* always go on, for any resources and limits (operator.py: reconcile,     *)
(* run_forever and trigger_reconciliation).                                *)
THEOREM OperatorBounded == OperatorSpec => [](OperatorInv /\ SomeoneProceeds)
  <1>1. OperatorInit => OperatorInv
    <2> SUFFICES ASSUME OperatorInit
                 PROVE  OperatorInv
      OBVIOUS
    <2>1. \A c \in Calls : step[c] = "none" /\ failed[c] = 0
      BY DEF OperatorInit
    <2>2. OperatorTypeOK
      BY DEF OperatorInit, OperatorTypeOK
    <2>3. CallsAwaited
      BY <2>1 DEF OperatorInit, CallsAwaited, Calls
    <2>4. AttemptsLeft
      BY <2>1, OperatorAssumption DEF AttemptsLeft
    <2>5. SemaphoreKept
      <3>1. Holders = {}
        BY <2>1 DEF Holders
      <3> QED
        BY <3>1, FS_EmptySet, OperatorAssumption DEF SemaphoreKept
    <2> QED
      BY <2>2, <2>3, <2>4, <2>5 DEF OperatorInit, ElectedFirst, OperatorInv
  <1>2. OperatorInv /\ [OperatorNext]_operatorVars => OperatorInv'
    BY OperatorTypeStep, OperatorElectedStep, OperatorAwaitedStep, OperatorAttemptsStep,
       OperatorSemaphoreStep DEF OperatorInv
  <1>3. OperatorInv => SomeoneProceeds
    <2> SUFFICES ASSUME OperatorInv, round # {}, Holders = {}
                 PROVE  Cardinality(Holders) < MaxConcurrent /\ \E c \in Calls : step[c] = "waiting"
      BY DEF SomeoneProceeds
    <2>1. PICK r \in Resources : r \in round
      BY DEF OperatorInv, OperatorTypeOK
    <2>2. <<"loop", r>> \in Calls /\ step[<<"loop", r>>] # "none"
      BY <2>1 DEF OperatorInv, CallsAwaited, Calls
    <2>3. step[<<"loop", r>>] = "waiting"
      BY <2>2 DEF OperatorInv, OperatorTypeOK, Holders
    <2>4. Cardinality(Holders) = 0
      BY FS_EmptySet
    <2> QED
      BY <2>2, <2>3, <2>4, OperatorAssumption
  <1> QED
    BY <1>1, <1>2, <1>3, PTL DEF OperatorSpec

----------------------------------------------------------------------------
(* The syslog handler *)

(* The worker sends only with a socket, and ends only after close() has    *)
(* set the flag; close() has returned only once the worker is done.        *)
SyslogInv ==
    /\ queued \in 0..QueueSize /\ attempt \in 0..Retries
    /\ worker = "done" => shutdown
    /\ worker = "send" => socket
    /\ closer = "open" => ~shutdown
    /\ closer = "closed" => worker = "done" /\ ~socket

(* A handler that is closed has no worker and no socket any more, whatever *)
(* was queued or being sent when close() was called; the queue never       *)
(* exceeds its size, and no message is attempted more than Retries + 1     *)
(* times, for any limits (syslog_handler.py: _process_queue and close).    *)
THEOREM SyslogClosed == SyslogSpec => []SyslogInv
  <1>1. SyslogInit => SyslogInv
    BY SyslogAssumption DEF SyslogInit, SyslogInv
  <1>2. SyslogInv /\ [SyslogNext]_syslogVars => SyslogInv'
    <2> SUFFICES ASSUME SyslogInv, [SyslogNext]_syslogVars
                 PROVE  SyslogInv'
      OBVIOUS
    <2> USE SyslogAssumption DEF SyslogInv
    <2>1. CASE UNCHANGED syslogVars
      BY <2>1 DEF syslogVars
    <2>2. CASE Emit
      BY <2>2 DEF Emit
    <2>3. CASE CheckFlag
      BY <2>3 DEF CheckFlag
    <2>4. CASE Take
      BY <2>4 DEF Take
    <2>5. CASE ConnectSocket
      BY <2>5 DEF ConnectSocket
    <2>6. CASE SendMessage
      <3>1. attempt' \in 0..Retries
        <4> HIDE DEF SyslogInv
        <4>1. attempt' = attempt \/ (attempt < Retries /\ attempt' = attempt + 1)
          BY <2>6, Zenon DEF SendMessage, NextAttempt
        <4>2. attempt \in 0..Retries
          BY DEF SyslogInv
        <4> QED
          BY <4>1, <4>2, SyslogAssumption
      <3>2. /\ worker = "send" /\ worker' \in {"check", "give up", "pause"}
            /\ UNCHANGED <<queued, socket, shutdown, closer>>
        BY <2>6 DEF SendMessage
      <3> QED
        BY <3>1, <3>2
    <2>7. CASE WorkerDisconnect
      BY <2>7 DEF WorkerDisconnect
    <2>8. CASE Flush
      BY <2>8 DEF Flush
    <2>9. CASE CloseBegin
      BY <2>9 DEF CloseBegin
    <2>10. CASE CloseEnd
      BY <2>10 DEF CloseEnd
    <2> QED
      BY <2>1, <2>2, <2>3, <2>4, <2>5, <2>6, <2>7, <2>8, <2>9, <2>10 DEF SyslogNext, WorkerStep
  <1> QED
    BY <1>1, <1>2, PTL DEF SyslogSpec

----------------------------------------------------------------------------
(* The triple store *)

(* What an open insertion has inserted is not in the table, and no two of  *)
(* them have inserted the same triple; what is left to insert was asked.   *)
RdfInv ==
    /\ op \in [Writers -> {"idle", "insert", "delete"}]
    /\ asked \in [Writers -> SUBSET Triples] /\ todo \in [Writers -> SUBSET Triples]
    /\ \A w \in Writers : op[w] = "insert" => (asked[w] \ todo[w]) \cap triples = {}
    /\ \A v, w \in Writers :
           v # w /\ op[v] = "insert" /\ op[w] = "insert" =>
               (asked[v] \ todo[v]) \cap (asked[w] \ todo[w]) = {}

(* A writer starts or ends; what an insertion has inserted is given.       *)
LEMMA WriterMoves ==
    ASSUME RdfInv, NEW w \in Writers, NEW o \in {"idle", "insert", "delete"},
           NEW a \in SUBSET Triples, NEW r \in SUBSET Triples,
           op' = [op EXCEPT ![w] = o], asked' = [asked EXCEPT ![w] = a],
           todo' = [todo EXCEPT ![w] = r],
           o = "insert" => /\ (a \ r) \cap triples' = {}
                           /\ \A v \in Writers \ {w} :
                                 op[v] = "insert" => (a \ r) \cap (asked[v] \ todo[v]) = {},
           \A v \in Writers \ {w} :
               op[v] = "insert" => (asked[v] \ todo[v]) \cap triples' = {}
    PROVE  RdfInv'
  <1>1. /\ op' \in [Writers -> {"idle", "insert", "delete"}]
        /\ asked' \in [Writers -> SUBSET Triples] /\ todo' \in [Writers -> SUBSET Triples]
    BY DEF RdfInv
  <1>2. \A v \in Writers : /\ op'[v] = IF v = w THEN o ELSE op[v]
                           /\ asked'[v] = IF v = w THEN a ELSE asked[v]
                           /\ todo'[v] = IF v = w THEN r ELSE todo[v]
    BY DEF RdfInv
  <1>3. \A v \in Writers : op'[v] = "insert" => (asked'[v] \ todo'[v]) \cap triples' = {}
    BY <1>2
  <1>4. ASSUME NEW u \in Writers, NEW v \in Writers, u # v, op'[u] = "insert", op'[v] = "insert"
        PROVE  (asked'[u] \ todo'[u]) \cap (asked'[v] \ todo'[v]) = {}
    <2>1. CASE u = w
      BY <1>2, <1>4, <2>1
    <2>2. CASE v = w
      BY <1>2, <1>4, <2>2
    <2>3. CASE u # w /\ v # w
      BY <1>2, <1>4, <2>3 DEF RdfInv
    <2> QED
      BY <2>1, <2>2, <2>3
  <1> QED
    BY <1>1, <1>3, <1>4 DEF RdfInv

(* The invariant is kept, and what becomes visible was asked by one call.  *)
LEMMA RdfStep ==
    ASSUME RdfInv, [RdfNext]_rdfVars
    PROVE  /\ RdfInv'
           /\ triples' \ triples # {} =>
                 \E w \in Writers :
                     op[w] = "insert" /\ op'[w] = "idle" /\ triples' \ triples = asked[w]
  <1> DEFINE Visible == triples' \ triples # {} =>
                 \E w \in Writers :
                     op[w] = "insert" /\ op'[w] = "idle" /\ triples' \ triples = asked[w]
  <1>1. \A v \in Writers : op[v] = "insert" => (asked[v] \ todo[v]) \cap triples = {}
    BY DEF RdfInv
  <1>2. CASE UNCHANGED rdfVars
    BY <1>2 DEF rdfVars, RdfInv
  <1>3. ASSUME NEW w \in Writers, NEW ts \in SUBSET Triples, InsertBulk(w, ts)
        PROVE  RdfInv' /\ Visible
    <2>1. /\ op' = [op EXCEPT ![w] = "insert"] /\ asked' = [asked EXCEPT ![w] = ts]
          /\ todo' = [todo EXCEPT ![w] = ts] /\ triples' = triples
      BY <1>3 DEF InsertBulk, TransactionBegins
    <2>2. ts \ ts = {}
      OBVIOUS
    <2>3. RdfInv'
      BY <1>1, <2>1, <2>2, WriterMoves
    <2> QED
      BY <2>1, <2>3
  <1>4. ASSUME NEW w \in Writers, NEW ts \in SUBSET Triples, DeleteTriple(w, ts)
        PROVE  RdfInv' /\ Visible
    <2>1. /\ op' = [op EXCEPT ![w] = "delete"] /\ asked' = [asked EXCEPT ![w] = triples \cap ts]
          /\ todo' = [todo EXCEPT ![w] = {}] /\ triples' = triples
      BY <1>4 DEF DeleteTriple, TransactionBegins
    <2>2. triples \cap ts \in SUBSET Triples /\ {} \in SUBSET Triples
      OBVIOUS
    <2>3. RdfInv'
      BY <1>1, <2>1, <2>2, WriterMoves
    <2> QED
      BY <2>1, <2>3
  <1>5. ASSUME NEW w \in Writers, NEW batch \in Batches(w), InsertTriples(w, batch)
        PROVE  RdfInv' /\ Visible
    <2> DEFINE r == todo[w] \ batch
    <2>1. /\ op[w] = "insert" /\ todo' = [todo EXCEPT ![w] = r]
          /\ UNCHANGED <<op, asked>> /\ triples' = triples /\ batch \cap triples = {}
          /\ \A v \in Writers \ {w} : op[v] # "idle" => Touched(v) \cap batch = {}
      BY <1>5 DEF InsertTriples, AfterBatch, Waits
    <2>2. /\ op' = [op EXCEPT ![w] = "insert"] /\ asked' = [asked EXCEPT ![w] = asked[w]]
          /\ asked[w] \in SUBSET Triples /\ r \in SUBSET Triples
      BY <2>1 DEF RdfInv
    <2>3. asked[w] \ r \subseteq (asked[w] \ todo[w]) \cup batch
      OBVIOUS
    <2>4. (asked[w] \ r) \cap triples' = {}
      BY <1>1, <2>1, <2>3
    <2>5. ASSUME NEW v \in Writers \ {w}, op[v] = "insert"
          PROVE  (asked[w] \ r) \cap (asked[v] \ todo[v]) = {}
      <3>1. (asked[w] \ todo[w]) \cap (asked[v] \ todo[v]) = {}
        BY <2>1, <2>5 DEF RdfInv
      <3>2. batch \cap (asked[v] \ todo[v]) = {}
        BY <2>1, <2>5 DEF Touched
      <3> QED
        BY <2>3, <3>1, <3>2
    <2> HIDE DEF r
    <2>6. RdfInv'
      BY <1>1, <2>1, <2>2, <2>4, <2>5, WriterMoves
    <2> QED
      BY <2>1, <2>6
  <1>6. ASSUME NEW w \in Writers, TransactionOver(w),
               \A v \in Writers \ {w} : op[v] = "insert" => (asked[v] \ todo[v]) \cap triples' = {}
        PROVE  RdfInv'
    <2>1. /\ op' = [op EXCEPT ![w] = "idle"] /\ asked' = [asked EXCEPT ![w] = {}]
          /\ todo' = [todo EXCEPT ![w] = {}] /\ {} \in SUBSET Triples
      BY <1>6 DEF TransactionOver
    <2> QED
      BY <1>6, <2>1, WriterMoves
  <1>7. ASSUME NEW w \in Writers, Commit(w)
        PROVE  RdfInv' /\ Visible
    <2>1. todo[w] = {} /\ TransactionOver(w) /\ op'[w] = "idle"
      BY <1>7 DEF Commit, TransactionOver, RdfInv
    <2>2. CASE op[w] = "insert"
      <3>1. triples' = triples \cup asked[w]
        BY <1>7, <2>2 DEF Commit
      <3>2. asked[w] \cap triples = {}
        BY <1>1, <2>1, <2>2
      <3>3. ASSUME NEW v \in Writers \ {w}, op[v] = "insert"
            PROVE  (asked[v] \ todo[v]) \cap triples' = {}
        <4>1. (asked[v] \ todo[v]) \cap (asked[w] \ todo[w]) = {}
          BY <2>2, <3>3 DEF RdfInv
        <4> QED
          BY <1>1, <2>1, <3>1, <3>3, <4>1
      <3>4. RdfInv'
        BY <1>6, <2>1, <3>3
      <3>5. triples' \ triples = asked[w]
        BY <3>1, <3>2
      <3> QED
        BY <2>1, <2>2, <3>4, <3>5
    <2>3. CASE op[w] # "insert"
      <3>1. triples' = triples \ asked[w]
        BY <1>7, <2>3 DEF Commit
      <3>2. RdfInv'
        BY <1>1, <1>6, <2>1, <3>1
      <3> QED
        BY <3>1, <3>2
    <2> QED
      BY <2>2, <2>3
  <1>8. ASSUME NEW w \in Writers, Rollback(w)
        PROVE  RdfInv' /\ Visible
    <2>1. TransactionOver(w) /\ triples' = triples
      BY <1>8 DEF Rollback
    <2> QED
      BY <1>1, <1>6, <2>1
  <1> HIDE DEF Visible
  <1>9. RdfInv' /\ Visible
    BY <1>2, <1>3, <1>4, <1>5, <1>7, <1>8 DEF RdfNext, Visible
  <1> QED
    BY <1>9 DEF Visible

(* A bulk insertion becomes visible in one step with all its triples, or   *)
(* not at all, for any writers, triples and batch size, and whatever other *)
(* transactions insert, delete and roll back meanwhile (rdf_store.py:      *)
(* transaction, insert_bulk and _insert_triples).                          *)
THEOREM RdfBulkAtomic == RdfSpec => BulkAtomic
  <1>1. RdfInit => RdfInv
    BY DEF RdfInit, RdfInv
  <1>2. RdfInv /\ [RdfNext]_rdfVars => RdfInv'
    BY RdfStep
  <1>3. RdfInv /\ [RdfNext]_rdfVars
        => [triples' \ triples # {} =>
              \E w \in Writers :
                  op[w] = "insert" /\ op'[w] = "idle" /\ triples' \ triples = asked[w]]_rdfVars
    BY RdfStep
  <1> QED
    BY <1>1, <1>2, <1>3, PTL DEF RdfSpec, BulkAtomic

----------------------------------------------------------------------------
(* The services together *)

LEMMA ServicesAreParts ==
    Spec => SyslogSpec /\ StatsDSpec /\ OperatorSpec /\ MonitorSpec /\ MetricsSpec /\ RdfSpec
  <1>1. Init => SyslogInit /\ StatsDInit /\ OperatorInit /\ MonitorInit /\ MetricsInit /\ RdfInit
    BY DEF Init
  <1>2. [Next]_serviceVars => [SyslogNext]_syslogVars
    BY DEF Next, serviceVars
  <1>3. [Next]_serviceVars => [StatsDNext]_statsdVars
    BY DEF Next, serviceVars
  <1>4. [Next]_serviceVars => [OperatorNext]_operatorVars
    BY DEF Next, serviceVars
  <1>5. [Next]_serviceVars => [MonitorNext]_monitorVars
    BY DEF Next, serviceVars
  <1>6. [Next]_serviceVars => [MetricsNext]_metricVars
    BY DEF Next, serviceVars
  <1>7. [Next]_serviceVars => [RdfNext]_rdfVars
    BY DEF Next, serviceVars
  <1> QED
    BY <1>1, <1>2, <1>3, <1>4, <1>5, <1>6, <1>7, PTL
    DEF Spec, SyslogSpec, StatsDSpec, OperatorSpec, MonitorSpec, MetricsSpec, RdfSpec

(* Whichever service a behaviour uses, what is shown of each of them       *)
(* holds: the others stutter (statsd.py, prometheus.py, monitor.py,        *)
(* operator.py, syslog_handler.py and rdf_store.py).                       *)
THEOREM ServicesSafe ==
    Spec => /\ [](/\ DatagramsFit /\ ValuesStamped /\ WindowsInOrder
                  /\ SyslogInv /\ OperatorInv /\ SomeoneProceeds)
            /\ BulkAtomic
  BY ServicesAreParts, StatsDDatagramsFit, MetricsValuesStamped, MonitorWindowsInOrder,
     SyslogClosed, OperatorBounded, RdfBulkAtomic, PTL
=============================================================================
