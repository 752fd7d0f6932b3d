--------------------------- MODULE DynamicMetrics ---------------------------
(***************************************************************************)
(* Gauges and histograms of src/observability/metrics/prometheus.py.  A    *)
(* value is stored under the tuple of its labels; its time stamp is stored *)
(* under a string, in a dictionary all metrics share.  update() holds a    *)
(* lock that all metrics share, so it is one step.  A name or a label      *)
(* value may contain ':', and is the sequence of the words between them.   *)
(***************************************************************************)
EXTENDS Naturals, FiniteSets, Sequences

CONSTANTS Gauges, Histograms,   \* the metrics, by full_name
          LabelSets,            \* sequences of label values
          Ttl,                  \* config.ttl of the metrics that have one
          Horizon               \* bound on the time

ASSUME MetricsAssumption == Horizon \in Nat

Metrics == Gauges \cup Histograms

VARIABLES expiring,   \* the metrics that have a ttl
          now,
          values,     \* _values of each metric: the times at which they were stored
          stamps,     \* _last_updated, as a set of [key, time]
          outcome     \* of the last call: "none", "returned" or "raised"

metricVars == <<expiring, now, values, stamps, outcome>>

NoSample == Horizon + 1   \* no value under these labels

MetricsInit ==
    /\ expiring \in SUBSET Metrics
    /\ now = 0
    /\ values = [m \in Metrics |-> [l \in LabelSets |-> NoSample]]
    /\ stamps = {} /\ outcome = "none"

Passes ==
    /\ now < Horizon
    /\ now' = now + 1
    /\ UNCHANGED <<expiring, values, stamps, outcome>>

\* _check_ttl() of a metric finds the expired stamps of all metrics.
Expired(m, S) == {s \in S : m \in expiring /\ now > s.time + Ttl}

\* MUTANT of Checked: the stamp of an expired value is removed first.
CheckedStampFirst(m, S) ==
    IF Expired(m, S) = {} THEN {[stamps |-> S, outcome |-> "returned"]}
    ELSE {[stamps |-> S \ {s}, outcome |-> "raised"] : s \in Expired(m, S)}

\* A value is to be removed under the name of its stamp, which raises
\* before either is gone.
Checked(m, S) ==
    IF Expired(m, S) = {} THEN {[stamps |-> S, outcome |-> "returned"]}
    ELSE {[stamps |-> S, outcome |-> "raised"]}

\* _cache_key(): the name and the label values joined with ':'.
CacheKey(m, l) ==
    LET join[n \in 0..Len(l)] == IF n = 0 THEN m ELSE join[n - 1] \o l[n]
    IN  join[Len(l)]

\* The stamps after a value was stored under labels l.
Stamped(m, l) ==
    {s \in stamps : s.key # CacheKey(m, l)} \cup {[key |-> CacheKey(m, l), time |-> now]}

UpdateMetric(m, l) ==
    /\ values' = [values EXCEPT ![m][l] = now]
    /\ \E r \in Checked(m, Stamped(m, l)) : stamps' = r.stamps /\ outcome' = r.outcome
    /\ UNCHANGED <<expiring, now>>

\* _validate_labels() refuses other labels.
WrongLabels ==
    /\ outcome' = "raised"
    /\ UNCHANGED <<expiring, now, values, stamps>>

Samples(m) == {l \in LabelSets : values[m][l] # NoSample}

\* A histogram takes its value for a list and raises once it has one.
CollectGauge(m) == m \in Gauges /\ outcome' = "returned"
CollectHistogram(m) ==
    m \in Histograms /\ outcome' = IF Samples(m) = {} THEN "returned" ELSE "raised"

Collect(m) ==
    /\ CollectGauge(m) \/ CollectHistogram(m)
    /\ UNCHANGED <<expiring, now, values, stamps>>

MetricsNext ==
    \/ Passes \/ WrongLabels
    \/ \E m \in Metrics : Collect(m) \/ \E l \in LabelSets : UpdateMetric(m, l)

MetricsSpec == MetricsInit /\ [][MetricsNext]_metricVars
-----------------------------------------------------------------------------
StampsAt(key) == {s \in stamps : s.key = key}

(* Every value that collect() reports has one time stamp, not older than   *)
(* the value, although metrics share their stamps, expire each other's and *)
(* raise in the middle of update(): no value becomes one that cannot       *)
(* expire (prometheus.py:67-85).                                           *)
ValuesStamped ==
    \A m \in Metrics : \A l \in Samples(m) :
        \E t \in values[m][l]..now :
            StampsAt(CacheKey(m, l)) = {[key |-> CacheKey(m, l), time |-> t]}
=============================================================================
