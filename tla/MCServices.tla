----------------------------- MODULE MCServices -----------------------------
(***************************************************************************)
(* The clients of the syslog and StatsD servers, the operator, a client of *)
(* the Kubernetes API, the stream monitor, the Prometheus metrics and the  *)
(* triple store for TLC.  They share nothing inside the program, so a      *)
(* behaviour is one of a single part and the others stay as they are.      *)
(***************************************************************************)
EXTENDS SyslogHandler, StatsD, Operator, StreamMonitor, DynamicMetrics, RdfStore

VARIABLE service   \* the part that is used

\* Names without ':', and two sets of labels that differ in where it is:
\* ("a:b", "c") and ("a", "b:c").
MCGauges == {<<"g">>}
MCHistograms == {<<"h">>}
MCLabelSets == {<< <<"a", "b">>, <<"c">> >>, << <<"a">>, <<"b", "c">> >>}

serviceVars == <<service, syslogVars, statsdVars, operatorVars, monitorVars, metricVars, rdfVars>>

Init ==
    /\ service \in {"syslog", "statsd", "operator", "monitor", "metrics", "rdf"}
    /\ SyslogInit /\ StatsDInit /\ OperatorInit /\ MonitorInit /\ MetricsInit /\ RdfInit
    /\ service # "metrics" => expiring = {}
    /\ service # "monitor" => warnings
    /\ service # "statsd" => protocol = "udp"

Next ==
    /\ UNCHANGED service
    /\ \/ service = "syslog" /\ SyslogNext /\ UNCHANGED <<statsdVars, operatorVars, monitorVars, metricVars, rdfVars>>
       \/ service = "statsd" /\ StatsDNext /\ UNCHANGED <<syslogVars, operatorVars, monitorVars, metricVars, rdfVars>>
       \/ service = "operator" /\ OperatorNext /\ UNCHANGED <<syslogVars, statsdVars, monitorVars, metricVars, rdfVars>>
       \/ service = "monitor" /\ MonitorNext /\ UNCHANGED <<syslogVars, statsdVars, operatorVars, metricVars, rdfVars>>
       \/ service = "metrics" /\ MetricsNext /\ UNCHANGED <<syslogVars, statsdVars, operatorVars, monitorVars, rdfVars>>
       \/ service = "rdf" /\ RdfNext /\ UNCHANGED <<syslogVars, statsdVars, operatorVars, monitorVars, metricVars>>

\* Fairness is asked of the part that is used.
Spec ==
    /\ Init /\ [][Next]_serviceVars
    /\ service = "syslog" => SyslogFairness
    /\ service = "operator" => OperatorFairness
=============================================================================
