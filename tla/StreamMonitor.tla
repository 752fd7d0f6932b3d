--------------------------- MODULE StreamMonitor ---------------------------
(***************************************************************************)
(* RealTimeMonitor (src/core/cli/commands/monitor.py): points are ingested *)
(* while the generator process_stream() turns one window after the other   *)
(* into a report.  Time is counted in correlation intervals: window w ends *)
(* at w + 1.  Which points are anomalies is a matter of statistics and     *)
(* left open.                                                              *)
(*                                                                         *)
(* The standard logger refuses the keyword arguments of the alert unless   *)
(* its level is disabled, so a window with a correlated event is not       *)
(* reported and is processed again until its anomalies are others.         *)
(***************************************************************************)
EXTENDS Naturals, Sequences, FiniteSetsExt

CONSTANTS MinPoints,    \* points below which nothing is an anomaly (10 in the code)
          Retained,     \* sampling_rate * retention_window
          MaxClock      \* bound on the time

VARIABLES warnings,   \* the logger's level admits warnings
          points,     \* _stream_buffer: the metric of a point and whether it exceeds 90
          clock,
          window,     \* current_window
          stream,     \* the generator: "running", "yielded" or "closed"
          reports     \* windows yielded so far

monitorVars == <<warnings, points, clock, window, stream, reports>>

Point == [metric : {"cpu", "memory"}, high : BOOLEAN]

MonitorInit ==
    /\ warnings \in BOOLEAN
    /\ points = <<>>
    /\ clock = 0 /\ window = 0
    /\ stream = "running" /\ reports = <<>>

\* ingest_data(); a point whose source is refused leaves no trace.
IngestData(p) ==
    /\ points' = IF Len(points) < Retained THEN Append(points, p) ELSE Append(Tail(points), p)
    /\ UNCHANGED <<warnings, clock, window, stream, reports>>

TimePasses ==
    /\ clock < MaxClock
    /\ clock' = clock + 1
    /\ UNCHANGED <<warnings, points, window, stream, reports>>

\* _detect_anomalies(), as sets of places in the buffer
Anomalies == IF Len(points) < MinPoints THEN {{}} ELSE SUBSET (1..Len(points))

\* _correlate_events(): the last anomaly of either metric counts.
Correlated(S) ==
    \A m \in {"cpu", "memory"} :
        LET places == {i \in S : points[i].metric = m}
        IN  places # {} /\ points[Max(places)].high

Due == stream = "running" /\ clock >= window + 1

\* MUTANT of Rotated: a window is also given up when its processing fails.
RotatedAnyway(reported) == window + 1

\* The window an iteration of the loop leaves behind: a report is followed
\* by the next window once the consumer asks for it, a failure by a retry.
Rotated(reported) == IF reported THEN window + 1 ELSE window

\* _calculate_statistics() of no anomalies may raise (numpy's percentile).
NoStatistics(S) == S = {}

\* _trigger_actions() raises.
AlertFails(S) == Correlated(S) /\ warnings

\* A circuit breaker that is open after such failures has the same effect.
ProcessFails(S) ==
    /\ Due /\ (NoStatistics(S) \/ AlertFails(S))
    /\ window' = Rotated(FALSE)
    /\ UNCHANGED <<warnings, points, clock, stream, reports>>

Report(S) ==
    /\ Due /\ ~AlertFails(S)
    /\ reports' = Append(reports, window)
    /\ stream' = "yielded"
    /\ UNCHANGED <<warnings, points, clock, window>>

ConsumerResumes ==
    /\ stream = "yielded"
    /\ window' = Rotated(TRUE)
    /\ stream' = "running"
    /\ UNCHANGED <<warnings, points, clock, reports>>

ConsumerStops ==
    /\ stream # "closed"
    /\ stream' = "closed"
    /\ UNCHANGED <<warnings, points, clock, window, reports>>

MonitorNext ==
    \/ \E p \in Point : IngestData(p)
    \/ \E S \in Anomalies : Report(S) \/ ProcessFails(S)
    \/ TimePasses \/ ConsumerResumes \/ ConsumerStops

MonitorSpec == MonitorInit /\ [][MonitorNext]_monitorVars
-----------------------------------------------------------------------------
(* The consumer gets every window once, in order and after its end, with   *)
(* none left out, however often processing fails and however late the      *)
(* consumer asks for the next one (monitor.py:130-155).                    *)
WindowsInOrder ==
    /\ Len(reports) \in {window, window + 1}
    /\ Len(reports) <= clock
    /\ \A i \in 1..Len(reports) : reports[i] = i - 1
=============================================================================
