-------------------------- MODULE TargetMonitorProps --------------------------
(***************************************************************************)
(* What the monitor promises to the dashboard and to the end of the scan.  *)
(***************************************************************************)
EXTENDS TargetMonitor

TypeOK ==
    /\ thread \in {"starting", "sampling", "waiting", "asking", "recording", "over"}
    /\ samples \in 0..Samples
    /\ answered \in BOOLEAN
    /\ inHand \in Levels \union {"unreachable", "none"}
    /\ warned \in BOOLEAN
    /\ results \in Seq(Levels \union {"unreachable"})
    /\ Len(results) <= Kept
    /\ queue \in BOOLEAN /\ dropped \in BOOLEAN
    /\ sent \in {"nothing", "measuring", "baseline", "skipped", "recovered"} \union Alarms
    /\ stopped \in BOOLEAN
    /\ caller \in {"scanning", "joining", "summed", "gone"}
    /\ summary \in Seq(Levels \union {"unreachable"})
    /\ alarmed \in BOOLEAN
    /\ checks \in 0..MaxChecks
    /\ faults \in 0..MaxFaults

\* Unless the last warning was dropped for want of a queue, what the monitor sent
\* last is an alarm exactly when the last measurement was one: no alarm is left
\* standing after the target has recovered, and a recovery is announced only after
\* an alarm, whatever was dropped before, and also when an exception or stop() has
\* ended the thread.
AlarmIsCurrent ==
    thread # "recording" /\ results # <<>> /\ ~dropped =>
        (sent \in Alarms <=> results[Len(results)] \in Alarms)

\* The final report lacks at most one result, that of the measurement stop() did
\* not wait for; and as long as no result had to make room, the results, with the
\* one in hand, know of a danger or a timeout exactly when it was warned of.
LoadReported ==
    checks < Kept =>
        /\ caller = "summed" =>
              \/ results = summary
              \/ \E late \in Levels \union {"unreachable"} : results = Append(summary, late)
        /\ alarmed <=> LoadDetected(results) \/ inHand \in Severe

\* A thread told to stop ends, also when stop() has given up waiting for it.
MonitorEnds == stopped ~> thread = "over"

\* summary(): it returns the final report.
SummaryIsFinal == caller = "summed" => results = summary

\* The header of target_monitor.py: the response time is measured periodically
\* during the scan.  So the thread of a reachable target lives while it lasts.
MonitoredThroughout == caller = "scanning" /\ answered => thread # "over"
=============================================================================
