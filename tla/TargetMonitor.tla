---------------------------- MODULE TargetMonitor ----------------------------
(***************************************************************************)
(* target_monitor.py: the thread that watches how long the target takes to *)
(* answer while run_pipeline_with_cb scans it, and warns the dashboard.    *)
(*                                                                         *)
(* A measurement is compared with the baseline and is ok, warn (3 times as *)
(* slow), danger (6 times) or timeout (no answer).  warn_cb goes through   *)
(* the pipeline and the callback of _run_scan to _push_sse_for_job, which  *)
(* hands the message to the job's queue, drops it without a word when the  *)
(* job has no queue, or raises a KeyError when the queue goes in between;  *)
(* nothing in the thread catches it.  That the queue comes and goes, and   *)
(* what becomes of the messages in it, is module SseChannel's.             *)
(*                                                                         *)
(* stop() sets an event that the thread looks at only while it waits for   *)
(* its next measurement, and joins the thread for 5 seconds; a request may *)
(* take 10.                                                                *)
(***************************************************************************)
EXTENDS Naturals, Sequences

CONSTANTS
    Samples,     \* BASELINE_SAMPLES
    Kept,        \* the last results that are kept
    MaxChecks,   \* bounds the measurements of one scan
    MaxFaults    \* bounds the exceptions in the thread

ASSUME MonitorAssumption ==
    /\ Samples \in Nat \ {0}
    /\ Kept \in Nat \ {0}
    /\ MaxChecks \in Nat
    /\ MaxFaults \in Nat

VARIABLES
    thread,     \* where _run is
    samples,    \* requests of the baseline made
    answered,   \* one of them was answered
    inHand,     \* the result that is recorded next
    warned,
    results,
    queue,      \* the job has an entry in _job_sse_queues
    sent,       \* the last message handed to the job's queue
    dropped,    \* the last call of warn_cb found no queue
    stopped,    \* the event _stop
    caller,     \* run_pipeline_with_cb: scanning, in stop(), past summary(), or gone without it
    summary,    \* the results summary() has counted
    alarmed,    \* warn_cb was called for a danger or a timeout
    checks,
    faults

sayVars    == <<sent, dropped, faults>>
recordVars == <<inHand, warned, results, alarmed>>
threadVars == <<thread, samples, answered, checks, sayVars, recordVars>>
callerVars == <<stopped, caller, summary>>
vars == <<threadVars, queue, callerVars>>

Levels == {"ok", "warn", "danger", "timeout"}
Alarms == Levels \ {"ok"}
Severe == {"danger", "timeout"}

Init ==
    /\ thread = "starting"
    /\ samples = 0
    /\ answered = FALSE
    /\ inHand = "none"
    /\ warned = FALSE
    /\ results = <<>>
    /\ queue = TRUE
    /\ sent = "nothing"
    /\ dropped = FALSE
    /\ stopped = FALSE
    /\ caller = "scanning"
    /\ summary = <<>>
    /\ alarmed = FALSE
    /\ checks = 0
    /\ faults = 0

-----------------------------------------------------------------------------
(* The thread *)

\* warn_cb returns: the message went to the queue, or nowhere.
Say(message) ==
    /\ sent' = IF queue THEN message ELSE sent
    /\ dropped' = ~queue
    /\ UNCHANGED faults

Starts ==
    /\ thread = "starting"
    /\ Say("measuring")
    /\ thread' = "sampling"
    /\ UNCHANGED <<samples, answered, recordVars, checks, queue, callerVars>>

\* A request of the baseline; stop() is not looked at in between.
Sample(success) ==
    /\ thread = "sampling"
    /\ samples < Samples
    /\ samples' = samples + 1
    /\ answered' = (answered \/ success)
    /\ UNCHANGED <<thread, sayVars, recordVars, checks, queue, callerVars>>

\* The baseline is known, or the target never answered.
Baseline ==
    /\ thread = "sampling"
    /\ samples = Samples
    /\ \/ answered /\ Say("baseline") /\ inHand' = "ok"
       \/ ~answered /\ Say("skipped") /\ inHand' = "unreachable"
    /\ thread' = "recording"
    /\ UNCHANGED <<samples, answered, warned, results, alarmed, checks, queue, callerVars>>

\* _stop.wait() has timed out: the next request.
Check ==
    /\ thread = "waiting"
    /\ ~stopped
    /\ checks < MaxChecks
    /\ checks' = checks + 1
    /\ thread' = "asking"
    /\ UNCHANGED <<samples, answered, sayVars, recordVars, queue, callerVars>>

\* Mutated form of StopSeen: the loop goes on while the target is slow.
StopSeenWhenCalm ==
    /\ thread = "waiting"
    /\ stopped
    /\ ~warned
    /\ thread' = "over"
    /\ UNCHANGED <<samples, answered, sayVars, recordVars, checks, queue, callerVars>>

StopSeen ==
    /\ thread = "waiting"
    /\ stopped
    /\ thread' = "over"
    /\ UNCHANGED <<samples, answered, sayVars, recordVars, checks, queue, callerVars>>

\* The measurement is compared with the baseline; its result is recorded next.
Answered(level) ==
    /\ thread = "asking"
    /\ thread' = "recording"
    /\ inHand' = level
    /\ UNCHANGED <<samples, answered, results, checks, queue, callerVars>>

Alarm(level) ==
    /\ Answered(level)
    /\ Say(level)
    /\ alarmed' = (alarmed \/ level \in Severe)
    /\ UNCHANGED warned

Recovery ==
    /\ Answered("ok")
    /\ warned
    /\ Say("recovered")
    /\ warned' = FALSE
    /\ UNCHANGED alarmed

Normal ==
    /\ Answered("ok")
    /\ ~warned
    /\ UNCHANGED <<warned, alarmed, sayVars>>

\* _record: the oldest result makes room.
Keep(result) ==
    LET longer == Append(results, result)
    IN  IF Len(longer) > Kept THEN Tail(longer) ELSE longer

\* Mutated form of Records: a slow answer is not remembered.
RecordsForgetting ==
    /\ thread = "recording"
    /\ results' = Keep(inHand)
    /\ thread' = IF inHand = "unreachable" THEN "over" ELSE "waiting"
    /\ inHand' = "none"
    /\ UNCHANGED <<samples, answered, warned, alarmed, sayVars, checks, queue, callerVars>>

\* _record, and what follows it: after an alarm it is remembered, a target that
\* never answered is not watched.
Records ==
    /\ thread = "recording"
    /\ results' = Keep(inHand)
    /\ warned' = (warned \/ inHand \in Alarms)
    /\ thread' = IF inHand = "unreachable" THEN "over" ELSE "waiting"
    /\ inHand' = "none"
    /\ UNCHANGED <<samples, answered, alarmed, sayVars, checks, queue, callerVars>>

\* An exception ends the thread: warn_cb raises, or the baseline was so short that
\* it was rounded to 0.0, by which a measurement is divided.
Raises ==
    /\ \/ thread \in {"starting", "asking"}
       \/ thread = "sampling" /\ samples = Samples
    /\ faults < MaxFaults
    /\ faults' = faults + 1
    /\ thread' = "over"
    /\ UNCHANGED <<samples, answered, sent, dropped, recordVars, checks, queue, callerVars>>

\* The job's entry in _job_sse_queues: a stream has ended, or a page connects.
QueueChanges ==
    /\ queue' = ~queue
    /\ UNCHANGED <<threadVars, callerVars>>

-----------------------------------------------------------------------------
(* run_pipeline_with_cb *)

\* stop() after the last stage.
Stop ==
    /\ caller = "scanning"
    /\ caller' = "joining"
    /\ stopped' = TRUE
    /\ UNCHANGED <<threadVars, queue, summary>>

\* The scan is cancelled or fails: stop() is not called.
Abandons ==
    /\ caller = "scanning"
    /\ caller' = "gone"
    /\ UNCHANGED <<threadVars, queue, stopped, summary>>

Summarise ==
    /\ caller = "joining"
    /\ caller' = "summed"
    /\ summary' = results
    /\ UNCHANGED <<threadVars, queue, stopped>>

Joins == thread = "over" /\ Summarise

\* Five seconds are over before the request is, or as its result is recorded.
JoinExpires == thread \in {"sampling", "asking", "recording"} /\ Summarise

\* Mutated form of LoadDetected: an answer that never came does not count.
LoadDetectedByDelay(counted) == \E i \in DOMAIN counted : counted[i] = "danger"

\* load_detected of a summary over these results.
LoadDetected(counted) == \E i \in DOMAIN counted : counted[i] \in Severe

-----------------------------------------------------------------------------
ThreadStep ==
    \/ Starts
    \/ \E success \in BOOLEAN : Sample(success)
    \/ Baseline
    \/ Check
    \/ StopSeen
    \/ \E level \in Alarms : Alarm(level)
    \/ Recovery
    \/ Normal
    \/ Records
    \/ Raises

Next ==
    \/ ThreadStep
    \/ QueueChanges
    \/ Stop
    \/ Abandons
    \/ Joins
    \/ JoinExpires

Spec == Init /\ [][Next]_vars

\* The thread is scheduled and its requests end.
FairSpec == Spec /\ WF_vars(ThreadStep)
=============================================================================
