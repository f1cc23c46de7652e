-------------------------- MODULE ScanPipelineProps --------------------------
(***************************************************************************)
(* What the scan worker promises.                                          *)
(***************************************************************************)
EXTENDS ScanPipeline

TypeOK ==
    /\ status \in [Runs -> {"running"} \union Fates]
    /\ progress \in [Runs -> 0..100]
    /\ cancelFlags \subseteq Runs
    /\ main \in [Runs -> MainPc]
    /\ late \in [Runs -> 0..LastStage]
    /\ fate \in [Runs -> Fates]
    /\ finished \in [Runs -> 0..Scanners]
    /\ seen \in [Runs -> 0..Scanners]
    /\ zap \in [Runs -> ZapPc]
    /\ acquired \in [Runs -> BOOLEAN]
    /\ aborted \in [Runs -> BOOLEAN]
    /\ zapLock \in Runs \union {NoRun}
    /\ maxPct \in [Runs -> 0..100]
    /\ mainWrite \in [Runs -> 0..100 \union {NoWrite}]
    /\ zapWrite \in [Runs -> 0..100 \union {NoWrite}]
    /\ monitor \subseteq Runs
    /\ reports \subseteq Runs
    /\ faults \in 0..MaxFaults

\* The runs whose thread is inside run_scanner("zap").
UsingZap == {r \in Runs : zap[r] \in {"scanning", "reported"}}

\* "ZAP is a single daemon: one at a time".  Two runs never drive ZAP at the
\* same time, also when an acquire timed out, a write failed under the lock or
\* the run that holds it was cancelled long ago.
ZapExclusive == \A r, s \in UsingZap : r = s

\* Where a run is, seen from the lock.
ZapPlace(r) ==
    IF r \in UsingZap \/ acquired[r] THEN "inside"
    ELSE IF zap[r] \in {"none", "begin"} THEN "out"
    ELSE IF zap[r] = "acquiring" THEN "waiting"
    ELSE "left"

Lock == INSTANCE ZapLock WITH
    Clients <- Runs,
    Process <- [r \in Runs |-> "server"],
    at      <- [r \in Runs |-> ZapPlace(r)]

\* To the scans of the server the ZAP thread is a client of ZapLock: it does not
\* come in while somebody is inside or after it gave up, and it leaves once.
ImplementsZapLock == Lock!Spec

\* A row that says 'done' was written when every scanner and the ZAP thread had
\* ended, and keeps its 100 per cent: no thread of the run reports late.
DoneIsFinal ==
    \A r \in Runs : status[r] = "done" =>
        /\ progress[r] = 100
        /\ zap[r] = "ended" /\ zapWrite[r] = NoWrite
        /\ finished[r] = Scanners

\* A cancel that made the ZAP thread give up its scan, which then counts as one
\* without findings, is still seen by main: no such run ends as done with ZAP's
\* findings missing.
AbortedIsNotDone == \A r \in Runs : aborted[r] => fate[r] # "done"

\* No report of a cancelled scan is saved.
CancelledSavesNothing == \A r \in Runs : fate[r] = "cancelled" => r \notin reports

\* A run ends and its end is recorded, whichever thread is cancelled or fails
\* and wherever: main waits for nobody who waits for main.
EveryRunEnds == \A r \in Runs : main[r] = "start" ~> main[r] = "recorded"

\* Nobody keeps the ZAP lock: not a run that was cancelled, and whose main has
\* left its ZAP thread behind, either.
ZapLockReturns == \A r \in Runs : zapLock = r ~> zapLock # r

-----------------------------------------------------------------------------
(* Statements of comments and answers that the code does not keep *)

\* pipeline.py, "two threads call it: always the maximum (no going back)": the
\* row's progress never goes back while the scan runs.
ProgressNeverGoesBack ==
    [][\A r \in Runs : status[r] = "running" => progress'[r] >= progress[r]]_vars

\* api_cancel_scan's answer, "will be stopped after the current stage": no ZAP
\* scan is started for a job that is recorded as cancelled.
NoZapScanAfterCancelled ==
    [][\A r \in Runs :
          zap[r] # "scanning" /\ zap'[r] = "scanning" => status[r] # "cancelled"]_vars

\* TargetHealthMonitor's usage, "try: run_scan(...) finally: monitor.stop()": a
\* run that ended has stopped its monitor.
MonitorStopped == \A r \in Runs : main[r] = "recorded" => r \notin monitor
=============================================================================
