---------------------------- MODULE ScanPipeline ----------------------------
(***************************************************************************)
(* The scan worker of sls_scanner/core/pipeline.py, run_pipeline_with_cb:  *)
(* what ScanScheduler knows as a task in "scanning" and "reporting".  Each *)
(* run of it, one per job, has several threads:                            *)
(*                                                                         *)
(*  - main, which starts the others, polls the pool of scanners, waits for *)
(*    the ZAP thread and goes through the late stages;                     *)
(*  - the scanners of the pool, which only finish;                         *)
(*  - the ZAP thread, which runs ZAP under _zap_lock, a lock of all runs;  *)
(*  - the monitor of the target's response times.                          *)
(*                                                                         *)
(* Main and the ZAP thread report progress through _safe_cb: the           *)
(* percentage is raised to the maximum reported so far under a mutex, and  *)
(* written to the job's row after the mutex is released.  A report is      *)
(* therefore two steps, and its thread does nothing else between them.     *)
(* Once the ZAP thread was joined nobody else reports, and it is one step. *)
(* A write may fail; the exception then unwinds the thread that wrote.     *)
(***************************************************************************)
EXTENDS Integers, Sequences, FiniteSets

CONSTANTS
    Runs,          \* the runs, named by their jobs
    NoRun,
    Cancellable,   \* the runs whose user may ask to cancel: bounds a model
    Scanners,      \* how many scanners the pool runs (five in the code)
    Findings,      \* how many findings the PoC stage goes through
    ZapPercents,   \* percentages ZAP's phases report, after the remapping
    MaxFaults      \* bounds the failed writes and the raised exceptions

ASSUME PipelineAssumption ==
    /\ NoRun \notin Runs
    /\ Cancellable \subseteq Runs
    /\ Scanners \in Nat \ {0}
    /\ Findings \in Nat
    /\ ZapPercents \subseteq 33..43
    /\ MaxFaults \in Nat

VARIABLES
    status, progress,      \* the job's row, from _run_scan's 'running' on
    cancelFlags,
    main, late, fate,      \* main's place, its late stage, how the run ends
    finished, seen,        \* scanners that have finished, and len(done_set)
    zap, acquired, aborted,
    zapLock,
    maxPct,                \* _max_pct
    mainWrite, zapWrite,   \* the percentage a thread is about to write
    monitor,               \* the monitors that were started and not stopped
    reports,               \* the runs that saved their reports
    faults

row      == <<status, progress>>
mainVars == <<main, late, fate, seen, reports>>
zapVars  == <<zap, acquired, aborted, zapLock>>
pctVars  == <<maxPct, mainWrite, zapWrite>>
vars     == <<row, cancelFlags, mainVars, finished, zapVars, pctVars, monitor, faults>>

NoWrite == -1

MainPc == {"start", "submit", "poll", "collect", "draining", "results",
           "check", "join", "late", "ended", "recorded"}
ZapPc  == {"none", "begin", "acquiring", "scanning", "reported", "releasing", "ended"}
Fates  == {"none", "done", "cancelled", "error"}

\* The percentages reported after the ZAP thread was joined, and the stages
\* that are followed by a _check_cancel: the scans, the normalisation, the CVE
\* lookup, and every PoC but the last.
LatePercents ==
    <<44, 45, 50, 52, 60>> \o [i \in 1..Findings |-> 60 + (i * 28) \div Findings]
                           \o <<90, 92, 98, 100>>
CveStage   == 4
PocStages  == 6..(5 + Findings)
SavedStage == Len(LatePercents) - 1
LastStage  == Len(LatePercents)

\* Mutated form of Checked: one more check, after the reports were saved.
CheckedAfterSaving ==
    {1, 3, 5, SavedStage} \union {i \in PocStages : i + 1 \in PocStages}

Checked == {1, 3, 5} \union {i \in PocStages : i + 1 \in PocStages}

MainAt(r, place) == main[r] = place /\ mainWrite[r] = NoWrite
ZapAt(r, place) == zap[r] = place /\ zapWrite[r] = NoWrite

\* _safe_cb: the maximum is raised, the write of it is to come.
Raised(r, pct) == IF pct > maxPct[r] THEN pct ELSE maxPct[r]

MainReports(r, pct) ==
    /\ maxPct' = [maxPct EXCEPT ![r] = Raised(r, pct)]
    /\ mainWrite' = [mainWrite EXCEPT ![r] = Raised(r, pct)]
    /\ UNCHANGED zapWrite

ZapReports(r, pct) ==
    /\ maxPct' = [maxPct EXCEPT ![r] = Raised(r, pct)]
    /\ zapWrite' = [zapWrite EXCEPT ![r] = Raised(r, pct)]
    /\ UNCHANGED mainWrite

Fault == faults < MaxFaults /\ faults' = faults + 1

-----------------------------------------------------------------------------
Init ==
    /\ status = [r \in Runs |-> "running"]
    /\ progress = [r \in Runs |-> 0]
    /\ cancelFlags = {}
    /\ main = [r \in Runs |-> "start"]
    /\ late = [r \in Runs |-> 0]
    /\ fate = [r \in Runs |-> "none"]
    /\ finished = [r \in Runs |-> 0]
    /\ seen = [r \in Runs |-> 0]
    /\ zap = [r \in Runs |-> "none"]
    /\ acquired = [r \in Runs |-> FALSE]
    /\ aborted = [r \in Runs |-> FALSE]
    /\ zapLock = NoRun
    /\ maxPct = [r \in Runs |-> 3]
    /\ mainWrite = [r \in Runs |-> NoWrite]
    /\ zapWrite = [r \in Runs |-> NoWrite]
    /\ monitor = {}
    /\ reports = {}
    /\ faults = 0

-----------------------------------------------------------------------------
(* The API's side *)

\* api_cancel_scan
Cancel(r) ==
    /\ r \in Cancellable
    /\ status[r] = "running"
    /\ cancelFlags' = cancelFlags \union {r}
    /\ UNCHANGED <<row, mainVars, finished, zapVars, pctVars, monitor, faults>>

\* _run_scan after its await.
Record(r) ==
    /\ MainAt(r, "ended")
    /\ main' = [main EXCEPT ![r] = "recorded"]
    /\ status' = [status EXCEPT ![r] = fate[r]]
    /\ progress' = [progress EXCEPT ![r] = IF fate[r] = "done" THEN 100 ELSE @]
    /\ UNCHANGED <<cancelFlags, late, fate, seen, reports, finished, zapVars,
                   pctVars, monitor, faults>>

-----------------------------------------------------------------------------
(* Main *)

\* main goes on at place, or leaves for place with an exception.
Goto(r, place) ==
    /\ main' = [main EXCEPT ![r] = place]
    /\ UNCHANGED fate

Leave(r, place, why) ==
    /\ main' = [main EXCEPT ![r] = place]
    /\ fate' = [fate EXCEPT ![r] = why]

\* _check_cancel of a requested cancel, in the phases that still use _safe_cb:
\* its -1 comes out of _safe_cb as the maximum.
CancelledInScan(r, place) ==
    /\ r \in cancelFlags
    /\ cancelFlags' = cancelFlags \ {r}
    /\ Leave(r, place, "cancelled")
    /\ MainReports(r, -1)

\* The checks, the monitor's and the ZAP thread's start, and the first report.
Launch(r) ==
    /\ MainAt(r, "start")
    /\ \/ /\ r \in cancelFlags
          /\ cancelFlags' = cancelFlags \ {r}
          /\ Leave(r, "ended", "cancelled")
          /\ UNCHANGED pctVars
          /\ UNCHANGED <<zap, monitor>>
       \/ /\ r \notin cancelFlags
          /\ monitor' = monitor \union {r}
          /\ zap' = [zap EXCEPT ![r] = "begin"]
          /\ MainReports(r, 5)
          /\ Goto(r, "submit")
          /\ UNCHANGED cancelFlags
    /\ UNCHANGED <<row, late, seen, reports, finished, acquired, aborted, zapLock, faults>>

\* The pool and its scanners are started.
Submit(r) ==
    /\ MainAt(r, "submit")
    /\ Goto(r, "poll")
    /\ UNCHANGED <<row, cancelFlags, late, seen, reports, finished, zapVars,
                   pctVars, monitor, faults>>

\* The head of the loop over the pool.  Leaving the with block by an exception
\* waits for the pool ("draining").
Poll(r) ==
    /\ MainAt(r, "poll")
    /\ \/ CancelledInScan(r, "draining")
       \/ r \notin cancelFlags /\ Goto(r, "collect") /\ UNCHANGED pctVars /\ UNCHANGED cancelFlags
    /\ UNCHANGED <<row, late, seen, reports, finished, zapVars, monitor, faults>>

\* Mutated form of Collect: the loop goes on for one scanner too many.
CollectOneTooMany(r) ==
    /\ MainAt(r, "collect")
    /\ \/ /\ seen[r] < finished[r]
          /\ seen' = [seen EXCEPT ![r] = @ + 1]
          /\ MainReports(r, 5 + ((seen[r] + 1) * 25) \div Scanners)
          /\ UNCHANGED <<main, fate>>
       \/ /\ seen[r] = finished[r]
          /\ Goto(r, IF seen[r] <= Scanners THEN "poll" ELSE "results")
          /\ UNCHANGED pctVars
          /\ UNCHANGED seen
    /\ UNCHANGED <<row, cancelFlags, late, reports, finished, zapVars, monitor, faults>>

\* Its body: one report per scanner found finished.
Collect(r) ==
    /\ MainAt(r, "collect")
    /\ \/ /\ seen[r] < finished[r]
          /\ seen' = [seen EXCEPT ![r] = @ + 1]
          /\ MainReports(r, 5 + ((seen[r] + 1) * 25) \div Scanners)
          /\ UNCHANGED <<main, fate>>
       \/ /\ seen[r] = finished[r]
          /\ Goto(r, IF seen[r] < Scanners THEN "poll" ELSE "results")
          /\ UNCHANGED pctVars
          /\ UNCHANGED seen
    /\ UNCHANGED <<row, cancelFlags, late, reports, finished, zapVars, monitor, faults>>

Drained(r) ==
    /\ MainAt(r, "draining")
    /\ finished[r] = Scanners
    /\ Goto(r, "ended")
    /\ UNCHANGED <<row, cancelFlags, late, seen, reports, finished, zapVars,
                   pctVars, monitor, faults>>

\* The five result() and the report of 31%.
Results(r) ==
    /\ MainAt(r, "results")
    /\ Goto(r, "check")
    /\ MainReports(r, 31)
    /\ UNCHANGED <<row, cancelFlags, late, seen, reports, finished, zapVars, monitor, faults>>

CheckBeforeJoin(r) ==
    /\ MainAt(r, "check")
    /\ \/ CancelledInScan(r, "ended")
       \/ r \notin cancelFlags /\ Goto(r, "join") /\ UNCHANGED pctVars /\ UNCHANGED cancelFlags
    /\ UNCHANGED <<row, late, seen, reports, finished, zapVars, monitor, faults>>

\* Mutated form of Join: the ZAP thread is not waited for.
JoinNobody(r) ==
    /\ MainAt(r, "join")
    /\ Goto(r, "late")
    /\ late' = [late EXCEPT ![r] = 1]
    /\ progress' = [progress EXCEPT ![r] = LatePercents[1]]
    /\ UNCHANGED <<status, cancelFlags, seen, reports, finished, zapVars,
                   pctVars, monitor, faults>>

\* zap_thread.join().  zap_exception is None here: run_zap_scan turns every
\* exception raised under it into an empty result.
Join(r) ==
    /\ MainAt(r, "join")
    /\ zap[r] = "ended"
    /\ Goto(r, "late")
    /\ late' = [late EXCEPT ![r] = 1]
    /\ progress' = [progress EXCEPT ![r] = LatePercents[1]]
    /\ UNCHANGED <<status, cancelFlags, seen, reports, finished, zapVars,
                   pctVars, monitor, faults>>

\* The next late stage.  There is no CVE stage without a CVE, and no PoC stage
\* without a finding.
NextStage(r) ==
    /\ main[r] = "late"
    /\ late[r] < LastStage
    /\ ~(late[r] \in Checked /\ r \in cancelFlags)
    /\ \E i \in {late[r] + 1, late[r] + 2} :
          /\ i = late[r] + 2 => late[r] + 1 = CveStage
          /\ i = CveStage => Findings > 0
          /\ late' = [late EXCEPT ![r] = i]
          /\ progress' = [progress EXCEPT ![r] = LatePercents[i]]
          /\ reports' = IF i = SavedStage THEN reports \union {r} ELSE reports
    /\ UNCHANGED <<status, cancelFlags, main, fate, seen, finished, zapVars,
                   pctVars, monitor, faults>>

\* _check_cancel of a requested cancel: no percentage changes.
CancelledLate(r) ==
    /\ main[r] = "late"
    /\ late[r] \in Checked
    /\ r \in cancelFlags
    /\ cancelFlags' = cancelFlags \ {r}
    /\ Leave(r, "ended", "cancelled")
    /\ UNCHANGED <<row, late, seen, reports, finished, zapVars,
                   pctVars, monitor, faults>>

\* monitor.stop() and the return.
Complete(r) ==
    /\ main[r] = "late"
    /\ late[r] = LastStage
    /\ Leave(r, "ended", "done")
    /\ monitor' = monitor \ {r}
    /\ UNCHANGED <<row, cancelFlags, late, seen, reports, finished, zapVars,
                   pctVars, faults>>

\* Where an exception takes main.
Escape(r) == IF main[r] \in {"poll", "collect", "draining"} THEN "draining" ELSE "ended"

\* validate_target, a result() or a late stage raises, or a late write fails.
MainRaises(r) ==
    /\ \/ MainAt(r, "start")
       \/ MainAt(r, "results")
       \/ main[r] = "late" /\ late[r] < LastStage
    /\ Leave(r, "ended", "error")
    /\ Fault
    /\ UNCHANGED <<row, cancelFlags, late, seen, reports, finished, zapVars,
                   pctVars, monitor>>

-----------------------------------------------------------------------------
(* The pool, the ZAP thread and the monitor *)

\* A future of the pool is done.  The pool exists between Submit and the end of
\* the with block.
ScannerFinishes(r) ==
    /\ main[r] \in {"poll", "collect", "draining"}
    /\ finished[r] < Scanners
    /\ finished' = [finished EXCEPT ![r] = @ + 1]
    /\ UNCHANGED <<row, cancelFlags, mainVars, zapVars, pctVars, monitor, faults>>

ZapGoto(r, place) == zap' = [zap EXCEPT ![r] = place]
ZapOnly == UNCHANGED <<row, cancelFlags, mainVars, finished, monitor, faults>>

ZapBegins(r) ==
    /\ ZapAt(r, "begin")
    /\ ZapGoto(r, "acquiring")
    /\ ZapReports(r, 5)
    /\ ZapOnly /\ UNCHANGED <<acquired, aborted, zapLock>>

\* _zap_lock.acquire(timeout=zap_timeout) and the report that follows: whoever
\* comes when the lock is free gets it.
ZapAcquires(r) ==
    /\ ZapAt(r, "acquiring")
    /\ zapLock = NoRun
    /\ zapLock' = r
    /\ acquired' = [acquired EXCEPT ![r] = TRUE]
    /\ ZapGoto(r, "scanning")
    /\ ZapReports(r, 33)
    /\ ZapOnly /\ UNCHANGED aborted

\* Mutated form of ZapTimesOut: the result of acquire() is not looked at.
ZapScansWithoutLock(r) ==
    /\ ZapAt(r, "acquiring")
    /\ zapLock # NoRun
    /\ ZapGoto(r, "scanning")
    /\ ZapReports(r, 33)
    /\ ZapOnly /\ UNCHANGED <<acquired, aborted, zapLock>>

ZapTimesOut(r) ==
    /\ ZapAt(r, "acquiring")
    /\ zapLock # NoRun
    /\ ZapGoto(r, "releasing")
    /\ ZapReports(r, 43)
    /\ ZapOnly /\ UNCHANGED <<acquired, aborted, zapLock>>

\* _zap_pcb: a report first, then a look at the flag, which it does not consume.
ZapProgress(r) ==
    /\ ZapAt(r, "scanning")
    /\ \E pct \in ZapPercents : ZapReports(r, pct)
    /\ ZapGoto(r, "reported")
    /\ ZapOnly /\ UNCHANGED <<acquired, aborted, zapLock>>

\* Mutated form of ZapChecks: the flag is popped, as _check_cancel does.
ZapConsumesFlag(r) ==
    /\ ZapAt(r, "reported")
    /\ ZapGoto(r, IF r \in cancelFlags THEN "releasing" ELSE "scanning")
    /\ aborted' = [aborted EXCEPT ![r] = @ \/ r \in cancelFlags]
    /\ cancelFlags' = cancelFlags \ {r}
    /\ UNCHANGED <<row, mainVars, finished, acquired, zapLock, pctVars, monitor, faults>>

ZapChecks(r) ==
    /\ ZapAt(r, "reported")
    /\ ZapGoto(r, IF r \in cancelFlags THEN "releasing" ELSE "scanning")
    /\ aborted' = [aborted EXCEPT ![r] = @ \/ r \in cancelFlags]
    /\ UNCHANGED pctVars /\ ZapOnly /\ UNCHANGED <<acquired, zapLock>>

\* run_scanner("zap") returns; it never raises.
ZapScanned(r) ==
    /\ ZapAt(r, "scanning")
    /\ ZapGoto(r, "releasing")
    /\ UNCHANGED pctVars /\ ZapOnly /\ UNCHANGED <<acquired, aborted, zapLock>>

\* Mutated form of ZapReleases: no release after a cancelled scan.
ZapReleasesUnlessAborted(r) ==
    /\ ZapAt(r, "releasing")
    /\ ZapGoto(r, "ended")
    /\ zapLock' = IF acquired[r] /\ ~aborted[r] THEN NoRun ELSE zapLock
    /\ acquired' = [acquired EXCEPT ![r] = FALSE]
    /\ UNCHANGED pctVars /\ ZapOnly /\ UNCHANGED aborted

\* The finally of _zap_runner.
ZapReleases(r) ==
    /\ ZapAt(r, "releasing")
    /\ ZapGoto(r, "ended")
    /\ zapLock' = IF acquired[r] THEN NoRun ELSE zapLock
    /\ acquired' = [acquired EXCEPT ![r] = FALSE]
    /\ UNCHANGED pctVars /\ ZapOnly /\ UNCHANGED aborted

-----------------------------------------------------------------------------
(* The second half of a report: update_job(phase, progress) *)

MainWrites(r) ==
    /\ mainWrite[r] # NoWrite
    /\ progress' = [progress EXCEPT ![r] = mainWrite[r]]
    /\ mainWrite' = [mainWrite EXCEPT ![r] = NoWrite]
    /\ UNCHANGED <<status, cancelFlags, mainVars, finished, zapVars,
                   maxPct, zapWrite, monitor, faults>>

MainWriteFails(r) ==
    /\ mainWrite[r] # NoWrite
    /\ mainWrite' = [mainWrite EXCEPT ![r] = NoWrite]
    /\ Leave(r, Escape(r), "error")
    /\ Fault
    /\ UNCHANGED <<row, cancelFlags, late, seen, reports, finished, zapVars,
                   maxPct, zapWrite, monitor>>

ZapWrites(r) ==
    /\ zapWrite[r] # NoWrite
    /\ progress' = [progress EXCEPT ![r] = zapWrite[r]]
    /\ zapWrite' = [zapWrite EXCEPT ![r] = NoWrite]
    /\ UNCHANGED <<status, cancelFlags, mainVars, finished, zapVars,
                   maxPct, mainWrite, monitor, faults>>

\* Before the try of _zap_runner the thread dies; in it, its finally runs.
ZapWriteFails(r) ==
    /\ zapWrite[r] # NoWrite
    /\ zapWrite' = [zapWrite EXCEPT ![r] = NoWrite]
    /\ ZapGoto(r, IF zap[r] = "acquiring" THEN "ended" ELSE "releasing")
    /\ Fault
    /\ UNCHANGED <<row, cancelFlags, mainVars, finished, acquired, aborted, zapLock,
                   maxPct, mainWrite, monitor>>

-----------------------------------------------------------------------------
MainStep(r) ==
    \/ Launch(r) \/ Submit(r) \/ Poll(r) \/ Collect(r) \/ Drained(r) \/ Results(r)
    \/ CheckBeforeJoin(r) \/ Join(r) \/ NextStage(r) \/ CancelledLate(r)
    \/ Complete(r) \/ MainRaises(r)
    \/ MainWrites(r) \/ MainWriteFails(r)

ZapStep(r) ==
    \/ ZapBegins(r) \/ ZapAcquires(r) \/ ZapTimesOut(r) \/ ZapProgress(r)
    \/ ZapChecks(r) \/ ZapScanned(r) \/ ZapReleases(r)
    \/ ZapWrites(r) \/ ZapWriteFails(r)

Next ==
    \E r \in Runs :
        \/ Cancel(r) \/ Record(r)
        \/ MainStep(r) \/ ZapStep(r)
        \/ ScannerFinishes(r)

Spec == Init /\ [][Next]_vars

\* Every thread goes on, every scanner has a timeout, the polls of ZAP have
\* one as well, so that its scan does not report for ever.
Fairness ==
    \A r \in Runs :
        /\ WF_vars(Record(r))
        /\ WF_vars(MainStep(r)) /\ WF_vars(ZapStep(r))
        /\ WF_vars(ScannerFinishes(r))
        /\ SF_vars(ZapScanned(r))

FairSpec == Spec /\ Fairness
=============================================================================
