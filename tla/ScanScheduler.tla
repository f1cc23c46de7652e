---------------------------- MODULE ScanScheduler ----------------------------
(***************************************************************************)
(* The scan scheduler of api.py: from the request of a scan to its final   *)
(* status.  Four kinds of actors interleave:                               *)
(*                                                                         *)
(*  - the request handlers (start, verify, cancel).  A handler runs on the *)
(*    event loop without interruption up to its next await; only verify    *)
(*    awaits, while it fetches the proof of ownership, so verify is two    *)
(*    steps here and every other handler is one;                           *)
(*  - one asyncio task per accepted scan (_run_scan_concurrent), which     *)
(*    waits for a permit of _scan_semaphore, awaits the executor and       *)
(*    writes the final status;                                             *)
(*  - one executor thread per running scan (run_scan_job), whose only      *)
(*    effects here are the cancel flag it consumes and how it ends         *)
(*    (ScanPipeline opens it up);                                          *)
(*  - the process, which may be killed, be shut down and start again: the  *)
(*    SQLite rows survive, everything else is lost.                        *)
(*                                                                         *)
(* Every database write is a transaction of its own.  It may fail (SQLite  *)
(* gives up on a locked file after five seconds) or the process may die    *)
(* before it; a handler that stops there leaves its earlier writes behind. *)
(* MaxFaults bounds those failures, MaxRestarts the process's deaths.      *)
(***************************************************************************)
EXTENDS AsyncioSemaphore, FiniteSets, SequencesExt

CONSTANTS
    Jobs,              \* job identifiers the runs may create
    Targets,           \* the sites that can be scanned
    Tasks,             \* task slots: bounds the tasks alive at one time
    Probes,            \* verify handlers that may be suspended at one time
    NoJob,
    MaxConcurrentScans,
    MaxFaults,
    MaxRestarts

ASSUME SchedulerAssumption ==
    /\ MaxConcurrentScans \in Nat \ {0}
    /\ IsFiniteSet(Tasks)
    /\ NoJob \notin Jobs
    /\ MaxFaults \in Nat
    /\ MaxRestarts \in Nat

VARIABLES
    (* scan_jobs, verify_tokens and verified_targets: survive a restart *)
    status, target, isAdmin, token, cached,
    (* the process's memory *)
    up, sem, pc, jobOf, outcome, pendingJobs, activeJobs, cancelFlags, probe,
    (* history and bounds *)
    proved,            \* targets on which a token was ever found
    contended,         \* jobs verified while another request verified them, too
    faults, restarts

database == <<status, target, isAdmin, token, cached>>
slots    == <<sem, pc, jobOf, outcome, pendingJobs, activeJobs>>
memory   == <<up, slots, cancelFlags, probe>>
bounds   == <<faults, restarts>>
vars     == <<database, memory, proved, contended, bounds>>

Terminal == {"done", "error", "cancelled"}
JobStatus == {"none", "queued", "pending_verify", "running"} \union Terminal
TokenStatus == {"none", "pending", "failed", "verified"}

\* Where a task is: not existing, created and not run yet, suspended in
\* acquire(), its worker thread before the pipeline's last cancel check, after
\* it, or the worker has returned and the task has not been resumed.
TaskPc == {"idle", "created", "waiting", "scanning", "reporting", "returned"}
Outcome == {"none", "ok", "cancelled", "error"}

Executing == {t \in Tasks : pc[t] \in {"scanning", "reporting", "returned"}}
TasksOf(j) == {t \in Tasks : pc[t] # "idle" /\ jobOf[t] = j}
Unfinished(s) == s \in {"running", "queued"}

-----------------------------------------------------------------------------
IdleTasks == [t \in Tasks |-> "idle"]
NoTaskJobs == [t \in Tasks |-> NoJob]
NoOutcomes == [t \in Tasks |-> "none"]
NoProbes == [p \in Probes |-> NoJob]

Init ==
    /\ status = [j \in Jobs |-> "none"]
    /\ target \in [Jobs -> Targets]
    /\ isAdmin \in [Jobs -> BOOLEAN]
    /\ token = [j \in Jobs |-> "none"]
    /\ cached = {}
    /\ up = TRUE
    /\ sem = NewSemaphore(MaxConcurrentScans)
    /\ pc = IdleTasks
    /\ jobOf = NoTaskJobs
    /\ outcome = NoOutcomes
    /\ pendingJobs = <<>>
    /\ activeJobs = <<>>
    /\ cancelFlags = {}
    /\ probe = NoProbes
    /\ proved = {}
    /\ contended = {}
    /\ faults = 0
    /\ restarts = 0

Fault(n) ==
    /\ faults + n <= MaxFaults
    /\ faults' = faults + n
    /\ UNCHANGED restarts

-----------------------------------------------------------------------------
(* The handlers *)

\* asyncio.create_task(_run_scan_concurrent(j, ...))
CreateTask(j) ==
    \E t \in Tasks :
        /\ pc[t] = "idle"
        /\ pc' = [pc EXCEPT ![t] = "created"]
        /\ jobOf' = [jobOf EXCEPT ![t] = j]
        /\ UNCHANGED <<sem, outcome, pendingJobs, activeJobs>>

\* Mutated form of StartExempt: nobody has to prove ownership.
StartAnybody(j) ==
    /\ up
    /\ status[j] = "none"
    /\ status' = [status EXCEPT ![j] = "queued"]
    /\ CreateTask(j) /\ Fault(0)
    /\ UNCHANGED <<target, isAdmin, token, cached, up, cancelFlags, probe, proved, contended>>

\* api_start_scan for an administrator or a target verified within 24 hours.
\* create_job inserts the row with the column's default status, 'queued'.
StartExempt(j) ==
    /\ up
    /\ status[j] = "none"
    /\ isAdmin[j] \/ target[j] \in cached
    /\ status' = [status EXCEPT ![j] = "queued"]
    /\ \/ CreateTask(j) /\ Fault(0)
       \/ Fault(1) /\ UNCHANGED slots         \* update_job failed
    /\ UNCHANGED <<target, isAdmin, token, cached, up, cancelFlags, probe, proved, contended>>

\* api_start_scan for everybody else: create_job, create_verify_token,
\* update_job, each a transaction.
StartUnverified(j) ==
    /\ up
    /\ status[j] = "none"
    /\ ~isAdmin[j] /\ target[j] \notin cached
    /\ \/ /\ status' = [status EXCEPT ![j] = "pending_verify"]
          /\ token' = [token EXCEPT ![j] = "pending"]
          /\ Fault(0)
       \/ /\ status' = [status EXCEPT ![j] = "queued"]
          /\ token' \in {token, [token EXCEPT ![j] = "pending"]}
          /\ Fault(1)
    /\ UNCHANGED <<target, isAdmin, cached, memory, proved, contended>>

\* Mutated form of VerifyBegin: a verified token is not refused.
VerifyBeginAgain(p, j) ==
    /\ up
    /\ probe[p] = NoJob
    /\ token[j] # "none"
    /\ probe' = [probe EXCEPT ![p] = j]
    /\ UNCHANGED <<database, up, slots, cancelFlags, proved, contended, bounds>>

\* api_verify_ownership up to its await.  Without a token the handler answers
\* 404, with a verified one "already verified": neither changes anything.  Any
\* number of requests may pass this check before one of them writes its result.
VerifyBegin(p, j) ==
    /\ up
    /\ probe[p] = NoJob
    /\ token[j] \in {"pending", "failed"}
    /\ probe' = [probe EXCEPT ![p] = j]
    /\ UNCHANGED <<database, up, slots, cancelFlags, proved, contended, bounds>>

\* The job of p, if another request has passed the check of its token and has
\* not answered yet.
Contended(p) == {j \in {probe[p]} : \E q \in Probes \ {p} : probe[q] = j}

\* Mutated form of VerifySucceeds: the job is started and not queued.
VerifyStartsUnqueued(p) ==
    LET j == probe[p] IN
    /\ up
    /\ j # NoJob
    /\ probe' = [probe EXCEPT ![p] = NoJob]
    /\ proved' = proved \union {target[j]}
    /\ contended' = contended \union Contended(p)
    /\ token' = [token EXCEPT ![j] = "verified"]
    /\ cached' = cached \union {target[j]}
    /\ CreateTask(j)
    /\ Fault(0)
    /\ UNCHANGED <<status, target, isAdmin, up, cancelFlags>>

\* The token was found: update_verify_status, update_job, upsert_verified_target
\* and create_task, whatever has happened to the job during the await.
VerifySucceeds(p) ==
    LET j == probe[p] IN
    /\ up
    /\ j # NoJob
    /\ probe' = [probe EXCEPT ![p] = NoJob]
    /\ proved' = proved \union {target[j]}
    /\ contended' = contended \union Contended(p)
    /\ token' = [token EXCEPT ![j] = "verified"]
    /\ \/ /\ status' = [status EXCEPT ![j] = "queued"]
          /\ cached' = cached \union {target[j]}
          /\ CreateTask(j)
          /\ Fault(0)
       \/ /\ status' \in {status, [status EXCEPT ![j] = "queued"]}
          /\ UNCHANGED <<cached, slots>>
          /\ Fault(1)
    /\ UNCHANGED <<target, isAdmin, up, cancelFlags>>

\* The token was not found.
VerifyFails(p) ==
    /\ up
    /\ probe[p] # NoJob
    /\ probe' = [probe EXCEPT ![p] = NoJob]
    /\ token' = [token EXCEPT ![probe[p]] = "failed"]
    /\ UNCHANGED <<status, target, isAdmin, cached, up, slots, cancelFlags, proved,
                   contended, bounds>>

\* The client could not be set up, or the first write of an answer failed.
VerifyAborts(p) ==
    /\ up
    /\ probe[p] # NoJob
    /\ probe' = [probe EXCEPT ![p] = NoJob]
    /\ UNCHANGED <<database, up, slots, cancelFlags, proved, contended, bounds>>

\* api_cancel_scan of a job that has not ended: only a flag, and a new text for
\* its phase.
Cancel(j) ==
    /\ up
    /\ status[j] \notin Terminal \union {"none"}
    /\ cancelFlags' = cancelFlags \union {j}
    /\ UNCHANGED <<database, up, slots, probe, proved, contended, bounds>>

\* get_verified_target ignores a row older than 24 hours.
CacheExpires(g) ==
    /\ g \in cached
    /\ cached' = cached \ {g}
    /\ UNCHANGED <<status, target, isAdmin, token, memory, proved, contended, bounds>>

-----------------------------------------------------------------------------
(* The task _run_scan_concurrent *)

\* _pending_jobs.append, then acquire() of a locked semaphore.
TaskWaits(t) ==
    /\ up
    /\ pc[t] = "created"
    /\ Locked(sem)
    /\ pc' = [pc EXCEPT ![t] = "waiting"]
    /\ sem' = Enqueue(sem, t)
    /\ pendingJobs' = Append(pendingJobs, jobOf[t])
    /\ UNCHANGED <<database, up, jobOf, outcome, activeJobs, cancelFlags, probe,
                   proved, contended, bounds>>

\* Mutated form of EnterSlot: no release when the write of 'running' fails.
EnterSlotLeaks(t, s, pending) ==
    /\ pendingJobs' = RemoveFirst(pending, jobOf[t])
    /\ \/ /\ pc' = [pc EXCEPT ![t] = "scanning"]
          /\ status' = [status EXCEPT ![jobOf[t]] = "running"]
          /\ activeJobs' = Append(activeJobs, jobOf[t])
          /\ Fault(0)
          /\ UNCHANGED jobOf
       \/ /\ pc' = [pc EXCEPT ![t] = "idle"]
          /\ jobOf' = [jobOf EXCEPT ![t] = NoJob]
          /\ Fault(1)
          /\ UNCHANGED <<status, activeJobs>>
    /\ sem' = s
    /\ UNCHANGED <<target, isAdmin, token, cached, up, outcome, cancelFlags, probe,
                   proved, contended>>

\* Mutated form of EnterSlot: the job is filtered out of _pending_jobs, with the
\* entries of its other tasks.
EnterSlotFilters(t, s, pending) ==
    /\ pendingJobs' = SelectSeq(pending, LAMBDA j : j # jobOf[t])
    /\ pc' = [pc EXCEPT ![t] = "scanning"]
    /\ status' = [status EXCEPT ![jobOf[t]] = "running"]
    /\ activeJobs' = Append(activeJobs, jobOf[t])
    /\ sem' = s
    /\ Fault(0)
    /\ UNCHANGED <<target, isAdmin, token, cached, up, jobOf, outcome,
                   cancelFlags, probe, proved, contended>>

\* The body of "async with" up to run_in_executor, for task t that owns a permit
\* of s: the job moves from one list to the other and _run_scan writes
\* 'running'.  That write is outside every try: if it fails the task dies, its
\* finally and the semaphore's exit still run.
EnterSlot(t, s, pending) ==
    /\ pendingJobs' = RemoveFirst(pending, jobOf[t])
    /\ \/ /\ pc' = [pc EXCEPT ![t] = "scanning"]
          /\ status' = [status EXCEPT ![jobOf[t]] = "running"]
          /\ activeJobs' = Append(activeJobs, jobOf[t])
          /\ sem' = s
          /\ Fault(0)
          /\ UNCHANGED jobOf
       \/ /\ pc' = [pc EXCEPT ![t] = "idle"]
          /\ jobOf' = [jobOf EXCEPT ![t] = NoJob]
          /\ sem' = Release(s)
          /\ Fault(1)
          /\ UNCHANGED <<status, activeJobs>>
    /\ UNCHANGED <<target, isAdmin, token, cached, up, outcome, cancelFlags, probe,
                   proved, contended>>

\* A task that finds a free permit enters without suspending.
TaskEnters(t) ==
    /\ up
    /\ pc[t] = "created"
    /\ ~Locked(sem)
    /\ EnterSlot(t, TakeFree(sem), Append(pendingJobs, jobOf[t]))

\* The loop runs the woken waiters in the order they were woken.
TaskResumes(t) ==
    /\ up
    /\ pc[t] = "waiting"
    /\ sem.woken # <<>> /\ t = Head(sem.woken)
    /\ EnterSlot(t, Resumed(sem), pendingJobs)

\* The status _run_scan writes for an outcome when its first n writes fail; a
\* failed 'cancelled' is caught and tried again as 'error', any other failure
\* leaves the row as it is.
FinalStatus(o, n, before) ==
    CASE o = "ok" /\ n = 0        -> "done"
      [] o = "cancelled" /\ n = 0 -> "cancelled"
      [] o = "cancelled" /\ n = 1 -> "error"
      [] o = "error" /\ n = 0     -> "error"
      [] OTHER                    -> before

\* The executor's future has resolved: the rest of _run_scan, the finally of
\* _run_scan_concurrent and the release of the permit.
TaskFinishes(t) ==
    /\ up
    /\ pc[t] = "returned"
    /\ \E n \in 0..(IF outcome[t] = "cancelled" THEN 2 ELSE 1) :
          /\ Fault(n)
          /\ status' = [status EXCEPT ![jobOf[t]] = FinalStatus(outcome[t], n, @)]
    /\ activeJobs' = RemoveFirst(activeJobs, jobOf[t])
    /\ sem' = Release(sem)
    /\ pc' = [pc EXCEPT ![t] = "idle"]
    /\ jobOf' = [jobOf EXCEPT ![t] = NoJob]
    /\ outcome' = [outcome EXCEPT ![t] = "none"]
    /\ UNCHANGED <<target, isAdmin, token, cached, up, pendingJobs, cancelFlags, probe,
                   proved, contended>>

-----------------------------------------------------------------------------
(* The worker thread *)

WorkerReturns(t, o) ==
    /\ pc' = [pc EXCEPT ![t] = "returned"]
    /\ outcome' = [outcome EXCEPT ![t] = o]
    /\ UNCHANGED <<database, up, sem, jobOf, pendingJobs, activeJobs, probe, proved,
                   contended, bounds>>

\* _check_cancel consumes the flag.
WorkerCancelled(t) ==
    /\ up
    /\ pc[t] = "scanning"
    /\ jobOf[t] \in cancelFlags
    /\ cancelFlags' = cancelFlags \ {jobOf[t]}
    /\ WorkerReturns(t, "cancelled")

\* The last _check_cancel, in the loop over the PoCs, found no flag.
WorkerPassesLastCheck(t) ==
    /\ up
    /\ pc[t] = "scanning"
    /\ jobOf[t] \notin cancelFlags
    /\ pc' = [pc EXCEPT ![t] = "reporting"]
    /\ UNCHANGED <<database, up, sem, jobOf, outcome, pendingJobs, activeJobs,
                   cancelFlags, probe, proved, contended, bounds>>

WorkerCompletes(t) ==
    /\ up
    /\ pc[t] = "reporting"
    /\ WorkerReturns(t, "ok")
    /\ UNCHANGED cancelFlags

WorkerRaises(t) ==
    /\ up
    /\ pc[t] \in {"scanning", "reporting"}
    /\ WorkerReturns(t, "error")
    /\ UNCHANGED cancelFlags

-----------------------------------------------------------------------------
(* The process *)

\* Mutated form of CloseUnfinished: WHERE status = 'running'.
CloseRunning ==
    status' = [j \in Jobs |-> IF status[j] = "running" THEN "error" ELSE status[j]]

\* startup() and shutdown(): "UPDATE scan_jobs SET status='error' WHERE status
\* IN ('running','queued')".
CloseUnfinished ==
    status' = [j \in Jobs |-> IF Unfinished(status[j]) THEN "error" ELSE status[j]]

LoseMemory ==
    /\ up
    /\ restarts < MaxRestarts
    /\ restarts' = restarts + 1
    /\ up' = FALSE
    /\ sem' = NewSemaphore(MaxConcurrentScans)
    /\ pc' = IdleTasks
    /\ jobOf' = NoTaskJobs
    /\ outcome' = NoOutcomes
    /\ pendingJobs' = <<>>
    /\ activeJobs' = <<>>
    /\ cancelFlags' = {}
    /\ probe' = NoProbes
    /\ UNCHANGED <<target, isAdmin, token, cached, proved, contended, faults>>

Crash == LoseMemory /\ UNCHANGED status

Shutdown == LoseMemory /\ CloseUnfinished

\* Mutated form of Startup: the rows are left as they were.
StartupKeepsRows ==
    /\ ~up
    /\ up' = TRUE
    /\ UNCHANGED <<database, slots, cancelFlags, probe, proved, contended, bounds>>

\* Mutated form of Startup: WHERE status != 'done'.
StartupClosesAll ==
    /\ ~up
    /\ up' = TRUE
    /\ status' = [j \in Jobs |-> IF status[j] \in {"none", "done"} THEN status[j] ELSE "error"]
    /\ UNCHANGED <<target, isAdmin, token, cached, slots, cancelFlags, probe, proved,
                   contended, bounds>>

Startup ==
    /\ ~up
    /\ up' = TRUE
    /\ CloseUnfinished
    /\ UNCHANGED <<target, isAdmin, token, cached, slots, cancelFlags, probe, proved,
                   contended, bounds>>

-----------------------------------------------------------------------------
TaskStep(t) == TaskWaits(t) \/ TaskEnters(t) \/ TaskResumes(t) \/ TaskFinishes(t)

WorkerStep(t) ==
    \/ WorkerCancelled(t)
    \/ WorkerPassesLastCheck(t)
    \/ WorkerCompletes(t)
    \/ WorkerRaises(t)

ProbeStep(p) == VerifySucceeds(p) \/ VerifyFails(p) \/ VerifyAborts(p)

Next ==
    \/ \E j \in Jobs : StartExempt(j) \/ StartUnverified(j) \/ Cancel(j)
    \/ \E p \in Probes, j \in Jobs : VerifyBegin(p, j)
    \/ \E p \in Probes : ProbeStep(p)
    \/ \E g \in Targets : CacheExpires(g)
    \/ \E t \in Tasks : TaskStep(t) \/ WorkerStep(t)
    \/ Crash
    \/ Shutdown
    \/ Startup

Spec == Init /\ [][Next]_vars

\* The event loop runs every ready callback, an HTTP client times out after
\* eight seconds, and the container is restarted ("restart: unless-stopped").
\* That the worker thread goes on is an assumption: nmap, nikto, nuclei and the
\* header check have timeouts, but sqlmap and the requests to ZAP have none.
\* Nobody has to send a request.
Fairness ==
    /\ \A t \in Tasks : WF_vars(TaskStep(t)) /\ WF_vars(WorkerStep(t))
    /\ \A p \in Probes : WF_vars(ProbeStep(p))
    /\ WF_vars(Startup)

FairSpec == Spec /\ Fairness
=============================================================================
