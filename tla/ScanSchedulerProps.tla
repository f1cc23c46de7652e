-------------------------- MODULE ScanSchedulerProps --------------------------
(***************************************************************************)
(* What the scan scheduler promises.                                       *)
(***************************************************************************)
EXTENDS ScanScheduler

TypeOK ==
    /\ status \in [Jobs -> JobStatus]
    /\ target \in [Jobs -> Targets]
    /\ isAdmin \in [Jobs -> BOOLEAN]
    /\ token \in [Jobs -> TokenStatus]
    /\ cached \subseteq Targets
    /\ up \in BOOLEAN
    /\ sem \in [value : Nat, woken : Seq(Tasks), waiters : Seq(Tasks)]
    /\ pc \in [Tasks -> TaskPc]
    /\ jobOf \in [Tasks -> Jobs \union {NoJob}]
    /\ outcome \in [Tasks -> Outcome]
    /\ pendingJobs \in Seq(Jobs)
    /\ activeJobs \in Seq(Jobs)
    /\ cancelFlags \subseteq Jobs
    /\ probe \in [Probes -> Jobs \union {NoJob}]
    /\ proved \subseteq Targets
    /\ contended \subseteq Jobs
    /\ faults \in 0..MaxFaults
    /\ restarts \in 0..MaxRestarts

\* Every permit of _scan_semaphore is free, granted to a waiter that has not
\* run yet, or held by exactly one task that executes a scan: no path through
\* _run_scan, the failing ones included, leaks a permit or returns it twice.
PermitsAccounted ==
    sem.value + Len(sem.woken) + Cardinality(Executing) = MaxConcurrentScans

\* A task never sleeps in acquire() while a permit is free and nobody who will
\* pass it on has been woken.
NoLostWakeup ==
    sem.waiters # <<>> => sem.value = 0 \/ sem.woken # <<>>

\* _pending_jobs lists the jobs in the order the semaphore will serve them and
\* _active_jobs holds one entry per executing scan, also when one job has two
\* tasks: the positions the dashboard is told are the real ones.
ListsMatchTasks ==
    /\ pendingJobs = [i \in 1..Len(sem.woken \o sem.waiters) |->
                        jobOf[(sem.woken \o sem.waiters)[i]]]
    /\ \A j \in Jobs :
          Cardinality({i \in DOMAIN activeJobs : activeJobs[i] = j})
            = Cardinality(Executing \intersect TasksOf(j))

\* No task exists for a job unless its requester is an administrator or
\* ownership of its target was proved at some time, whatever the interleaving
\* of probes, faults and restarts.
OwnershipBeforeScan ==
    \A t \in Tasks : pc[t] # "idle" =>
        isAdmin[jobOf[t]] \/ target[jobOf[t]] \in proved

\* README, "pending_verify: the scan has not started".
PendingNotStarted ==
    \A j \in Jobs : status[j] = "pending_verify" => TasksOf(j) = {}

\* Two tasks exist for one job only if two requests verified it at the same
\* time: each had found its token unused before the other one answered.
\* Nothing else makes a second task: no restart, no failed write, no request
\* that comes after the answer.
TwoTasksOnlyIfContended ==
    \A j \in Jobs : Cardinality(TasksOf(j)) > 1 => j \in contended

\* While no write has failed, a row says 'queued' or 'running' only if a task
\* is going to change it, 'running' only while its scan executes, and
\* 'pending_verify' no longer when the job's token is verified (README,
\* "verification succeeds, job status -> queued, the scan starts").  A write
\* that fails between the two commits of a verification leaves it so for ever.
UnfinishedHasTask ==
    up /\ faults = 0 =>
        \A j \in Jobs :
            /\ Unfinished(status[j]) => TasksOf(j) # {}
            /\ status[j] = "running" => Executing \intersect TasksOf(j) # {}
            /\ token[j] = "verified" => status[j] # "pending_verify"

\* A final status is left only by the verification of a token that had not been
\* used, or, if two requests verified the job at the same time, by the task or
\* the answer that this left over: no late task, no restart and no second answer
\* to a page touches a row that says how its scan ended.
FinalStatusStays ==
    [][\A j \in Jobs :
          status[j] \in Terminal /\ status'[j] # status[j] =>
              \/ token[j] \in {"pending", "failed"} /\ token'[j] = "verified"
              \/ /\ j \in contended
                 /\ TasksOf(j) # {} \/ \E p \in Probes : probe[p] = j]_vars

-----------------------------------------------------------------------------
(* The scheduler implements JobLifecycle. *)

\* Neither a task that has not entered its slot nor an unused token is left, nor
\* a verification that may use the token again.
Spent ==
    {j \in Jobs \ contended :
        /\ status[j] # "none"
        /\ token[j] \in {"none", "verified"}
        /\ TasksOf(j) \subseteq Executing}

Lifecycle == INSTANCE JobLifecycle
    WITH Slots <- Tasks, spent <- Spent, executing <- {<<t, jobOf[t]>> : t \in Executing}

\* Every step of handlers, tasks, workers and restarts is a step of the
\* abstract life cycle or invisible to it.
ImplementsLifecycle == Lifecycle!Spec

-----------------------------------------------------------------------------
(* Liveness *)

\* A scan that was queued gets its turn and ends, cancelled, failed or done;
\* a restart in between ends it too.  Nothing is left queued behind a permit
\* that nobody returns.  (A final write that fails leaves the row to the next
\* restart, which nothing promises.)
EveryScanEnds ==
    \A j \in Jobs : status[j] \in {"queued", "running"} ~>
                      status[j] \in Terminal \/ faults > 0

-----------------------------------------------------------------------------
(* Statements of the documentation that the code does not keep *)

\* README, "queued: waiting for the scan after the verification": no scan of a
\* queued job is executing.
QueuedMeansWaiting ==
    \A j \in Jobs : status[j] = "queued" => Executing \intersect TasksOf(j) = {}

\* api_cancel_scan's answer, "will be stopped after the current stage": a scan
\* whose cancel request was accepted and not consumed does not end as done.
AcceptedCancelStops ==
    [][\A j \in Jobs :
          status[j] # "done" /\ status'[j] = "done" => j \notin cancelFlags]_vars
=============================================================================
