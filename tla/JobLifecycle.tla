---------------------------- MODULE JobLifecycle ----------------------------
(***************************************************************************)
(* What the service promises about a scan job, seen from outside: the      *)
(* status in its row, which slots execute its scan, and whether it can     *)
(* still be started.  At most MaxConcurrentScans scans execute at a time,  *)
(* a job is executed at most once unless two requests verified it at the   *)
(* same time, and 'done' or 'cancelled' is only ever reported by an        *)
(* execution that has ended.  Tokens, probes, waiting tasks, the semaphore *)
(* and the lists of api.py are below this level.                           *)
(***************************************************************************)
EXTENDS Naturals, FiniteSets

CONSTANTS Jobs, Slots, MaxConcurrentScans

VARIABLES
    status,      \* the row's status
    spent,       \* jobs that will not be started (again)
    contended,   \* jobs that two requests verified at the same time
    executing    \* <<slot, job>> for every scan that runs

vars == <<status, spent, contended, executing>>

Ended == {"done", "cancelled"}
Status == {"none", "queued", "pending_verify", "running", "error"} \union Ended

Init ==
    /\ status = [j \in Jobs |-> "none"]
    /\ spent = {}
    /\ contended = {}
    /\ executing = {}

Idle(j) == \A s \in Slots : <<s, j>> \notin executing

\* A request may be refused half way: the row stays and is never started.
Request(j) ==
    /\ status[j] = "none"
    /\ \E s \in {"queued", "pending_verify"} : status' = [status EXCEPT ![j] = s]
    /\ spent' \in {spent, spent \union {j}}
    /\ UNCHANGED <<contended, executing>>

\* Ownership of the target is proved, which queues the job; the proof may also
\* be lost half way.
Verify(j) ==
    /\ status[j] \in {"queued", "pending_verify", "error"}
    /\ j \notin spent \union contended /\ Idle(j)
    /\ status' \in {status, [status EXCEPT ![j] = "queued"]}
    /\ spent' \in {spent, spent \union {j}}
    /\ UNCHANGED <<contended, executing>>

\* Ownership is proved while another request for the same job is under way, or
\* was: whatever the job has come to in the meantime, it is queued (again).
VerifyContended(j) ==
    /\ j \notin spent
    /\ \/ j \in contended
       \/ status[j] \in {"queued", "pending_verify", "error"} /\ Idle(j)
    /\ status' \in {status, [status EXCEPT ![j] = "queued"]}
    /\ contended' = contended \union {j}
    /\ UNCHANGED <<spent, executing>>

Begin(s, j) ==
    /\ \/ j \in contended
       \/ status[j] = "queued" /\ j \notin spent /\ Idle(j)
    /\ \A i \in Jobs : <<s, i>> \notin executing
    /\ Cardinality(executing) < MaxConcurrentScans
    /\ status' = [status EXCEPT ![j] = "running"]
    /\ spent' = spent \union ({j} \ contended)
    /\ executing' = executing \union {<<s, j>>}
    /\ UNCHANGED contended

\* The scan could not be started.
Drop(j) ==
    /\ status[j] = "queued" /\ j \notin contended
    /\ spent' = spent \union {j}
    /\ UNCHANGED <<status, contended, executing>>

\* The scan ended; a lost write leaves the row as it was.
End(s, j) ==
    /\ <<s, j>> \in executing
    /\ executing' = executing \ {<<s, j>>}
    /\ \E x \in Ended \union {"error", status[j]} : status' = [status EXCEPT ![j] = x]
    /\ UNCHANGED <<spent, contended>>

Closed == [j \in Jobs |-> IF status[j] \in {"running", "queued"} THEN "error" ELSE status[j]]

\* The process stops or starts.
Die ==
    /\ executing' = {}
    /\ \E lost \in SUBSET (Jobs \ contended) : spent' = spent \union lost
    /\ status' \in {status, Closed}
    /\ UNCHANGED contended

Next ==
    \/ \E j \in Jobs : Request(j) \/ Verify(j) \/ VerifyContended(j) \/ Drop(j)
    \/ \E s \in Slots, j \in Jobs : Begin(s, j) \/ End(s, j)
    \/ Die

Spec == Init /\ [][Next]_vars
=============================================================================
