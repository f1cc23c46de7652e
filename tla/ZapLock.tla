------------------------------- MODULE ZapLock -------------------------------
(***************************************************************************)
(* What _zap_lock of sls_scanner/core/pipeline.py is to the scans that use *)
(* it: a scan asks for ZAP, enters when nobody is inside or gives up when  *)
(* somebody is, and leaves.  Every process that imports the module has a   *)
(* lock of its own: the server one for its scans, each run of the command  *)
(* line one for itself.  ScanPipeline implements this lock for the scans   *)
(* of the server; ZapScan uses it for scans of several processes.          *)
(***************************************************************************)
CONSTANTS
    Clients,
    Process        \* the process of each client

VARIABLE at        \* where each client is: out, waiting, inside or left

Holds(c, d) == at[d] = "inside" /\ Process[d] = Process[c]
Free(c) == ~\E d \in Clients : Holds(c, d)

Goes(c, from, to) ==
    /\ at[c] = from
    /\ at' = [at EXCEPT ![c] = to]

Init == at = [c \in Clients |-> "out"]

Ask(c) == Goes(c, "out", "waiting")

\* acquire() returns True.
Enter(c) == Free(c) /\ Goes(c, "waiting", "inside")

\* acquire(timeout=...) returns False, or the report before it has failed.
GiveUp(c) == Goes(c, "waiting", "left")

\* release(), in the finally.
Exit(c) == Goes(c, "inside", "left")

Next == \E c \in Clients : Ask(c) \/ Enter(c) \/ GiveUp(c) \/ Exit(c)

Spec == Init /\ [][Next]_at

-----------------------------------------------------------------------------
\* A process is inside ZAP with one of its clients at most.
OneInside ==
    \A c, d \in Clients :
        at[c] = "inside" /\ at[d] = "inside" /\ Process[c] = Process[d] => c = d
=============================================================================
