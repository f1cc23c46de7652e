------------------------- MODULE MCScanSchedulerFair -------------------------
(***************************************************************************)
(* The scheduler with fairness, for a fixed choice of who asks for which   *)
(* job: liveness allows no symmetry, and jobs that differ in nothing but   *)
(* their names would be explored again and again.                          *)
(***************************************************************************)
EXTENDS ScanSchedulerProps

CONSTANT AdminJobs    \* the jobs an administrator asks for

MixedInit == Init /\ isAdmin = [j \in Jobs |-> j \in AdminJobs]

MixedSpec == MixedInit /\ [][Next]_vars /\ Fairness
=============================================================================
