SPECIFICATION Spec
CONSTANTS
    Jobs = {j1, j2}
    Targets = {g1}
    Tasks = {t1, t2, t3}
    Probes = {p1, p2}
    NoJob = NoJob
    MaxConcurrentScans = 2
    MaxFaults = 1
    MaxRestarts = 0
SYMMETRY Symmetry
INVARIANTS
    ListsMatchTasks
    PendingNotStarted
    PermitsAccounted
    NoLostWakeup
    OwnershipBeforeScan
CHECK_DEADLOCK FALSE
