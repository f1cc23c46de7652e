SPECIFICATION MixedSpec
CONSTANTS
    Jobs = {j1, j2}
    Targets = {g1}
    Tasks = {t1, t2}
    Probes = {p1, p2}
    NoJob = NoJob
    AdminJobs = {j2}
    MaxConcurrentScans = 1
    MaxFaults = 1
    MaxRestarts = 1
INVARIANTS
    TwoTasksOnlyIfContended
    UnfinishedHasTask
PROPERTIES
    FinalStatusStays
    ImplementsLifecycle
    EveryScanEnds
CHECK_DEADLOCK FALSE
