SPECIFICATION FairSpec
CONSTANTS
    Samples = 2
    Kept = 3
    MaxChecks = 4
    MaxFaults = 1
INVARIANTS
    AlarmIsCurrent
    LoadReported
PROPERTIES
    MonitorEnds
CHECK_DEADLOCK FALSE
