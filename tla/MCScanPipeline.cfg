SPECIFICATION FairSpec
CONSTANTS
    Runs = {r1}
    NoRun = NoRun
    Cancellable = {r1}
    Scanners = 3
    Findings = 2
    ZapPercents = {33, 38, 43}
    MaxFaults = 2
INVARIANTS
    DoneIsFinal
    AbortedIsNotDone
    CancelledSavesNothing
PROPERTIES
    EveryRunEnds
    ZapLockReturns
CHECK_DEADLOCK FALSE
