SPECIFICATION Spec
CONSTANTS
    Runs = {r1, r2}
    NoRun = NoRun
    Cancellable = {r1, r2}
    Scanners = 1
    Findings = 0
    ZapPercents = {33}
    MaxFaults = 1
SYMMETRY Symmetry
INVARIANTS
    ZapExclusive
PROPERTIES
    ImplementsZapLock
CHECK_DEADLOCK FALSE
