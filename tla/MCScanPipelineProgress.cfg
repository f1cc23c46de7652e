SPECIFICATION FairSpec
CONSTANTS
    Runs = {r1}
    NoRun = NoRun
    Cancellable = {r1}
    Scanners = 2
    Findings = 1
    ZapPercents = {38}
    MaxFaults = 0
PROPERTIES
    ProgressNeverGoesBack
CHECK_DEADLOCK FALSE
