SPECIFICATION Spec
CONSTANTS
    Scans = {s1, s2}
    NoScan = NoScan
    Cves = {c1, c2}
    Slots = 2
    MaxFaults = 1
SYMMETRY Symmetry
INVARIANTS
    OnlyAnswers
    KeptForEver
CHECK_DEADLOCK FALSE
