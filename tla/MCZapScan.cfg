SPECIFICATION FairSpec
CONSTANTS
    Scans = {s1, s2}
    NoScan = NoScan
    Process <- MCProcess
    Percents = {0, 100}
    Timeout <- MCTimeout
    StaleLimit = 2
    StallLimit = 2
    MaxErrors = 2
    MaxUrls = 1
    Unheeded = {s1}
INVARIANTS
    AjaxOverBeforeAttack
    FindingsAreItsOwn
PROPERTIES
    ScanReturns
CHECK_DEADLOCK FALSE
