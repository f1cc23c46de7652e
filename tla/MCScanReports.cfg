SPECIFICATION ReportSpec
CONSTANTS
    Payloads <- TwoEach
    MaxMentions = 1
    TwinTools = {"HeaderScan"}
    MaxFaults = 1
INVARIANTS
    FalsePositiveWasSwept
    ConfirmedWasSeen
    LinkLeadsToReport
    FindingIsReported
CHECK_DEADLOCK FALSE
