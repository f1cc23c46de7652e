SPECIFICATION Spec
CONSTANTS
    e1 = e1
    e2 = e2
    e3 = e3
    e4 = e4
    out = out
    in = in
    Events <- MCEvents
    Ips <- MCIps
    IpOf <- MCIpOf
    External <- MCExternal
    Sensitive <- MCSensitive
    Severe <- MCSevere
    Threshold = 2
    RateLimit = 1
    MaxTicks = 1
    MaxFaults = 1
    MaxAdmin = 1
INVARIANTS
    RulesFollowTable
    ThresholdBlocks
PROPERTIES
    SevereAnswered
    IngestCatchesUp
CHECK_DEADLOCK FALSE
