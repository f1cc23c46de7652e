SPECIFICATION FairSpec
CONSTANTS
    Pages = {p1}
    Streams = {s1, s2}
    Queues = {q1, q2}
    NoQueue = NoQueue
    MaxReports = 2
    MaxLeaves = 1
INVARIANTS
    NothingMissed
PROPERTIES
    EventsInOrder
    EveryStreamEnds
    EveryPageSettles
CHECK_DEADLOCK FALSE
