SPECIFICATION FairSpec
CONSTANTS
    r1 = r1
    r2 = r2
    r3 = r3
    Requests <- MCRequests
    Interactive <- MCInteractive
    Levels = {0, 1, 2}
    DelayThreshold = 0
    RejectThreshold = 1
    BypassInteractive = TRUE
    Modes = {"blocking", "fail_fast", "hybrid"}
    MaxQueueDepth = 1
    MonitorStops = TRUE
INVARIANTS
    DelayedExact
    NoMissedDrop
PROPERTIES
    DelayEnds
    DelayIsBounded
CHECK_DEADLOCK FALSE
