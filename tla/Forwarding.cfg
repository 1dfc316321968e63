SPECIFICATION FairSpec
CONSTANTS
    MaxRetries = 1
    MaxTransient = 2
    HasTimeout = TRUE
INVARIANTS
    OneSourceOfContent
    OnlyAcceptedCounted
    SettledAsSeen
PROPERTY RequestEnds
CHECK_DEADLOCK FALSE
