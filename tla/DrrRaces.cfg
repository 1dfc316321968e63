SPECIFICATION BypassSpec
CONSTANTS
    r1 = r1
    r2 = r2
    r3 = r3
    fa = fa
    fb = fb
    NoRequest = NoRequest
    Requests <- MCRequests
    Flows <- MCFlows
    FlowOf <- MCFlowOf
    Cost <- MCCost
    Weight <- MCWeight
    Priority <- MCPeers
    Footprint <- MCFootprint
    MaxPermits = 2
    MaxQueueDepth = 1
    Mode = "hybrid"
    SenderAlive = FALSE
    Pressures = {0}
    Thresholds = {}
    BiasBelow = 0
SYMMETRY MCSiblings
INVARIANTS
    TypeOK
    PermitConservation
    CursorExact
    NoRequestLost
    DepthExact
    QueueListExact
PROPERTIES
    PoolSpec
    NoSecondPass
