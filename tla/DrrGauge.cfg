SPECIFICATION Spec
CONSTANTS
    r1 = r1
    r2 = r2
    r3 = r3
    fa = fa
    fb = fb
    NoRequest = NoRequest
    Requests <- MCPair
    Flows <- MCFlows
    FlowOf <- MCFlowOf
    Cost <- MCCost
    Weight <- MCWeight
    Priority <- MCPriority
    Footprint <- MCFootprint
    MaxPermits = 2
    MaxQueueDepth = 1
    Mode = "blocking"
    SenderAlive = FALSE
    Pressures <- MCPressures
    Thresholds <- MCThresholds
    BiasBelow = 0
INVARIANT GaugesNeverNegative
