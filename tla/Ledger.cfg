SPECIFICATION Spec
CONSTANTS
    r1 = r1
    r2 = r2
    r3 = r3
    fa = fa
    NoRequest = NoRequest
    Requests <- MCThree
    Flows <- MCFlows
    FlowOf <- MCFlowOf
    Est <- MCEst
    Frame = 2
    MaxDelivered = 2
    MaxObjects = 2
INVARIANTS
    CreditExact
    TrackerExact
CHECK_DEADLOCK FALSE
