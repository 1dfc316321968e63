SPECIFICATION FairSpec
CONSTANTS
    r1 = r1
    r2 = r2
    r3 = r3
    fa = fa
    fb = fb
    Requests <- MCRequests
    Flows <- MCFlows
    FlowOf <- MCFlowOf
    MaxPermits = 2
    Target = 1
    Predictive = FALSE
    Again = TRUE
PROPERTY StarvationRescues
CHECK_DEADLOCK FALSE
