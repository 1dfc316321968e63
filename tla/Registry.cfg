SPECIFICATION FairSpec
CONSTANTS
    fa = fa
    fb = fb
    r1 = r1
    r2 = r2
    NoSlot = NoSlot
    Flows <- MCFlows
    Requests <- MCRequests
    FlowOf <- MCFlowOf
    Routable = {r1}
    AdminFlows = {fa}
    Home <- MCHome
    MaxSlots = 2
    MaxGen = 3
INVARIANTS
    TypeOK
    DepthPerIncarnation
    OccupancyExact
PROPERTIES
    NoNeedlessSharing
    OrphansSwept
    IdleFlowsEvicted
CHECK_DEADLOCK FALSE
