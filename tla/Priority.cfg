SPECIFICATION Spec
CONSTANTS
    r1 = r1
    r2 = r2
    Requests <- MCRequests
    Admin = Admin
    Interactive = 3
    Agent = 2
    Background = 1
    DefaultPriority = 2
    AdminPriorities = {0}
    Enabled = TRUE
    agentic_suspected_threshold = 2
    agentic_confirmed_threshold = 3
    MaxArrivals = 6
SYMMETRY MCSymmetry
INVARIANTS
    TypeOK
    StateMatchesHistory
    PrioritySettled
