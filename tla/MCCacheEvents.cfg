CONSTANTS
    a1 = a1
    a2 = a2
    a3 = a3
    b2 = b2
    InstanceCount = 2
    Paths <- MCPaths
    HBMCapacity = 2
    DDRCapacity = 3
    MaxEvents = 20
    MaxCalls = 2
SPECIFICATION Spec
CHECK_DEADLOCK FALSE
INVARIANTS
    TypeOK
    StreamExplainsResidency
    StatsAreOfKeptEvents
