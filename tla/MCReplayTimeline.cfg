CONSTANTS
    r1 = r1
    r2 = r2
    r3 = r3
    Requests <- MCRequests
    Arrivals <- MCArrivals
    PrefillMs <- MCPrefill
    KvMs <- MCKv
    QueueMs <- MCQueue
    ClockUlp = 1
    MaxIterations = 2
SPECIFICATION Spec
INVARIANTS
    TypeOK
    ResidualNonNegative
    LinkIdleBetweenIterations
    WaitIsExact
    DepthWithinIteration
SYMMETRY Symmetric
CHECK_DEADLOCK FALSE
