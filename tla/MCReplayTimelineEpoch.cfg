CONSTANTS
    r1 = r1
    r2 = r2
    r3 = r3
    Requests <- MCTwo
    Arrivals <- MCCoarseArrivals
    PrefillMs <- MCCoarsePrefill
    KvMs <- MCNone
    QueueMs <- MCNone
    ClockUlp = 3
    MaxIterations = 2
SPECIFICATION Spec
INVARIANTS
    ResidualNonNegative
CHECK_DEADLOCK FALSE
