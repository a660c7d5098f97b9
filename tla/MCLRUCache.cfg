CONSTANTS
    a1 = a1
    a2 = a2
    a3 = a3
    b2 = b2
    Keys <- MCKeys
    Batches <- MCBatches
    Capacity = 2
    MaxCalls = 4
SPECIFICATION FairSpec
INVARIANTS
    WithinCapacity
    PolicyInSync
    LRUOrdered
PROPERTIES
    EvictsOldest
    CallsReturn
    ImplementsIdealLRU
CHECK_DEADLOCK FALSE
