CONSTANTS
    Instances <- MCInstances
    Traces <- MCTraces
    MaxSlices = 2
    Durations <- MCDurations
    CompactThreshold = 1
    Capacities <- MCCapacities
SPECIFICATION FairSpec
CHECK_DEADLOCK FALSE
INVARIANTS
    ShardsSorted
    ExactlyOnce
    LiveStateOnly
    RowsAsInMemory
    FailsOnlyForTheTrace
PROPERTIES
    Terminates
