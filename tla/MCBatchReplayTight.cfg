CONSTANTS
    a1 = a1
    a2 = a2
    a3 = a3
    b2 = b2
    BlockSize = 2
    DropBlocks = 0
    KeptTokens = 0
    N = 3
    Prompts <- MCPrompts
    MaxStart = 4
    Durations <- MCDurations
    HBMCapacity = 1
    DDRCapacity = 2
    MaxBatchedTokens = 3
    MaxSeqs = 2
    Chunked = TRUE
    ChunkThreshold = 3
    Progressive = TRUE
SPECIFICATION FairSpec
INVARIANTS
    NoOvertaking
    FrontierCoversSchedule
    KVLoadChargedOnce
PROPERTIES
    AllFinish
    CreditIsFinal
