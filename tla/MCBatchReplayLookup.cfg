CONSTANTS
    a1 = a1
    a2 = a2
    a3 = a3
    b2 = b2
    BlockSize = 2
    DropBlocks = 0
    KeptTokens = 1
    N = 2
    Prompts <- MCLongPrompts
    MaxStart = 1
    Durations <- MCUnit
    HBMCapacity = 3
    DDRCapacity = 0
    MaxBatchedTokens = 5
    MaxSeqs = 2
    Chunked = TRUE
    ChunkThreshold = 9
    Progressive = FALSE
SPECIFICATION Spec
INVARIANTS
    LookupAtFirstSchedule
