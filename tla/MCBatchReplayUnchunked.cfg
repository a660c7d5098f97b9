CONSTANTS
    a1 = a1
    a2 = a2
    a3 = a3
    b2 = b2
    BlockSize = 2
    DropBlocks = 0
    KeptTokens = 1
    N = 3
    Prompts <- MCPrompts
    MaxStart = 2
    Durations <- MCDurations
    HBMCapacity = 3
    DDRCapacity = 0
    MaxBatchedTokens = 4
    MaxSeqs = 2
    Chunked = FALSE
    ChunkThreshold = 9
    Progressive = FALSE
SPECIFICATION FairSpec
INVARIANTS
    StallOnlyWhenTooLarge
PROPERTIES
    Returns
