CONSTANTS
    a1 = a1
    a2 = a2
    a3 = a3
    b2 = b2
    BlockSize = 2
    DropBlocks = 1
    KeptTokens = 1
    N = 3
    Prompts <- MCPrompts
    MaxStart = 2
    Durations <- MCDurations
    HBMCapacity = 3
    DDRCapacity = 0
    MaxBatchedTokens = 5
    MaxSeqs = 2
    Chunked = TRUE
    ChunkThreshold = 3
    Progressive = FALSE
SPECIFICATION Spec
INVARIANTS
    BatchWithinLimits
    MaterializedExactly
