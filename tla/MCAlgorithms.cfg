CONSTANTS
    BlockSize = 3
    DropBlocks = 1
    KeptTokens = 1
    MaxTokens = 16
    Traces <- MCTraces
SPECIFICATION Spec
INVARIANTS
    CreditsLongestPrefix
    HitsAreCommonPrefixes
CHECK_DEADLOCK FALSE
