-------------------------- MODULE CachedTokens --------------------------
(***************************************************************************)
(* vLLM-like accounting of a raw prefix lookup: how many of the resident   *)
(* tokens a request may really skip (cache/cached_token_accounting.py and  *)
(* cache/cache_block_conversion.py).  Blocks enter only through their      *)
(* token counts: a prompt is cut into blocks of BlockSize tokens, of which *)
(* the last one may be partial.                                            *)
(***************************************************************************)
EXTENDS Integers, Sequences

CONSTANTS
    BlockSize,      \* effective_block_size
    DropBlocks,     \* speculative_drop_blocks
    KeptTokens      \* tokens at the end of a prompt that are never credited: 1 in
                    \* the conversion of the code, 0 in a conversion result given to
                    \* the engine that credits full prompts

ASSUME BlockSizeAssumption == BlockSize \in Nat \ {0}
ASSUME DropBlocksAssumption == DropBlocks \in Nat /\ KeptTokens \in {0, 1}

MinOf(a, b) == IF a < b THEN a ELSE b
MaxOf(a, b) == IF a > b THEN a ELSE b

\* The blocks of a prompt of n tokens: all full but possibly the last.
BlockCount(n) == (n + BlockSize - 1) \div BlockSize
BlockTokens(n) ==
    [i \in 1..BlockCount(n) |-> MinOf(BlockSize, n - (i - 1) * BlockSize)]

\* The loops of _count_matchable_full_blocks and _take_accounted_blocks: both
\* advance over full blocks while their tokens stay within a limit.
Fits(sizes, limit, i) == sizes[i] = BlockSize /\ i * BlockSize <= limit
FullPrefix(sizes, limit) ==
    CHOOSE n \in 0..Len(sizes) :
        /\ \A i \in 1..n : Fits(sizes, limit, i)
        /\ n < Len(sizes) => ~Fits(sizes, limit, n + 1)

\* Mutation: the whole prompt may be skipped.
WholePromptLength(n) == n

MaxCacheHitLength(n) == MaxOf(n - KeptTokens, 0)

\* account_prefix_lookup for a prompt of n tokens whose lookup hit blocks of
\* sizes hbm and then, contiguously, blocks of sizes ddr.
Account(n, hbm, ddr) ==
    LET matchable  == FullPrefix(hbm \o ddr, MaxCacheHitLength(n))
        matched    == MinOf(matchable, MaxCacheHitLength(n) \div BlockSize)
        cap        == MaxOf(matched - DropBlocks, 0) * BlockSize
        hbmTokens  == FullPrefix(hbm, cap) * BlockSize
        ddrTokens  == FullPrefix(ddr, cap - hbmTokens) * BlockSize
    IN  [cap |-> cap, hbm |-> hbmTokens, ddr |-> ddrTokens,
         miss |-> n - hbmTokens - ddrTokens]

=========================================================================
