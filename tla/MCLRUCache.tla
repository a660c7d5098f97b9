--------------------------- MODULE MCLRUCache ---------------------------
(* Two prompts that share their first block, a1 a2 a3 and a1 b2.  A call is *)
(* given a whole prompt (lookup) or any contiguous run of one (the blocks a *)
(* prompt still misses, or those a chunk has completed).                    *)
EXTENDS LRUCache

CONSTANTS a1, a2, a3, b2

MCKeys == {a1, a2, a3, b2}

MCPrompts == {<<a1, a2, a3>>, <<a1, b2>>}

MCBatches ==
    UNION {{SubSeq(p, i, j) : i \in 1..Len(p), j \in 1..Len(p)} : p \in MCPrompts}

=========================================================================
