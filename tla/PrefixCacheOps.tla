------------------------- MODULE PrefixCacheOps -------------------------
(***************************************************************************)
(* Whole-call operators of the block caches (cache/hbm_lru.py and          *)
(* cache/ddr_lru.py).  A cache content is its recency order: a sequence of *)
(* distinct block keys, least recently used first, exactly the key order   *)
(* of the OrderedDict kept by LRUEvictionPolicy.                           *)
(*                                                                         *)
(* LRUCache.tla models the same calls block by block and is checked to     *)
(* implement these operators; BatchReplay.tla uses them as atomic calls.   *)
(***************************************************************************)
EXTENDS Integers, Sequences, FiniteSets, Selections

\* Keys of a recency order.
Resident(lru) == {lru[i] : i \in DOMAIN lru}

\* Length of the longest prefix of ks whose blocks are all resident: the
\* loop of lookup_prefix stops at the first missing block.
HitCount(lru, ks) ==
    CHOOSE n \in 0..Len(ks) :
        /\ \A i \in 1..n : ks[i] \in Resident(lru)
        /\ n < Len(ks) => ks[n + 1] \notin Resident(lru)

\* ks becomes the most recently used end of the order, in the order of ks.
Touch(lru, ks) == Keep(lru, Resident(lru) \ Resident(ks)) \o ks

\* lookup_prefix: every hit is touched, in prefix order; misses change nothing.
AfterLookup(lru, ks) == Touch(lru, SubSeq(ks, 1, HitCount(lru, ks)))

\* materialize / store of a whole batch of blocks: all of them are touched or
\* inserted, and the least recently used ones fall out beyond the capacity.
AfterStore(lru, ks, capacity) ==
    LET all == Touch(lru, ks)
    IN  SubSeq(all, Len(all) - (IF Len(all) < capacity THEN Len(all) ELSE capacity) + 1, Len(all))

=========================================================================
