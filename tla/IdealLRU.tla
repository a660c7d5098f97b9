---------------------------- MODULE IdealLRU ----------------------------
(***************************************************************************)
(* What a block cache promises to the replay engine: two atomic calls over *)
(* a recency order.  A lookup reports the longest resident prefix and      *)
(* refreshes it; a store makes its blocks the most recently used ones and  *)
(* drops the least recently used blocks beyond the capacity.               *)
(***************************************************************************)
EXTENDS PrefixCacheOps

CONSTANTS
    Capacity,   \* number of blocks the tier can hold
    Batches     \* block sequences a call may be given

VARIABLES
    lru,        \* recency order, least recently used first
    answer      \* number of hit blocks the last lookup reported

vars == <<lru, answer>>

Init ==
    /\ lru = <<>>
    /\ answer = 0

Lookup(ks) ==
    /\ answer' = HitCount(lru, ks)
    /\ lru' = AfterLookup(lru, ks)

Store(ks) ==
    /\ lru' = AfterStore(lru, ks, Capacity)
    /\ UNCHANGED answer

Next == \E ks \in Batches : Lookup(ks) \/ Store(ks)

Spec == Init /\ [][Next]_vars

=========================================================================
