---------------------------- MODULE LRUCache ----------------------------
(***************************************************************************)
(* One finite block-cache tier with its stateful eviction policy, block by *)
(* block: HBMCache (cache/hbm_lru.py) and DDRLRUCache (cache/ddr_lru.py),  *)
(* whose loops are the same, on top of LRUEvictionPolicy                   *)
(* (cache/eviction.py).                                                    *)
(*                                                                         *)
(* The code keeps the resident blocks twice: in the cache's dictionary and *)
(* in the policy's OrderedDict, and it keeps the recency twice: the order  *)
(* of the OrderedDict and the last_access_seq of every block.  Each loop   *)
(* iteration of lookup_prefix and materialize is one action here, so that  *)
(* the states in which the two copies could part are visible.              *)
(***************************************************************************)
EXTENDS Naturals, Sequences, FiniteSets

CONSTANTS
    Keys,       \* block keys (chain hashes)
    Capacity,   \* capacity_blocks
    Batches,    \* block sequences the engine passes to a call
    MaxCalls    \* bound of the model: number of calls

ASSUME CapacityAssumption == Capacity \in Nat \ {0}
ASSUME BatchesAssumption == Batches \subseteq Seq(Keys)
\* The hash of a block covers its parent's (request/block_hasher.py), so no
\* prompt has a key twice, nor any part of one.
ASSUME DistinctBlocksAssumption ==
    \A ks \in Batches : \A i, j \in 1..Len(ks) : ks[i] = ks[j] => i = j
ASSUME MaxCallsAssumption == MaxCalls \in Nat

VARIABLES
    resident,    \* keys of self._blocks
    lastAccess,  \* last_access_seq of a block; 0 for a block that is not resident
    accessSeq,   \* self._access_seq
    recency,     \* key order of the policy's OrderedDict
    op,          \* the call in progress: "idle", "lookup" or "store"
    batch,       \* the blocks passed to it
    pos,         \* number of blocks its loop has processed
    answer,      \* hit blocks reported by the last lookup
    before,      \* history: the recency order when the call began
    calls        \* calls begun so far

vars == <<resident, lastAccess, accessSeq, recency, op, batch, pos, answer, before, calls>>

Init ==
    /\ resident = {}
    /\ lastAccess = [k \in Keys |-> 0]
    /\ accessSeq = 0
    /\ recency = <<>>
    /\ op = "idle"
    /\ batch = <<>>
    /\ pos = 0
    /\ answer = 0
    /\ before = <<>>
    /\ calls = 0

-----------------------------------------------------------------------------
(* The eviction policy.                                                      *)

Position(k) == CHOOSE i \in 1..Len(recency) : recency[i] = k

\* The order without the block at position i.
Without(i) == SubSeq(recency, 1, i - 1) \o SubSeq(recency, i + 1, Len(recency))

\* Mutation: a hit is not recorded, first in first out.
OnAccessForgotten(k) == k \in Keys /\ UNCHANGED recency

\* OrderedDict.move_to_end.
OnAccess(k) == recency' = Append(Without(Position(k)), k)

\* Mutation: a new block goes to the wrong end.
OnInsertOldest(k) == recency' = <<k>> \o recency

\* on_insert: pop the key if it is there, then add it at the end.
OnInsert(k) ==
    recency' = IF k \in {recency[i] : i \in 1..Len(recency)}
               THEN Append(Without(Position(k)), k)
               ELSE Append(recency, k)

\* Mutation: the policy is not told of an eviction.
OnRemoveForgotten(k) == k \in Keys /\ UNCHANGED recency

OnRemove(k) == recency' = Without(Position(k))

\* Mutation: the wrong end of the order.
VictimNewest == recency[Len(recency)]

\* select_victim: the first key of the OrderedDict.
Victim == recency[1]

-----------------------------------------------------------------------------
(* The calls.                                                                *)

Return ==
    /\ op' = "idle"
    /\ batch' = <<>>
    /\ pos' = 0
    /\ before' = <<>>

Block == batch[pos + 1]

Begin(o, ks) ==
    /\ op = "idle"
    /\ calls < MaxCalls
    /\ op' = o
    /\ batch' = ks
    /\ pos' = 0
    /\ before' = recency
    /\ calls' = calls + 1
    /\ UNCHANGED <<resident, lastAccess, accessSeq, recency, answer>>

\* _touch stamps the block; the policy moves it to the end.
TouchBlock(k) ==
    /\ accessSeq' = accessSeq + 1
    /\ lastAccess' = [lastAccess EXCEPT ![k] = accessSeq + 1]
    /\ OnAccess(k)

LookupHit ==
    /\ op = "lookup"
    /\ pos < Len(batch)
    /\ Block \in resident
    /\ TouchBlock(Block)
    /\ pos' = pos + 1
    /\ UNCHANGED <<resident, op, batch, answer, before, calls>>

\* The loop ends at the first missing block or after the last block.
LookupReturn ==
    /\ op = "lookup"
    /\ pos < Len(batch) => Block \notin resident
    /\ answer' = pos
    /\ Return
    /\ UNCHANGED <<resident, lastAccess, accessSeq, recency, calls>>

StoreExisting ==
    /\ op = "store"
    /\ pos < Len(batch)
    /\ Block \in resident
    /\ TouchBlock(Block)
    /\ pos' = pos + 1
    /\ UNCHANGED <<resident, op, batch, answer, before, calls>>

\* Mutation: one block too many.
FullLate == Cardinality(resident) > Capacity

\* The condition of the eviction loop.
Full == Cardinality(resident) >= Capacity

\* Mutation: a block that the running store has placed is not evicted; the loop
\* goes round without making room.
EvictOneProtecting ==
    /\ op = "store"
    /\ pos < Len(batch)
    /\ Block \notin resident
    /\ Full
    /\ Victim \notin {batch[i] : i \in 1..pos}
    /\ resident' = resident \ {Victim}
    /\ lastAccess' = [lastAccess EXCEPT ![Victim] = 0]
    /\ OnRemove(Victim)
    /\ UNCHANGED <<accessSeq, op, batch, pos, answer, before, calls>>

EvictOne ==
    /\ op = "store"
    /\ pos < Len(batch)
    /\ Block \notin resident
    /\ Full
    /\ resident' = resident \ {Victim}
    /\ lastAccess' = [lastAccess EXCEPT ![Victim] = 0]
    /\ OnRemove(Victim)
    /\ UNCHANGED <<accessSeq, op, batch, pos, answer, before, calls>>

StoreInsert ==
    /\ op = "store"
    /\ pos < Len(batch)
    /\ Block \notin resident
    /\ ~Full
    /\ resident' = resident \cup {Block}
    /\ accessSeq' = accessSeq + 1
    /\ lastAccess' = [lastAccess EXCEPT ![Block] = accessSeq + 1]
    /\ OnInsert(Block)
    /\ pos' = pos + 1
    /\ UNCHANGED <<op, batch, answer, before, calls>>

StoreReturn ==
    /\ op = "store"
    /\ pos = Len(batch)
    /\ Return
    /\ UNCHANGED <<resident, lastAccess, accessSeq, recency, answer, calls>>

\* One iteration of the loop of the call in progress, or its return.
Continue ==
    \/ LookupHit
    \/ LookupReturn
    \/ StoreExisting
    \/ EvictOne
    \/ StoreInsert
    \/ StoreReturn

Next ==
    \/ \E ks \in Batches : Begin("lookup", ks) \/ Begin("store", ks)
    \/ Continue

Spec == Init /\ [][Next]_vars

\* A call runs to its return without yielding; nobody has to make another one.
FairSpec == Spec /\ WF_vars(Continue)

-----------------------------------------------------------------------------
(* Properties.                                                               *)

\* The tier never holds more blocks than its capacity, in the middle of a
\* call included.
WithinCapacity == Cardinality(resident) <= Capacity

\* The policy and the cache agree on the resident blocks at every step: none
\* of the "non-resident block" errors of cache/eviction.py can be raised.
PolicyInSync ==
    /\ resident = {recency[i] : i \in 1..Len(recency)}
    /\ \A i, j \in 1..Len(recency) : recency[i] = recency[j] => i = j

\* The two records of recency agree: the OrderedDict order is the order of
\* last_access_seq, so its head is the least recently accessed block.
LRUOrdered ==
    \A i, j \in 1..Len(recency) :
        i < j => lastAccess[recency[i]] < lastAccess[recency[j]]

\* An eviction only ever takes the resident block with the smallest
\* last_access_seq, and never a block the running store has already placed
\* while an older one is left.
EvictsOldest ==
    [][\A k \in resident \ resident' :
          \A other \in resident' : lastAccess[k] < lastAccess[other]]_vars

\* The eviction loop of a store always makes room, also when every block of the
\* tier was placed by the store that is running: every call returns.
CallsReturn == (op # "idle") ~> (op = "idle")

\* The loop implements the atomic calls of IdealLRU: the call's effect becomes
\* visible at its return.
Ideal == INSTANCE IdealLRU WITH
    lru <- IF op = "idle" THEN recency ELSE before

ImplementsIdealLRU == Ideal!Spec

=========================================================================
