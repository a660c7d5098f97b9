------------------------- MODULE LRUCacheProofs -------------------------
(***************************************************************************)
(* Proofs about LRUCache: for every set of keys, every capacity and every  *)
(* sequence of calls, the cache never exceeds its capacity, the eviction   *)
(* policy stays in step with it, its two records of recency agree, and an  *)
(* eviction takes the least recently used block.                           *)
(***************************************************************************)
EXTENDS LRUCache, PrefixCacheProofs

\* Blocks of the policy's order.
Known == {recency[i] : i \in 1..Len(recency)}

\* Every stamp has been given out: a new one is larger than all of them.
StampsIssued == \A k \in Keys : lastAccess[k] <= accessSeq

\* What kind of value each variable has, for the steps of the proofs.
TypeOK ==
    /\ resident \subseteq Keys
    /\ lastAccess \in [Keys -> Nat]
    /\ accessSeq \in Nat
    /\ recency \in Seq(Keys)
    /\ op \in {"idle", "lookup", "store"}
    /\ batch \in Seq(Keys)
    /\ pos \in 0..Len(batch)
    /\ answer \in Nat
    /\ before \in Seq(Keys)
    /\ calls \in 0..MaxCalls

IInv ==
    /\ TypeOK
    /\ IsFiniteSet(resident)
    /\ WithinCapacity
    /\ PolicyInSync
    /\ LRUOrdered
    /\ StampsIssued

-----------------------------------------------------------------------------
(* The policy's order without one position.                                  *)

\* What is left of the order, position by position.
LEMMA WithoutPositions ==
    ASSUME recency \in Seq(Keys), NEW i \in 1..Len(recency)
    PROVE  /\ Without(i) \in Seq(Keys)
           /\ Len(Without(i)) = Len(recency) - 1
           /\ \A j \in 1..(Len(recency) - 1) :
                  Without(i)[j] = IF j < i THEN recency[j] ELSE recency[j + 1]
<1> DEFINE n == Len(recency)
           left == SubSeq(recency, 1, i - 1)
           right == SubSeq(recency, i + 1, n)
<1>0. n \in Nat /\ i \in 1..n
  BY LenProperties
<1>1. /\ left \in Seq(Keys) /\ Len(left) = i - 1
      /\ \A j \in 1..(i - 1) : left[j] = recency[j]
  BY <1>0, SubSeqProperties
<1>2. /\ right \in Seq(Keys) /\ Len(right) = n - i
      /\ \A j \in 1..(n - i) : right[j] = recency[i + j]
  BY <1>0, SubSeqProperties
<1>3. /\ left \o right \in Seq(Keys) /\ Len(left \o right) = n - 1
      /\ \A j \in 1..(n - 1) :
             (left \o right)[j] = IF j <= i - 1 THEN left[j] ELSE right[j - (i - 1)]
  <2> HIDE DEF left, right
  <2>1. /\ left \o right \in Seq(Keys)
        /\ Len(left \o right) = Len(left) + Len(right)
        /\ \A j \in 1..(Len(left) + Len(right)) :
               (left \o right)[j] = IF j <= Len(left) THEN left[j] ELSE right[j - Len(left)]
    BY <1>1, <1>2, ConcatProperties
  <2>2. Len(left) = i - 1 /\ Len(right) = n - i /\ (i - 1) + (n - i) = n - 1
    BY <1>0, <1>1, <1>2
  <2> QED
    BY <2>1, <2>2
<1>4. ASSUME NEW j \in 1..(n - 1)
      PROVE  (left \o right)[j] = IF j < i THEN recency[j] ELSE recency[j + 1]
  <2> HIDE DEF left, right
  <2>1. CASE j < i
    <3>1. j \in 1..(i - 1) /\ j <= i - 1
      BY <2>1, <1>0
    <3> QED
      BY <3>1, <2>1, <1>1, <1>3
  <2>2. CASE ~(j < i)
    <3>1. j - (i - 1) \in 1..(n - i) /\ i + (j - (i - 1)) = j + 1 /\ ~(j <= i - 1)
      BY <2>2, <1>0
    <3> QED
      BY <3>1, <2>2, <1>2, <1>3
  <2> QED
    BY <2>1, <2>2
<1> QED
  BY <1>0, <1>3, <1>4 DEF Without

\* Removing a block: the others stay, in the same order.
LEMMA WithoutOne ==
    ASSUME IInv, NEW i \in 1..Len(recency)
    PROVE  /\ Without(i) \in Seq(Keys)
           /\ {Without(i)[j] : j \in 1..Len(Without(i))} = resident \ {recency[i]}
           /\ \A a, b \in 1..Len(Without(i)) :
                  /\ Without(i)[a] = Without(i)[b] => a = b
                  /\ a < b => lastAccess[Without(i)[a]] < lastAccess[Without(i)[b]]
<1> DEFINE n == Len(recency)
           w == Without(i)
<1>0. recency \in Seq(Keys) /\ n \in Nat /\ i \in 1..n
  BY LenProperties DEF IInv, TypeOK
<1>1. /\ w \in Seq(Keys) /\ Len(w) = n - 1
      /\ \A j \in 1..(n - 1) : w[j] = IF j < i THEN recency[j] ELSE recency[j + 1]
  BY <1>0, WithoutPositions
<1> HIDE DEF w
<1>2. \A j, k \in 1..n : recency[j] = recency[k] => j = k
  BY DEF IInv, PolicyInSync
<1>3. \A j, k \in 1..n : j < k => lastAccess[recency[j]] < lastAccess[recency[k]]
  BY DEF IInv, LRUOrdered
<1>4. {w[j] : j \in 1..Len(w)} \subseteq resident \ {recency[i]}
  <2> SUFFICES ASSUME NEW x \in {w[j] : j \in 1..Len(w)}
               PROVE  x \in resident \ {recency[i]}
    OBVIOUS
  <2>1. PICK j \in 1..(n - 1) : x = w[j]
    BY <1>1
  <2>2. CASE j < i
    BY <2>1, <2>2, <1>0, <1>1, <1>2 DEF IInv, PolicyInSync
  <2>3. CASE ~(j < i)
    <3>1. j + 1 \in 1..n /\ j + 1 # i /\ x = recency[j + 1]
      BY <2>1, <2>3, <1>0, <1>1
    <3> QED
      BY <3>1, <1>0, <1>2 DEF IInv, PolicyInSync
  <2> QED
    BY <2>2, <2>3
<1>5. resident \ {recency[i]} \subseteq {w[j] : j \in 1..Len(w)}
  <2> SUFFICES ASSUME NEW x \in resident \ {recency[i]}
               PROVE  x \in {w[j] : j \in 1..Len(w)}
    OBVIOUS
  <2>1. PICK j \in 1..n : x = recency[j] /\ j # i
    BY DEF IInv, PolicyInSync
  <2>2. CASE j < i
    <3>1. j \in 1..(n - 1) /\ w[j] = x
      BY <2>1, <2>2, <1>0, <1>1
    <3> QED
      BY <3>1, <1>1
  <2>3. CASE ~(j < i)
    <3>1. j - 1 \in 1..(n - 1) /\ ~(j - 1 < i) /\ (j - 1) + 1 = j
      BY <2>1, <2>3, <1>0
    <3>2. w[j - 1] = x
      BY <3>1, <2>1, <1>1
    <3> QED
      BY <3>1, <3>2, <1>1
  <2> QED
    BY <2>2, <2>3
<1>6. ASSUME NEW a \in 1..(n - 1), NEW b \in 1..(n - 1)
      PROVE  /\ w[a] = w[b] => a = b
             /\ a < b => lastAccess[w[a]] < lastAccess[w[b]]
  <2>1. PICK c \in 1..n : w[a] = recency[c] /\ c = IF a < i THEN a ELSE a + 1
    BY <1>0, <1>1
  <2>2. PICK d \in 1..n : w[b] = recency[d] /\ d = IF b < i THEN b ELSE b + 1
    BY <1>0, <1>1
  <2>3. (c = d => a = b) /\ (a < b => c < d)
    BY <2>1, <2>2, <1>0
  <2> QED
    BY <2>1, <2>2, <2>3, <1>2, <1>3
<1> QED
  BY <1>1, <1>4, <1>5, <1>6 DEF w

\* A block that is known to the policy has a position.
LEMMA PositionKnown ==
    ASSUME IInv, NEW k \in resident
    PROVE  Position(k) \in 1..Len(recency) /\ recency[Position(k)] = k
<1>1. \E i \in 1..Len(recency) : recency[i] = k
  BY DEF IInv, PolicyInSync
<1> QED
  BY <1>1 DEF Position

\* Adding a block that is not in the order, with a new stamp, at its end.
LEMMA AppendNewest ==
    ASSUME lastAccess \in [Keys -> Nat], accessSeq \in Nat, StampsIssued,
           NEW w \in Seq(Keys), NEW R, R = {w[j] : j \in 1..Len(w)},
           \A a, b \in 1..Len(w) :
               /\ w[a] = w[b] => a = b
               /\ a < b => lastAccess[w[a]] < lastAccess[w[b]],
           NEW k \in Keys, k \notin R,
           lastAccess' = [lastAccess EXCEPT ![k] = accessSeq + 1],
           recency' = Append(w, k)
    PROVE  /\ recency' \in Seq(Keys)
           /\ R \cup {k} = {recency'[j] : j \in 1..Len(recency')}
           /\ \A a, b \in 1..Len(recency') : recency'[a] = recency'[b] => a = b
           /\ LRUOrdered'
<1> DEFINE n == Len(w)
<1>0. n \in Nat
  BY LenProperties
<1>1. /\ recency' \in Seq(Keys) /\ Len(recency') = n + 1
      /\ \A j \in 1..n : recency'[j] = w[j]
      /\ recency'[n + 1] = k
  BY AppendProperties
<1>2. \A j \in 1..n : w[j] \in R /\ w[j] \in Keys /\ w[j] # k
  BY ElementOfSeq
<1>3. \A j \in 1..n : lastAccess'[w[j]] = lastAccess[w[j]]
                      /\ lastAccess[w[j]] \in Nat /\ lastAccess[w[j]] <= accessSeq
  BY <1>2 DEF StampsIssued
<1>4. lastAccess'[k] = accessSeq + 1
  OBVIOUS
<1>5. R \cup {k} = {recency'[j] : j \in 1..Len(recency')}
  <2>1. \A x \in R \cup {k} : \E j \in 1..(n + 1) : recency'[j] = x
    <3> TAKE x \in R \cup {k}
    <3>1. CASE x = k
      BY <3>1, <1>0, <1>1
    <3>2. CASE x \in R
      <4>1. PICK j \in 1..n : w[j] = x
        BY <3>2
      <4> QED
        BY <4>1, <1>0, <1>1
    <3> QED
      BY <3>1, <3>2
  <2>2. \A j \in 1..(n + 1) : recency'[j] \in R \cup {k}
    <3> TAKE j \in 1..(n + 1)
    <3>1. CASE j = n + 1
      BY <3>1, <1>1
    <3>2. CASE j \in 1..n
      BY <3>2, <1>1, <1>2
    <3> QED
      BY <3>1, <3>2, <1>0
  <2> QED
    BY <2>1, <2>2, <1>1
<1>6. ASSUME NEW a \in 1..(n + 1), NEW b \in 1..(n + 1)
      PROVE  /\ recency'[a] = recency'[b] => a = b
             /\ a < b => lastAccess'[recency'[a]] < lastAccess'[recency'[b]]
  <2>1. CASE a \in 1..n /\ b \in 1..n
    BY <2>1, <1>1, <1>3
  <2>2. CASE a \in 1..n /\ b = n + 1
    <3>1. recency'[a] = w[a] /\ recency'[b] = k /\ w[a] # k
      BY <2>2, <1>1, <1>2
    <3>2. lastAccess'[w[a]] < lastAccess'[k]
      BY <2>2, <1>3, <1>4
    <3> QED
      BY <3>1, <3>2
  <2>3. CASE a = n + 1 /\ b \in 1..n
    BY <2>3, <1>0, <1>1, <1>2
  <2>4. CASE a = n + 1 /\ b = n + 1
    BY <2>4, <1>0
  <2> QED
    BY <2>1, <2>2, <2>3, <2>4, <1>0
<1>7. LRUOrdered'
  BY <1>1, <1>6 DEF LRUOrdered
<1> QED
  BY <1>1, <1>5, <1>6, <1>7

\* A new stamp is the largest one issued.
LEMMA StampIssued ==
    ASSUME IInv, NEW k \in Keys,
           accessSeq' = accessSeq + 1,
           lastAccess' = [lastAccess EXCEPT ![k] = accessSeq + 1]
    PROVE  StampsIssued' /\ accessSeq' \in Nat /\ lastAccess' \in [Keys -> Nat]
  BY DEF IInv, TypeOK, StampsIssued

-----------------------------------------------------------------------------
(* The steps.                                                                *)

\* Touching a resident block.
LEMMA TouchInv ==
    ASSUME IInv, NEW k \in resident, TouchBlock(k), UNCHANGED resident
    PROVE  /\ recency' \in Seq(Keys) /\ accessSeq' \in Nat /\ lastAccess' \in [Keys -> Nat]
           /\ PolicyInSync' /\ LRUOrdered' /\ StampsIssued'
<1> DEFINE i == Position(k)
           w == Without(i)
<1>1. i \in 1..Len(recency) /\ recency[i] = k
  BY PositionKnown
<1>2. k \in Keys
  BY DEF IInv, TypeOK
<1>3. /\ w \in Seq(Keys)
      /\ {w[j] : j \in 1..Len(w)} = resident \ {k}
      /\ \A a, b \in 1..Len(w) :
             /\ w[a] = w[b] => a = b
             /\ a < b => lastAccess[w[a]] < lastAccess[w[b]]
  BY <1>1, WithoutOne
<1>4. /\ recency' = Append(w, k)
      /\ lastAccess' = [lastAccess EXCEPT ![k] = accessSeq + 1]
      /\ accessSeq' = accessSeq + 1
  BY DEF TouchBlock, OnAccess
<1>5. StampsIssued' /\ accessSeq' \in Nat /\ lastAccess' \in [Keys -> Nat]
  BY <1>2, <1>4, StampIssued
<1> HIDE DEF w
<1> DEFINE R == resident \ {k}
<1>6. /\ lastAccess \in [Keys -> Nat] /\ accessSeq \in Nat /\ StampsIssued
      /\ R = {w[j] : j \in 1..Len(w)} /\ k \notin R
  BY <1>3 DEF IInv, TypeOK
<1> HIDE DEF R
<1>7. /\ recency' \in Seq(Keys)
      /\ R \cup {k} = {recency'[j] : j \in 1..Len(recency')}
      /\ \A a, b \in 1..Len(recency') : recency'[a] = recency'[b] => a = b
      /\ LRUOrdered'
  BY <1>2, <1>3, <1>4, <1>6, AppendNewest
<1>8. R \cup {k} = resident'
  BY DEF R
<1> QED
  BY <1>5, <1>7, <1>8 DEF PolicyInSync

\* The block at hand is a key.
LEMMA BlockIsKey ==
    ASSUME IInv, pos < Len(batch)
    PROVE  Block \in Keys /\ pos + 1 \in 0..Len(batch)
<1>1. batch \in Seq(Keys) /\ pos \in Nat /\ Len(batch) \in Nat
  BY LenProperties DEF IInv, TypeOK
<1> QED
  BY <1>1, ElementOfSeq DEF Block

LEMMA InitInv == Init => IInv
<1> SUFFICES ASSUME Init PROVE IInv
  OBVIOUS
<1>1. TypeOK
  BY EmptySeq, MaxCallsAssumption DEF Init, TypeOK
<1>2. IsFiniteSet(resident) /\ WithinCapacity
  BY FS_EmptySet, CapacityAssumption DEF Init, WithinCapacity
<1>3. PolicyInSync /\ LRUOrdered /\ StampsIssued
  BY DEF Init, PolicyInSync, LRUOrdered, StampsIssued
<1> QED
  BY <1>1, <1>2, <1>3 DEF IInv

LEMMA BeginInv ==
    ASSUME IInv, NEW ks \in Batches, NEW o \in {"lookup", "store"}, Begin(o, ks)
    PROVE  IInv'
<1>1. TypeOK'
  BY BatchesAssumption, MaxCallsAssumption, LenProperties DEF IInv, TypeOK, Begin
<1> QED
  BY <1>1 DEF IInv, Begin, WithinCapacity, PolicyInSync, LRUOrdered, StampsIssued

\* A hit of a lookup, or a block of a store that is resident already.
LEMMA HitInv ==
    ASSUME IInv, LookupHit \/ StoreExisting
    PROVE  IInv'
<1>0. /\ pos < Len(batch) /\ Block \in resident /\ TouchBlock(Block) /\ pos' = pos + 1
      /\ UNCHANGED <<resident, op, batch, answer, before, calls>>
  BY DEF LookupHit, StoreExisting
<1>1. /\ recency' \in Seq(Keys) /\ accessSeq' \in Nat /\ lastAccess' \in [Keys -> Nat]
      /\ PolicyInSync' /\ LRUOrdered' /\ StampsIssued'
  BY <1>0, TouchInv
<1>2. TypeOK'
  BY <1>0, <1>1, BlockIsKey DEF IInv, TypeOK
<1> QED
  BY <1>0, <1>1, <1>2 DEF IInv, WithinCapacity

LEMMA ReturnInv ==
    ASSUME IInv, LookupReturn \/ StoreReturn
    PROVE  IInv'
<1>0. /\ op' = "idle" /\ batch' = <<>> /\ pos' = 0 /\ before' = <<>> /\ answer' \in Nat
      /\ UNCHANGED <<resident, lastAccess, accessSeq, recency, calls>>
  BY LenProperties DEF LookupReturn, StoreReturn, Return, IInv, TypeOK
<1>1. TypeOK'
  BY <1>0, EmptySeq DEF IInv, TypeOK
<1> QED
  BY <1>0, <1>1 DEF IInv, WithinCapacity, PolicyInSync, LRUOrdered, StampsIssued

\* A full cache has a victim: the first block of the order, which is resident.
LEMMA VictimResident ==
    ASSUME IInv, Cardinality(resident) >= Capacity
    PROVE  /\ 1 \in 1..Len(recency)
           /\ Victim \in resident
<1>1. resident # {}
  BY FS_EmptySet, CapacityAssumption DEF IInv
<1>2. Len(recency) \in Nat
  BY LenProperties DEF IInv, TypeOK
<1> QED
  BY <1>1, <1>2 DEF IInv, PolicyInSync, Victim

LEMMA EvictInv ==
    ASSUME IInv, EvictOne
    PROVE  IInv'
<1>0. /\ Cardinality(resident) >= Capacity
      /\ resident' = resident \ {Victim}
      /\ lastAccess' = [lastAccess EXCEPT ![Victim] = 0]
      /\ recency' = Without(Position(Victim))
      /\ UNCHANGED <<accessSeq, op, batch, pos, answer, before, calls>>
  BY DEF EvictOne, Full, OnRemove
<1> DEFINE v == Victim
           i == Position(v)
<1>1. v \in resident /\ v \in Keys
  BY <1>0, VictimResident DEF IInv, TypeOK
<1>2. i \in 1..Len(recency) /\ recency[i] = v
  BY <1>1, PositionKnown
<1>3. /\ recency' \in Seq(Keys)
      /\ {recency'[j] : j \in 1..Len(recency')} = resident'
      /\ \A a, b \in 1..Len(recency') :
             /\ recency'[a] = recency'[b] => a = b
             /\ a < b => lastAccess[recency'[a]] < lastAccess[recency'[b]]
  BY <1>0, <1>2, WithoutOne
<1> HIDE DEF v
<1>4. \A a \in 1..Len(recency') : recency'[a] \in resident' /\ recency'[a] # v
  BY <1>0, <1>3 DEF v
<1>5. LRUOrdered'
  BY <1>0, <1>3, <1>4 DEF LRUOrdered, v, IInv, TypeOK
<1>6. PolicyInSync'
  BY <1>3 DEF PolicyInSync
<1>7. TypeOK'
  BY <1>0, <1>1, <1>3 DEF IInv, TypeOK, v
<1>8. StampsIssued'
  BY <1>0, <1>1 DEF StampsIssued, IInv, TypeOK, v
<1>9. IsFiniteSet(resident') /\ WithinCapacity'
  <2>1. /\ IsFiniteSet(resident \ {v})
        /\ Cardinality(resident \ {v}) <= Cardinality(resident)
    BY FS_Subset DEF IInv
  <2>2. Cardinality(resident) \in Nat /\ Cardinality(resident \ {v}) \in Nat
    BY <2>1, FS_CardinalityType DEF IInv
  <2> QED
    BY <2>1, <2>2, <1>0, CapacityAssumption DEF IInv, WithinCapacity, v
<1> QED
  BY <1>5, <1>6, <1>7, <1>8, <1>9 DEF IInv

LEMMA InsertInv ==
    ASSUME IInv, StoreInsert
    PROVE  IInv'
<1> DEFINE k == Block
<1>0. /\ k \notin resident /\ pos < Len(batch) /\ Cardinality(resident) < Capacity
      /\ resident' = resident \cup {k}
      /\ accessSeq' = accessSeq + 1
      /\ lastAccess' = [lastAccess EXCEPT ![k] = accessSeq + 1]
      /\ OnInsert(k) /\ pos' = pos + 1
      /\ UNCHANGED <<op, batch, answer, before, calls>>
  BY FS_CardinalityType, CapacityAssumption DEF StoreInsert, Full, IInv
<1>1. k \in Keys /\ pos + 1 \in 0..Len(batch)
  BY <1>0, BlockIsKey
<1> HIDE DEF k
<1>2. recency' = Append(recency, k)
  BY <1>0 DEF OnInsert, IInv, PolicyInSync
<1>3. StampsIssued' /\ accessSeq' \in Nat /\ lastAccess' \in [Keys -> Nat]
  BY <1>0, <1>1, StampIssued
<1>4. /\ lastAccess \in [Keys -> Nat] /\ accessSeq \in Nat /\ StampsIssued
      /\ recency \in Seq(Keys)
      /\ resident = {recency[j] : j \in 1..Len(recency)}
      /\ \A a, b \in 1..Len(recency) :
             /\ recency[a] = recency[b] => a = b
             /\ a < b => lastAccess[recency[a]] < lastAccess[recency[b]]
  BY DEF IInv, TypeOK, PolicyInSync, LRUOrdered
<1>5. /\ recency' \in Seq(Keys)
      /\ resident \cup {k} = {recency'[j] : j \in 1..Len(recency')}
      /\ \A a, b \in 1..Len(recency') : recency'[a] = recency'[b] => a = b
      /\ LRUOrdered'
  BY <1>0, <1>1, <1>2, <1>4, AppendNewest
<1>6. PolicyInSync'
  BY <1>0, <1>5 DEF PolicyInSync
<1>7. TypeOK'
  BY <1>0, <1>1, <1>3, <1>5 DEF IInv, TypeOK
<1>8. IsFiniteSet(resident') /\ WithinCapacity'
  <2>1. /\ IsFiniteSet(resident \cup {k})
        /\ Cardinality(resident \cup {k}) = Cardinality(resident) + 1
    BY <1>0, FS_AddElement DEF IInv
  <2>2. Cardinality(resident) \in Nat
    BY FS_CardinalityType DEF IInv
  <2> QED
    BY <2>1, <2>2, <1>0, CapacityAssumption DEF WithinCapacity
<1> QED
  BY <1>3, <1>5, <1>6, <1>7, <1>8 DEF IInv

LEMMA NextInv == IInv /\ [Next]_vars => IInv'
<1> SUFFICES ASSUME IInv, [Next]_vars PROVE IInv'
  OBVIOUS
<1>1. CASE \E ks \in Batches : Begin("lookup", ks) \/ Begin("store", ks)
  BY <1>1, BeginInv
<1>2. CASE LookupHit \/ StoreExisting
  BY <1>2, HitInv
<1>3. CASE LookupReturn \/ StoreReturn
  BY <1>3, ReturnInv
<1>4. CASE EvictOne
  BY <1>4, EvictInv
<1>5. CASE StoreInsert
  BY <1>5, InsertInv
<1>6. CASE UNCHANGED vars
  BY <1>6 DEF vars, IInv, TypeOK, WithinCapacity, PolicyInSync, LRUOrdered, StampsIssued
<1> QED
  BY <1>1, <1>2, <1>3, <1>4, <1>5, <1>6 DEF Next, Continue

-----------------------------------------------------------------------------
(* The loop of a call implements the atomic call of IdealLRU.                *)

\* The blocks of the call that its loop has processed.
Done == SubSeq(batch, 1, pos)

\* A lookup has touched them, in their order, and all of them are hits.
LookupInv ==
    op = "lookup" => /\ recency = Touch(before, Done)
                     /\ Resident(before) = resident
                     /\ \A i \in 1..pos : batch[i] \in resident

\* A store has dropped d from the order that would hold all the blocks: nothing,
\* or what the capacity demands, or one block more for the block at hand.
Dropped(d) ==
    /\ Touch(before, Done) = d \o recency
    /\ \/ d = <<>>
       \/ Len(recency) = Capacity
       \/ Len(recency) = Capacity - 1 /\ pos < Len(batch) /\ Block \notin resident

StoreInv == op = "store" => \E d \in Seq(Keys) : Dropped(d)

CallInv ==
    /\ IInv
    /\ op # "idle" => batch \in Batches
    /\ LookupInv
    /\ StoreInv

\* The operators of IdealLRU are those of PrefixCacheOps.
LEMMA SameOperators ==
    ASSUME NEW lru, NEW ks
    PROVE  /\ Ideal!HitCount(lru, ks) = HitCount(lru, ks)
           /\ Ideal!AfterLookup(lru, ks) = AfterLookup(lru, ks)
           /\ Ideal!AfterStore(lru, ks, Capacity) = AfterStore(lru, ks, Capacity)
<1>1. \A q : Ideal!Resident(q) = Resident(q) BY DEF Ideal!Resident, Resident
<1>2. \A q, S : Ideal!Keep(q, S) = Keep(q, S) BY DEF Ideal!Keep, Keep
<1>3. \A q, r : Ideal!Touch(q, r) = Touch(q, r) BY <1>1, <1>2 DEF Ideal!Touch, Touch
<1>4. Ideal!HitCount(lru, ks) = HitCount(lru, ks)
  BY DEF Ideal!HitCount, HitCount, Ideal!Resident, Resident
<1>5. Ideal!AfterLookup(lru, ks) = AfterLookup(lru, ks)
  BY <1>3, <1>4 DEF Ideal!AfterLookup, AfterLookup
<1>6. Ideal!AfterStore(lru, ks, Capacity) = AfterStore(lru, ks, Capacity)
  BY <1>3 DEF Ideal!AfterStore, AfterStore
<1> QED BY <1>4, <1>5, <1>6

\* The order holds the resident blocks, each once.
LEMMA OrderOfResidents ==
    ASSUME IInv
    PROVE  /\ recency \in Seq(Keys) /\ Len(recency) \in Nat
           /\ Resident(recency) = resident
           /\ Cardinality(resident) = Len(recency)
           /\ Len(recency) <= Capacity
<1>1. recency \in Seq(Keys) /\ Len(recency) \in Nat BY DEF IInv, TypeOK
<1>2. Resident(recency) = resident BY <1>1 DEF Resident, IInv, PolicyInSync
<1>3. Cardinality(resident) = Len(recency)
  <2>1. PICK n \in Nat : n = Len(recency) BY <1>1
  <2>2. PICK f : f = [i \in 1..n |-> recency[i]] OBVIOUS
  <2>3. f \in Bijection(1..n, resident)
    BY <1>1, <2>1, <2>2 DEF IInv, PolicyInSync, Bijection, Injection, Surjection, IsInjective
  <2>4. ExistsBijection(1..n, resident) BY <2>3 DEF ExistsBijection
  <2>5. Cardinality(resident) = n BY <2>4, FS_CountingElements
  <2> QED BY <2>1, <2>5
<1> QED BY <1>1, <1>2, <1>3 DEF IInv, WithinCapacity

\* Leaving out a position of the order is keeping all the other blocks.
LEMMA WithoutIsKeep ==
    ASSUME IInv, NEW i \in 1..Len(recency)
    PROVE  Without(i) = Keep(recency, Keys \ {recency[i]})
<1>0. recency \in Seq(Keys) /\ Len(recency) \in Nat BY OrderOfResidents
<1>1. PICK n \in Nat : n = Len(recency) BY <1>0
<1>2. PICK x \in Keys : x = recency[i] BY <1>0
<1>3. \A j \in 1..n : recency[j] = x => j = i BY <1>1, <1>2 DEF IInv, PolicyInSync
<1>4. PICK l \in Seq(Keys) : l = SubSeq(recency, 1, i - 1)
  <2>1. 1 \in Int /\ i - 1 \in Int /\ 1 <= 1 /\ i - 1 <= Len(recency) BY <1>0
  <2> QED BY <1>0, <2>1, SubSeqResident
<1>5. PICK r \in Seq(Keys) : r = SubSeq(recency, i + 1, n)
  <2>1. i + 1 \in Int /\ n \in Int /\ 1 <= i + 1 /\ n <= Len(recency) BY <1>0, <1>1
  <2>2. PICK m \in Int : m = i + 1 BY <2>1
  <2> QED BY <1>0, <2>1, <2>2, SubSeqResident
<1>6. Resident(l) \subseteq Keys \ {x}
  <2>1. 1 \in Int /\ i - 1 \in Int /\ 1 <= 1 /\ i - 1 <= Len(recency) BY <1>0
  <2>2. PICK m \in Int : m = i - 1 BY <2>1
  <2>3. \A y \in Resident(l) : \E j \in 1..m : y = recency[j]
    BY <1>0, <1>4, <2>1, <2>2, SubSeqResident
  <2>4. Resident(l) \subseteq Keys BY DEF Resident
  <2> QED BY <1>1, <1>3, <2>2, <2>3, <2>4
<1>7. Resident(r) \subseteq Keys \ {x}
  <2>1. PICK m \in Int : m = i + 1 OBVIOUS
  <2>2. m \in Int /\ n \in Int /\ 1 <= m /\ n <= Len(recency) BY <1>0, <1>1, <2>1
  <2>3. \A y \in Resident(r) : \E j \in m..n : y = recency[j]
    BY <1>0, <1>5, <2>1, <2>2, SubSeqResident
  <2>4. Resident(r) \subseteq Keys BY DEF Resident
  <2> QED BY <1>1, <1>3, <2>1, <2>3, <2>4
<1>8. recency = Append(l, x) \o r
  <2>1. PICK a \in Seq(Keys) : a = Append(l, x) BY AppendProperties
  <2>2. Len(l) = i - 1 /\ \A j \in 1..(i - 1) : l[j] = recency[j]
    BY <1>0, <1>4, SubSeqProperties
  <2>3. Len(a) = i /\ a[i] = x /\ \A j \in 1..(i - 1) : a[j] = recency[j]
    BY <2>1, <2>2, AppendProperties
  <2>4. Len(r) = n - i /\ \A j \in 1..(n - i) : r[j] = recency[i + j]
    BY <1>0, <1>1, <1>5, SubSeqProperties
  <2>5. a \o r \in Seq(Keys) /\ Len(a \o r) = n BY <1>1, <2>3, <2>4, ConcatProperties
  <2>6. ASSUME NEW j \in 1..n PROVE (a \o r)[j] = recency[j]
    <3>1. CASE j <= i
      <4>1. j \in 1..Len(a) /\ j \in 1..i BY <2>3, <3>1
      <4>2. (a \o r)[j] = a[j] BY <4>1, ConcatProperties
      <4>3. a[j] = recency[j]
        <5>1. CASE j = i BY <1>2, <2>3, <5>1
        <5>2. CASE j # i
          <6>1. j \in 1..(i - 1) BY <4>1, <5>2
          <6> QED BY <2>3, <6>1
        <5> QED BY <5>1, <5>2
      <4> QED BY <4>2, <4>3
    <3>2. CASE j > i
      <4>1. j - i \in 1..(n - i) /\ i + (j - i) = j BY <3>2
      <4>2. (a \o r)[j] = r[j - i] BY <2>3, <2>4, <3>2, ConcatProperties
      <4> QED BY <2>4, <4>1, <4>2
    <3>3. j <= i \/ j > i BY <1>0
    <3> QED BY <3>1, <3>2, <3>3
  <2>7. a \o r = recency BY <1>0, <1>1, <2>5, <2>6, SeqEqual
  <2> QED BY <2>1, <2>7
<1>9. Keep(recency, Keys \ {x}) = l \o r
  <2>1. PICK a \in Seq(Keys) : a = Append(l, x) BY AppendProperties
  <2>2. Keep(a, Keys \ {x}) = Keep(l, Keys \ {x}) BY <2>1, KeepAppend
  <2>3. Keep(l, Keys \ {x}) = l BY <1>6, KeepAll
  <2>4. Keep(r, Keys \ {x}) = r BY <1>7, KeepAll
  <2>5. PICK S : S = Keys \ {x} OBVIOUS
  <2>6. Keep(a \o r, S) = Keep(a, S) \o Keep(r, S) BY KeepConcat
  <2> QED BY <1>8, <2>1, <2>2, <2>3, <2>4, <2>5, <2>6
<1> QED BY <1>1, <1>2, <1>4, <1>5, <1>9 DEF Without

\* A touch takes the block out of the order and puts it at its end.
LEMMA TouchMoves ==
    ASSUME IInv, NEW k \in resident, TouchBlock(k)
    PROVE  recency' = Append(Keep(recency, Keys \ {k}), k)
<1>1. Position(k) \in 1..Len(recency) /\ recency[Position(k)] = k BY PositionKnown
<1>2. Without(Position(k)) = Keep(recency, Keys \ {k}) BY <1>1, WithoutIsKeep
<1> QED BY <1>2 DEF TouchBlock, OnAccess

\* The processed blocks, and the one at hand, which is not among them.
LEMMA DoneType ==
    ASSUME IInv
    PROVE  /\ Done \in Seq(Keys) /\ Len(Done) = pos
           /\ pos \in Nat /\ Len(batch) \in Nat /\ batch \in Seq(Keys) /\ pos <= Len(batch)
           /\ \A i \in 1..pos : Done[i] = batch[i]
           /\ before \in Seq(Keys)
<1>1. pos \in Nat /\ Len(batch) \in Nat /\ batch \in Seq(Keys) /\ pos <= Len(batch)
      /\ before \in Seq(Keys)
  BY DEF IInv, TypeOK
<1>2. Done \in Seq(Keys) /\ Len(Done) = pos /\ \A i \in 1..pos : Done[i] = batch[i]
  BY <1>1, SubSeqProperties DEF Done
<1> QED BY <1>1, <1>2

LEMMA NextDone ==
    ASSUME IInv, batch \in Batches, pos < Len(batch), batch' = batch, pos' = pos + 1
    PROVE  /\ Block \in Keys /\ Block \notin Resident(Done)
           /\ Done' = Append(Done, Block)
<1>0. /\ Done \in Seq(Keys) /\ Len(Done) = pos
      /\ pos \in Nat /\ Len(batch) \in Nat /\ batch \in Seq(Keys)
      /\ \A i \in 1..pos : Done[i] = batch[i]
  BY DoneType
<1>1. Block \in Keys /\ Block = batch[pos + 1] BY BlockIsKey DEF Block
<1>2. Block \notin Resident(Done)
  <2>1. \A i, j \in 1..Len(batch) : batch[i] = batch[j] => i = j BY DistinctBlocksAssumption
  <2>2. ASSUME NEW i \in 1..pos PROVE Done[i] # Block
    <3>1. i \in 1..Len(batch) /\ pos + 1 \in 1..Len(batch) /\ i # pos + 1 BY <1>0
    <3> QED BY <1>0, <1>1, <2>1, <3>1
  <2>3. DOMAIN Done = 1..pos BY <1>0
  <2> QED BY <2>2, <2>3 DEF Resident
<1>3. Done' = Append(Done, Block)
  <2>1. PICK a \in Seq(Keys) : a = Append(Done, Block) BY <1>0, <1>1, AppendProperties
  <2>2. Len(a) = pos + 1 /\ a[pos + 1] = Block /\ \A i \in 1..pos : a[i] = Done[i]
    BY <1>0, <1>1, <2>1, AppendProperties
  <2>3. Done' = SubSeq(batch, 1, pos + 1) BY DEF Done
  <2>4. PICK b \in Seq(Keys) : b = SubSeq(batch, 1, pos + 1)
    <3>1. 1 \in Int /\ pos + 1 \in Int /\ 1 <= 1 /\ pos + 1 <= Len(batch) BY <1>0
    <3>2. SubSeq(batch, 1, pos + 1) \in Seq(Keys) BY <1>0, <3>1, SubSeqResident
    <3> QED BY <3>2
  <2>5. Len(b) = pos + 1 /\ \A i \in 1..(pos + 1) : b[i] = batch[i]
    BY <1>0, <2>4, SubSeqProperties
  <2>6. \A i \in 1..(pos + 1) : b[i] = a[i] BY <1>0, <1>1, <2>2, <2>5
  <2> QED BY <2>1, <2>2, <2>3, <2>4, <2>5, <2>6, SeqEqual
<1> QED BY <1>1, <1>2, <1>3

\* What a call has processed when one more block is touched.
LEMMA NextTouch ==
    ASSUME IInv, batch \in Batches, pos < Len(batch),
           batch' = batch, pos' = pos + 1, before' = before
    PROVE  Touch(before, Done)' = Append(Keep(Touch(before, Done), Keys \ {Block}), Block)
<1>1. Block \in Keys /\ Block \notin Resident(Done) /\ Done' = Append(Done, Block)
  BY NextDone
<1>2. Done \in Seq(Keys) /\ before \in Seq(Keys) BY DoneType
<1>3. PICK b, k, ds : b = before /\ k = Block /\ ds = Done OBVIOUS
<1>4. Touch(b, Append(ds, k)) = Append(Keep(Touch(b, ds), Keys \ {k}), k)
  BY <1>1, <1>2, <1>3, TouchOneMore
<1>5. Touch(before, Done)' = Touch(b, Append(ds, k)) BY <1>1, <1>3
<1> QED BY <1>3, <1>4, <1>5

LEMMA CallBegin ==
    ASSUME CallInv, NEW ks \in Batches, NEW o \in {"lookup", "store"}, Begin(o, ks), IInv'
    PROVE  CallInv'
<1>1. /\ batch' = ks /\ pos' = 0 /\ before' = recency /\ op' = o
      /\ resident' = resident /\ recency' = recency
  BY DEF Begin
<1>2. recency \in Seq(Keys) /\ Resident(recency) = resident
  BY OrderOfResidents DEF CallInv
<1>3. Touch(recency, <<>>) = recency
  <2>1. Keep(recency, Resident(recency)) = recency BY <1>2, KeepAll
  <2>2. Resident(<<>>) = {} BY DEF Resident
  <2>3. Resident(recency) \ {} = Resident(recency) OBVIOUS
  <2>4. recency \o <<>> = recency BY <1>2, ConcatEmptySeq
  <2> QED BY <2>1, <2>2, <2>3, <2>4 DEF Touch
<1>4. Done' = <<>>
  <2>1. ks \in Seq(Keys) BY BatchesAssumption
  <2>2. SubSeq(ks, 1, 0) = <<>> BY <2>1
  <2> QED BY <1>1, <2>2 DEF Done
<1>5. Touch(before, Done)' = recency' BY <1>1, <1>3, <1>4
<1>6. LookupInv' BY <1>1, <1>2, <1>5 DEF LookupInv
<1>7. StoreInv'
  <2>1. <<>> \in Seq(Keys) OBVIOUS
  <2>2. <<>> \o recency' = recency' BY <1>1, <1>2, ConcatEmptySeq
  <2>3. Dropped(<<>>)' BY <1>5, <2>2 DEF Dropped
  <2> QED BY <2>1, <2>3 DEF StoreInv
<1> QED BY <1>1, <1>6, <1>7 DEF CallInv

LEMMA CallHit ==
    ASSUME CallInv, LookupHit, IInv'
    PROVE  CallInv'
<1>1. /\ op = "lookup" /\ pos < Len(batch) /\ Block \in resident /\ TouchBlock(Block)
      /\ pos' = pos + 1 /\ batch' = batch /\ before' = before /\ op' = op
      /\ resident' = resident
  BY DEF LookupHit
<1>2. IInv /\ batch \in Batches /\ recency = Touch(before, Done)
      /\ Resident(before) = resident /\ \A i \in 1..pos : batch[i] \in resident
  BY <1>1 DEF CallInv, LookupInv
<1>3. recency' = Append(Keep(recency, Keys \ {Block}), Block) BY <1>1, <1>2, TouchMoves
<1>4. Touch(before, Done)' = Append(Keep(Touch(before, Done), Keys \ {Block}), Block)
  BY <1>1, <1>2, NextTouch
<1>5. \A i \in 1..pos' : batch[i] \in resident
  <2>1. pos \in Nat BY <1>2, DoneType
  <2>2. \A i \in 1..(pos + 1) : i = pos + 1 \/ i \in 1..pos BY <2>1
  <2> QED BY <1>1, <1>2, <2>2 DEF Block
<1>6. LookupInv' BY <1>1, <1>2, <1>3, <1>4, <1>5 DEF LookupInv
<1> QED BY <1>1, <1>2, <1>6 DEF CallInv, StoreInv

LEMMA CallExisting ==
    ASSUME CallInv, StoreExisting, IInv'
    PROVE  CallInv'
<1>1. /\ op = "store" /\ pos < Len(batch) /\ Block \in resident /\ TouchBlock(Block)
      /\ pos' = pos + 1 /\ batch' = batch /\ before' = before /\ op' = op
      /\ resident' = resident
  BY DEF StoreExisting
<1>2. IInv /\ batch \in Batches BY <1>1 DEF CallInv
<1>3. PICK d \in Seq(Keys) : Dropped(d) BY <1>1 DEF CallInv, StoreInv
<1>4. PICK k, S : k = Block /\ S = Keys \ {k} OBVIOUS
<1>5. recency \in Seq(Keys) /\ Len(recency) \in Nat /\ k \in Keys
  BY <1>2, <1>1, <1>4, OrderOfResidents, BlockIsKey
<1>6. PICK e \in Seq(Keys) : e = Keep(d, S) BY KeepMembers
<1>7. PICK r \in Seq(Keys) : r = Keep(recency, S) BY <1>5, KeepMembers
<1>8. recency' = Append(r, k) BY <1>1, <1>2, <1>4, <1>7, TouchMoves
<1>9. Len(recency') = Len(recency)
  <2>1. Position(k) \in 1..Len(recency) /\ recency' = Append(Without(Position(k)), k)
    BY <1>1, <1>2, <1>4, PositionKnown DEF TouchBlock, OnAccess
  <2>2. Without(Position(k)) \in Seq(Keys) /\ Len(Without(Position(k))) = Len(recency) - 1
    BY <1>5, <2>1, WithoutPositions
  <2>3. PICK w \in Seq(Keys) : w = Without(Position(k)) BY <2>2
  <2>4. Len(Append(w, k)) = Len(w) + 1 BY <1>5, <2>3, AppendProperties
  <2> QED BY <1>5, <2>1, <2>2, <2>3, <2>4
<1>10. Touch(before, Done)' = e \o recency'
  <2>1. Touch(before, Done)' = Append(Keep(d \o recency, S), k)
    BY <1>1, <1>2, <1>3, <1>4, NextTouch DEF Dropped
  <2>2. Keep(d \o recency, S) = e \o r
    <3>1. Keep(d \o recency, S) = Keep(d, S) \o Keep(recency, S) BY <1>5, KeepConcat
    <3> QED BY <1>6, <1>7, <3>1
  <2>3. e \o Append(r, k) = Append(e \o r, k) BY <1>5, AppendConcat
  <2> QED BY <1>8, <2>1, <2>2, <2>3
<1>11. e = <<>> \/ Len(recency') = Capacity
  BY <1>1, <1>3, <1>6, <1>9, KeepNone DEF Dropped
<1>12. Dropped(e)' BY <1>10, <1>11 DEF Dropped
<1> QED BY <1>1, <1>2, <1>12 DEF CallInv, LookupInv, StoreInv

LEMMA CallInsert ==
    ASSUME CallInv, StoreInsert, IInv'
    PROVE  CallInv'
<1>1. /\ op = "store" /\ pos < Len(batch) /\ Block \notin resident /\ ~Full
      /\ OnInsert(Block)
      /\ pos' = pos + 1 /\ batch' = batch /\ before' = before /\ op' = op
  BY DEF StoreInsert
<1>2. IInv /\ batch \in Batches BY <1>1 DEF CallInv
<1>3. PICK d \in Seq(Keys) : Dropped(d) BY <1>1 DEF CallInv, StoreInv
<1>4. PICK k, S : k = Block /\ S = Keys \ {k} OBVIOUS
<1>5. /\ recency \in Seq(Keys) /\ Len(recency) \in Nat /\ k \in Keys
      /\ Resident(recency) = resident /\ Cardinality(resident) = Len(recency)
      /\ Capacity \in Nat
  BY <1>2, <1>1, <1>4, OrderOfResidents, BlockIsKey, CapacityAssumption
<1>6. PICK e \in Seq(Keys) : e = Keep(d, S) BY KeepMembers
<1>7. Keep(recency, S) = recency
  <2>1. resident \subseteq S BY <1>1, <1>2, <1>4 DEF IInv, TypeOK
  <2> QED BY <1>5, <2>1, KeepAll
<1>8. recency' = Append(recency, k) /\ Len(recency') = Len(recency) + 1
  <2>1. recency' = Append(recency, k)
    BY <1>1, <1>2, <1>4 DEF OnInsert, IInv, PolicyInSync
  <2> QED BY <1>5, <2>1, AppendProperties
<1>9. Touch(before, Done)' = e \o recency'
  <2>1. Touch(before, Done)' = Append(Keep(d \o recency, S), k)
    BY <1>1, <1>2, <1>3, <1>4, NextTouch DEF Dropped
  <2>2. Keep(d \o recency, S) = e \o recency
    <3>1. Keep(d \o recency, S) = Keep(d, S) \o Keep(recency, S) BY <1>5, KeepConcat
    <3> QED BY <1>6, <1>7, <3>1
  <2>3. e \o Append(recency, k) = Append(e \o recency, k) BY <1>5, AppendConcat
  <2> QED BY <1>8, <2>1, <2>2, <2>3
<1>10. e = <<>> \/ Len(recency') = Capacity
  <2>1. CASE d = <<>> BY <1>6, <2>1, KeepNone
  <2>2. CASE Len(recency) = Capacity BY <1>1, <1>5, <2>2 DEF Full
  <2>3. CASE Len(recency) = Capacity - 1 BY <1>5, <1>8, <2>3
  <2> QED BY <1>3, <2>1, <2>2, <2>3 DEF Dropped
<1>11. Dropped(e)' BY <1>9, <1>10 DEF Dropped
<1> QED BY <1>1, <1>2, <1>11 DEF CallInv, LookupInv, StoreInv

LEMMA CallEvict ==
    ASSUME CallInv, EvictOne, IInv'
    PROVE  CallInv'
<1>1. /\ op = "store" /\ pos < Len(batch) /\ Block \notin resident /\ Full
      /\ resident' = resident \ {Victim} /\ OnRemove(Victim)
      /\ pos' = pos /\ batch' = batch /\ before' = before /\ op' = op
  BY DEF EvictOne
<1>2. IInv /\ batch \in Batches BY <1>1 DEF CallInv
<1>3. PICK d \in Seq(Keys) : Dropped(d) BY <1>1 DEF CallInv, StoreInv
<1>4. /\ recency \in Seq(Keys) /\ Len(recency) \in Nat
      /\ Cardinality(resident) = Len(recency) /\ Len(recency) <= Capacity
      /\ Capacity \in Nat
  BY <1>2, OrderOfResidents, CapacityAssumption
<1>5. Len(recency) = Capacity BY <1>1, <1>4 DEF Full
<1>6. PICK n \in Nat : n = Len(recency) BY <1>4
<1>7. PICK v \in Keys : v = Victim /\ v = recency[1]
  BY <1>1, <1>2, VictimResident DEF Full, Victim, IInv, TypeOK
<1>8. 1 \in 1..n /\ Position(v) = 1
  <2>1. 1 \in 1..n /\ v \in resident BY <1>1, <1>2, <1>6, <1>7, VictimResident DEF Full
  <2>2. Position(v) \in 1..n /\ recency[Position(v)] = v BY <1>2, <1>6, <2>1, PositionKnown
  <2> QED BY <1>2, <1>6, <1>7, <2>1, <2>2 DEF IInv, PolicyInSync
<1>9. /\ recency' \in Seq(Keys) /\ Len(recency') = n - 1
      /\ \A j \in 1..(n - 1) : recency'[j] = recency[j + 1]
  <2>1. recency' = Without(1) BY <1>1, <1>7, <1>8 DEF OnRemove
  <2>2. /\ Without(1) \in Seq(Keys) /\ Len(Without(1)) = n - 1
        /\ \A j \in 1..(n - 1) :
               Without(1)[j] = IF j < 1 THEN recency[j] ELSE recency[j + 1]
    BY <1>4, <1>6, <1>8, WithoutPositions
  <2> QED BY <2>1, <2>2
<1>10. PICK r \in Seq(Keys) : r = recency' BY <1>9
<1>11. <<v>> \in Seq(Keys) /\ <<v>> \o r = recency
  <2>1. PICK a \in Seq(Keys) : a = <<v>> /\ Len(a) = 1 /\ a[1] = v
    <3>1. <<v>> \in Seq(Keys) /\ Len(<<v>>) = 1 /\ <<v>>[1] = v OBVIOUS
    <3> QED BY <3>1
  <2>2. /\ a \o r \in Seq(Keys) /\ Len(a \o r) = n
        /\ \A j \in 1..n : (a \o r)[j] = IF j <= 1 THEN a[j] ELSE r[j - 1]
    BY <1>8, <1>9, <1>10, <2>1, ConcatProperties
  <2>3. ASSUME NEW j \in 1..n PROVE (a \o r)[j] = recency[j]
    <3>1. CASE j = 1 BY <1>7, <2>1, <2>2, <3>1
    <3>2. CASE j # 1
      <4>1. j - 1 \in 1..(n - 1) /\ ~(j <= 1) /\ (j - 1) + 1 = j BY <3>2
      <4> QED BY <1>9, <1>10, <2>2, <4>1
    <3> QED BY <3>1, <3>2
  <2>4. a \o r = recency BY <1>4, <1>6, <2>2, <2>3, SeqEqual
  <2> QED BY <2>1, <2>4
<1>12. PICK e \in Seq(Keys) : e = Append(d, v) BY AppendProperties
<1>13. Touch(before, Done)' = e \o recency'
  <2>1. Touch(before, Done)' = Touch(before, Done) BY <1>1 DEF Done
  <2>2. e = d \o <<v>> BY <1>12, AppendIsConcat
  <2>3. (d \o <<v>>) \o r = d \o (<<v>> \o r) BY <1>11, ConcatAssociative
  <2> QED BY <1>3, <1>10, <1>11, <2>1, <2>2, <2>3 DEF Dropped
<1>14. Len(recency') = Capacity - 1 BY <1>5, <1>6, <1>9
<1>15. pos' < Len(batch') /\ Block' \notin resident' BY <1>1 DEF Block
<1>16. Dropped(e)' BY <1>13, <1>14, <1>15 DEF Dropped
<1> QED BY <1>1, <1>2, <1>16 DEF CallInv, LookupInv, StoreInv

LEMMA CallStep ==
    ASSUME CallInv, [Next]_vars
    PROVE  CallInv'
<1>0. IInv' BY NextInv DEF CallInv
<1>1. CASE \E ks \in Batches : Begin("lookup", ks) \/ Begin("store", ks)
  BY <1>0, <1>1, CallBegin
<1>2. CASE LookupHit BY <1>0, <1>2, CallHit
<1>3. CASE StoreExisting BY <1>0, <1>3, CallExisting
<1>4. CASE StoreInsert BY <1>0, <1>4, CallInsert
<1>5. CASE EvictOne BY <1>0, <1>5, CallEvict
<1>6. CASE LookupReturn \/ StoreReturn
  <2>1. op' = "idle" BY <1>6 DEF LookupReturn, StoreReturn, Return
  <2> QED BY <1>0, <2>1 DEF CallInv, LookupInv, StoreInv
<1>7. CASE UNCHANGED vars
  <2>1. /\ op' = op /\ batch' = batch /\ pos' = pos /\ before' = before
        /\ recency' = recency /\ resident' = resident
    BY <1>7 DEF vars
  <2>2. LookupInv' BY <2>1 DEF CallInv, LookupInv, Done
  <2>3. CASE op = "store"
    <3>1. PICK d \in Seq(Keys) : Dropped(d) BY <2>3 DEF CallInv, StoreInv
    <3>2. Dropped(d)' BY <2>1, <3>1 DEF Dropped, Done, Block
    <3> QED BY <1>0, <2>1, <2>2, <3>1, <3>2 DEF CallInv, StoreInv
  <2>4. CASE op # "store" BY <1>0, <2>1, <2>2, <2>4 DEF CallInv, StoreInv
  <2> QED BY <2>3, <2>4
<1> QED BY <1>1, <1>2, <1>3, <1>4, <1>5, <1>6, <1>7 DEF Next, Continue

-----------------------------------------------------------------------------
(* What a call returns.                                                      *)

\* A lookup reports the longest resident prefix and has refreshed it.
LEMMA LookupResult ==
    ASSUME CallInv, LookupReturn
    PROVE  Ideal!Lookup(batch)
<1>1. /\ op = "lookup" /\ (pos < Len(batch) => Block \notin resident)
      /\ answer' = pos /\ op' = "idle" /\ recency' = recency
  BY DEF LookupReturn, Return
<1>2. /\ recency = Touch(before, Done) /\ Resident(before) = resident
      /\ \A i \in 1..pos : batch[i] \in resident
  BY <1>1 DEF CallInv, LookupInv
<1>3. pos \in Nat /\ Len(batch) \in Nat /\ batch \in Seq(Keys) /\ pos <= Len(batch)
  BY DoneType DEF CallInv
<1>4. PICK h \in 0..Len(batch) : h = HitCount(before, batch) BY <1>3, HitCountLongest
<1>5. /\ \A i \in 1..h : batch[i] \in resident
      /\ h < Len(batch) => batch[h + 1] \notin resident
  BY <1>2, <1>3, <1>4, HitCountLongest
<1>6. h = pos
  <2>1. CASE h < pos
    <3>1. h + 1 \in 1..pos /\ h < Len(batch) BY <1>3, <2>1
    <3> QED BY <1>2, <1>5, <3>1
  <2>2. CASE pos < h
    <3>1. pos + 1 \in 1..h /\ pos < Len(batch) BY <1>3, <2>2
    <3> QED BY <1>1, <1>5, <3>1 DEF Block
  <2> QED BY <1>3, <2>1, <2>2
<1>7. AfterLookup(before, batch) = recency BY <1>2, <1>4, <1>6 DEF AfterLookup, Done
<1> QED BY <1>1, <1>4, <1>6, <1>7, SameOperators DEF Ideal!Lookup

\* The end of a sequence that is all of it or has the given length.
LEMMA LastOf ==
    ASSUME NEW K, NEW d \in Seq(K), NEW r \in Seq(K), NEW capacity \in Nat,
           Len(r) <= capacity, d = <<>> \/ Len(r) = capacity
    PROVE  LET all == d \o r
           IN  SubSeq(all, Len(all) - (IF Len(all) < capacity THEN Len(all) ELSE capacity) + 1,
                      Len(all)) = r
<1>1. PICK all \in Seq(K) : all = d \o r BY ConcatProperties
<1>2. PICK m \in Nat, n \in Nat : m = Len(d) /\ n = Len(r) OBVIOUS
<1>3. Len(all) = m + n /\ \A j \in 1..n : all[m + j] = r[j]
  BY <1>1, <1>2, ConcatProperties
<1>4. (IF Len(all) < capacity THEN Len(all) ELSE capacity) = n
  <2>1. CASE d = <<>>
    <3>1. m = 0 BY <1>2, <2>1
    <3> QED BY <1>2, <1>3, <3>1
  <2>2. CASE Len(r) = capacity BY <1>2, <1>3, <2>2
  <2> QED BY <2>1, <2>2
<1>5. (m + n) - n + 1 = m + 1 OBVIOUS
<1>6. SubSeq(all, m + 1, m + n) = r
  <2>1. PICK a \in Int, b \in Int : a = m + 1 /\ b = m + n OBVIOUS
  <2>2. 1 <= a /\ b <= Len(all) BY <1>3, <2>1
  <2>3. PICK t \in Seq(K) : t = SubSeq(all, a, b) BY <2>2, SubSeqResident
  <2>4. Len(t) = n /\ \A j \in 1..n : t[j] = all[m + j]
    <3>1. Len(t) = n BY <1>3, <2>1, <2>2, <2>3, SubSeqProperties
    <3>2. ASSUME NEW j \in 1..n PROVE t[j] = all[m + j]
      <4>1. t[j] = all[a + j - 1] BY <1>3, <2>1, <2>2, <2>3, SubSeqProperties
      <4>2. a + j - 1 = m + j BY <2>1
      <4> QED BY <4>1, <4>2
    <3> QED BY <3>1, <3>2
  <2>5. \A j \in 1..n : t[j] = r[j] BY <1>3, <2>4
  <2> QED BY <1>2, <2>1, <2>3, <2>4, <2>5, SeqEqual
<1> QED BY <1>1, <1>3, <1>4, <1>5, <1>6

\* A store leaves its blocks most recent and the rest cut to the capacity.
LEMMA StoreResult ==
    ASSUME CallInv, StoreReturn
    PROVE  Ideal!Store(batch)
<1>1. op = "store" /\ pos = Len(batch) /\ op' = "idle" /\ recency' = recency
      /\ answer' = answer
  BY DEF StoreReturn, Return
<1>2. PICK d \in Seq(Keys) : Dropped(d) BY <1>1 DEF CallInv, StoreInv
<1>3. pos \in Nat /\ batch \in Seq(Keys) /\ Done \in Seq(Keys) /\ Len(Done) = pos
      /\ \A i \in 1..pos : Done[i] = batch[i]
  BY DoneType DEF CallInv
<1>4. Done = batch BY <1>1, <1>3, SeqEqual
<1>5. recency \in Seq(Keys) /\ Len(recency) <= Capacity BY OrderOfResidents DEF CallInv
<1>6. Touch(before, batch) = d \o recency /\ (d = <<>> \/ Len(recency) = Capacity)
  BY <1>1, <1>2, <1>3, <1>4 DEF Dropped
<1>7. AfterStore(before, batch, Capacity) = recency
  BY <1>5, <1>6, CapacityAssumption, LastOf DEF AfterStore
<1> QED BY <1>1, <1>7, SameOperators DEF Ideal!Store

-----------------------------------------------------------------------------
(* The theorems.                                                             *)

THEOREM Invariance == Spec => []IInv
  BY InitInv, NextInv, PTL DEF Spec

\* The tier never exceeds its capacity.
THEOREM CapacityRespected == Spec => []WithinCapacity
<1>1. IInv => WithinCapacity
  BY DEF IInv
<1> QED
  BY <1>1, Invariance, PTL

\* The policy always tracks exactly the resident blocks, each once.
THEOREM PolicyTracksCache == Spec => []PolicyInSync
<1>1. IInv => PolicyInSync
  BY DEF IInv
<1> QED
  BY <1>1, Invariance, PTL

\* The policy's order is the order of the access stamps.
THEOREM OrderIsRecency == Spec => []LRUOrdered
<1>1. IInv => LRUOrdered
  BY DEF IInv
<1> QED
  BY <1>1, Invariance, PTL

\* Only an eviction removes a block, and it removes the one with the oldest
\* access stamp.
THEOREM VictimIsOldest == Spec => EvictsOldest
<1> DEFINE Oldest ==
             \A k \in resident \ resident' :
                 \A other \in resident' : lastAccess[k] < lastAccess[other]
<1>1. ASSUME IInv, [Next]_vars
      PROVE  Oldest
  <2>1. CASE EvictOne
    <3>0. Cardinality(resident) >= Capacity /\ resident' = resident \ {Victim}
      BY <2>1 DEF EvictOne, Full
    <3>1. 1 \in 1..Len(recency) /\ Victim = recency[1]
      BY <3>0, <1>1, VictimResident DEF Victim
    <3>2. ASSUME NEW other \in resident'
          PROVE  lastAccess[Victim] < lastAccess[other]
      <4>1. PICK j \in 1..Len(recency) : recency[j] = other /\ j # 1
        BY <3>0, <3>1, <1>1 DEF IInv, PolicyInSync
      <4> QED
        BY <4>1, <3>1, <1>1 DEF IInv, LRUOrdered
    <3> QED
      BY <3>0, <3>2
  <2>2. CASE ~EvictOne
    <3>1. resident \subseteq resident'
      BY <2>2, <1>1
      DEF Next, Continue, vars, Begin, LookupHit, LookupReturn, StoreExisting, StoreInsert,
          StoreReturn
    <3> QED
      BY <3>1
  <2> QED
    BY <2>1, <2>2
<1>2. Spec => [][Oldest]_vars
  BY <1>1, Invariance, PTL DEF Spec
<1> QED
  BY <1>2 DEF EvictsOldest

\* Block by block is call by call: every step of the loops is invisible to the
\* specification of a cache with atomic calls but the return, which is its call.
THEOREM LoopsAreAtomicCalls == Spec => ImplementsIdealLRU
<1>1. Init => Ideal!Init BY DEF Init, Ideal!Init
<1>2. Init => CallInv
  BY InitInv DEF Init, CallInv, LookupInv, StoreInv
<1>3. Spec => []CallInv BY <1>2, CallStep, PTL DEF Spec
<1>4. ASSUME CallInv, [Next]_vars
      PROVE  [Ideal!Next]_(Ideal!vars)
  <2>1. CASE \E ks \in Batches : Begin("lookup", ks) \/ Begin("store", ks)
    BY <2>1 DEF Begin, Ideal!vars
  <2>2. CASE LookupHit \/ StoreExisting \/ StoreInsert \/ EvictOne
    BY <2>2 DEF LookupHit, StoreExisting, StoreInsert, EvictOne, Ideal!vars
  <2>3. CASE LookupReturn
    <3>1. batch \in Batches BY <1>4, <2>3 DEF CallInv, LookupReturn
    <3> QED BY <1>4, <2>3, <3>1, LookupResult DEF Ideal!Next
  <2>4. CASE StoreReturn
    <3>1. batch \in Batches BY <1>4, <2>4 DEF CallInv, StoreReturn
    <3> QED BY <1>4, <2>4, <3>1, StoreResult DEF Ideal!Next
  <2>5. CASE UNCHANGED vars BY <2>5 DEF vars, Ideal!vars
  <2> QED BY <1>4, <2>1, <2>2, <2>3, <2>4, <2>5 DEF Next, Continue
<1>5. Spec => [][Ideal!Next]_(Ideal!vars) BY <1>3, <1>4, PTL DEF Spec
<1> QED BY <1>1, <1>5, PTL DEF Spec, ImplementsIdealLRU, Ideal!Spec

=========================================================================
