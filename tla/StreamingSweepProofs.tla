----------------------- MODULE StreamingSweepProofs -----------------------
(***************************************************************************)
(* Proofs about the streaming sweep and what it is built from.  The        *)
(* waiting queue, with its head offset and its compactions, is the plain   *)
(* sequence that BatchReplay uses.  The builder sorts every shard by the   *)
(* key its reader checks, although it compares neighbours of the whole     *)
(* trace, with another key, and leaves records out; the sweep builds as    *)
(* StreamingBuild does and leaves the shards alone afterwards.  The        *)
(* invariant of the replay has a part for the source, for the order of     *)
(* stages, for the live state and for what was reported; from it follows,  *)
(* for every trace and every schedule, that only active requests have      *)
(* state, that every record is accounted for once, and that a run fails    *)
(* only for what is wrong with its trace.                                  *)
(***************************************************************************)
EXTENDS StreamingSweep, PrefixCacheProofs

-----------------------------------------------------------------------------
(* The waiting queue: whatever the compaction threshold, an operation has    *)
(* the effect on Contents that its name says, and keeps the head within the  *)
(* list.                                                                     *)

\* Queues of items of S, as __init__, append and the pops leave them.
Queues(S) == {q \in [items : Seq(S), head : Nat] : q.head <= Len(q.items)}

\* What the list looks like from its head on.
LEMMA ContentsProperties ==
    ASSUME NEW S, NEW q \in Queues(S)
    PROVE  /\ Contents(q) \in Seq(S)
           /\ Len(Contents(q)) = QueueLen(q)
           /\ QueueLen(q) \in Nat
           /\ \A i \in 1..QueueLen(q) : At(q, i) = Contents(q)[i]
<1> DEFINE s == q.items
           m == q.head + 1
           n == Len(q.items)
<1>1. s \in Seq(S) /\ q.head \in Nat /\ m \in Nat /\ n \in Nat /\ m <= n + 1
  BY LenProperties DEF Queues
<1>2. \A i \in m..n : s[i] \in S
  BY <1>1, ElementOfSeq
<1>3. /\ SubSeq(s, m, n) \in Seq(S)
      /\ Len(SubSeq(s, m, n)) = IF m <= n THEN n - m + 1 ELSE 0
      /\ \A i \in 1..(n - m + 1) : SubSeq(s, m, n)[i] = s[m + i - 1]
  <2> HIDE DEF s, m, n
  <2> QED  BY <1>1, <1>2, SubSeqProperties
<1>4. QueueLen(q) = n - m + 1 /\ QueueLen(q) \in Nat
  BY <1>1 DEF QueueLen
<1>5. Len(Contents(q)) = QueueLen(q)
  BY <1>1, <1>3, <1>4 DEF Contents
<1>6. ASSUME NEW i \in 1..QueueLen(q)
      PROVE  At(q, i) = Contents(q)[i]
  <2>1. i \in 1..(n - m + 1) /\ m + i - 1 = q.head + i
    BY <1>1, <1>4, <1>6
  <2> QED  BY <1>3, <2>1 DEF Contents, At
<1> QED  BY <1>3, <1>4, <1>5, <1>6 DEF Contents

\* Dropping the popped items changes nothing that can be seen, at any threshold.
LEMMA CompactionUnseen ==
    ASSUME NEW S, NEW q \in Queues(S)
    PROVE  Compacted(q) \in Queues(S) /\ Contents(Compacted(q)) = Contents(q)
<1>1. CASE Compacted(q) = q
  BY <1>1
<1>2. CASE Compacted(q) = [items |-> Contents(q), head |-> 0]
  <2> DEFINE c == Contents(q)
             d == [items |-> c, head |-> 0]
  <2>1. c \in Seq(S) /\ Len(c) \in Nat
    BY ContentsProperties, LenProperties
  <2> HIDE DEF c
  <2>2. d \in Queues(S)
    BY <2>1 DEF Queues
  <2>3. Contents(d) = c
    BY <2>1, SubSeqFull DEF Contents
  <2> QED  BY <1>2, <2>2, <2>3 DEF c
<1> QED  BY <1>1, <1>2 DEF Compacted

\* append puts an item behind all others.
THEOREM EnqueueAppends ==
    ASSUME NEW S, NEW q \in Queues(S), NEW x \in S
    PROVE  /\ Enqueue(q, x) \in Queues(S)
           /\ Contents(Enqueue(q, x)) = Append(Contents(q), x)
<1> DEFINE r == Enqueue(q, x)
<1>1. q.items \in Seq(S) /\ q.head \in Nat /\ Len(q.items) \in Nat /\ q.head <= Len(q.items)
  BY LenProperties DEF Queues
<1>2. r.items = Append(q.items, x) /\ r.head = q.head /\ r \in [items : Seq(S), head : Nat]
  BY <1>1 DEF Enqueue, Queues
<1>3. /\ Append(q.items, x) \in Seq(S)
      /\ Len(Append(q.items, x)) = Len(q.items) + 1
      /\ \A i \in 1..Len(q.items) : Append(q.items, x)[i] = q.items[i]
      /\ Append(q.items, x)[Len(q.items) + 1] = x
  BY <1>1, AppendProperties
<1>4. r \in Queues(S) /\ QueueLen(r) = QueueLen(q) + 1
  BY <1>1, <1>2, <1>3 DEF Queues, QueueLen
<1>5. /\ Contents(q) \in Seq(S) /\ Len(Contents(q)) = QueueLen(q) /\ QueueLen(q) \in Nat
      /\ \A i \in 1..QueueLen(q) : Contents(q)[i] = q.items[q.head + i]
  BY ContentsProperties DEF At
<1>6. /\ Contents(r) \in Seq(S) /\ Len(Contents(r)) = QueueLen(q) + 1
      /\ \A i \in 1..(QueueLen(q) + 1) : Contents(r)[i] = r.items[r.head + i]
  BY <1>4, ContentsProperties DEF At
<1>7. /\ Append(Contents(q), x) \in Seq(S)
      /\ Len(Append(Contents(q), x)) = QueueLen(q) + 1
      /\ \A i \in 1..QueueLen(q) : Append(Contents(q), x)[i] = Contents(q)[i]
      /\ Append(Contents(q), x)[QueueLen(q) + 1] = x
  BY <1>5, AppendProperties
<1>8. QueueLen(q) = Len(q.items) - q.head
  BY DEF QueueLen
<1>9. \A i \in 1..(QueueLen(q) + 1) : Contents(r)[i] = Append(Contents(q), x)[i]
  <2> HIDE DEF r
  <2> SUFFICES ASSUME NEW i \in 1..(QueueLen(q) + 1)
               PROVE  Contents(r)[i] = Append(Contents(q), x)[i]
    OBVIOUS
  <2>1. CASE i \in 1..QueueLen(q)
    <3>1. q.head + i \in 1..Len(q.items)
      BY <1>1, <1>8, <2>1
    <3> QED  BY <1>2, <1>3, <1>5, <1>6, <1>7, <2>1, <3>1
  <2>2. CASE i = QueueLen(q) + 1
    <3>1. q.head + i = Len(q.items) + 1
      BY <1>1, <1>8, <2>2
    <3> QED  BY <1>2, <1>3, <1>6, <1>7, <2>2, <3>1
  <2> QED  BY <1>5, <2>1, <2>2
<1> HIDE DEF r
<1>10. Contents(r) = Append(Contents(q), x)
  BY <1>6, <1>7, <1>9, SeqEqual
<1> QED  BY <1>4, <1>10 DEF r

\* popleft removes the first item and no other.
THEOREM PopLeftTakesFirst ==
    ASSUME NEW S, NEW q \in Queues(S), QueueLen(q) > 0
    PROVE  /\ PopLeft(q) \in Queues(S)
           /\ Contents(PopLeft(q)) = Tail(Contents(q))
<1> DEFINE r == [q EXCEPT !.head = @ + 1]
<1>1. /\ q \in [items : Seq(S), head : Nat] /\ Len(q.items) \in Nat
      /\ q.head + 1 <= Len(q.items)
  BY LenProperties DEF Queues, QueueLen
<1>2. r.items = q.items /\ r.head = q.head + 1 /\ r \in Queues(S)
  BY <1>1 DEF Queues
<1>3. Contents(q) \in Seq(S) /\ Len(Contents(q)) = QueueLen(q) /\ Contents(q) # <<>>
  BY ContentsProperties, EmptySeq
<1>4. /\ Contents(r) = SubSeq(q.items, q.head + 2, Len(q.items))
      /\ Contents(q) = SubSeq(q.items, q.head + 1, Len(q.items))
  BY <1>1, <1>2 DEF Contents
<1>5. Tail(SubSeq(q.items, q.head + 1, Len(q.items))) = SubSeq(q.items, q.head + 2, Len(q.items))
  <2>1. q.head + 1 \in 1..Len(q.items) /\ Len(q.items) \in (q.head + 1)..Len(q.items)
    BY <1>1
  <2>2. q.items \in Seq(S) /\ q.head + 1 + 1 = q.head + 2
    BY <1>1
  <2> QED  BY <2>1, <2>2, HeadTailOfSubSeq
<1>6. PopLeft(q) = Compacted(r)
  BY DEF PopLeft
<1> HIDE DEF r
<1> QED  BY <1>2, <1>4, <1>5, <1>6, CompactionUnseen

\* A sequence without one item, item by item.
LEMMA RemoveAtProperties ==
    ASSUME NEW S, NEW s \in Seq(S), NEW i \in 1..Len(s)
    PROVE  /\ RemoveAt(s, i) \in Seq(S)
           /\ Len(RemoveAt(s, i)) = Len(s) - 1
           /\ \A j \in 1..(Len(s) - 1) : RemoveAt(s, i)[j] = IF j < i THEN s[j] ELSE s[j + 1]
<1> DEFINE n == Len(s)
           left == SubSeq(s, 1, i - 1)
           right == SubSeq(s, i + 1, n)
<1>0. n \in Nat /\ i \in 1..n /\ \A j \in 1..n : s[j] \in S
  BY LenProperties, ElementOfSeq
<1>1. /\ left \in Seq(S) /\ Len(left) = i - 1
      /\ \A j \in 1..(i - 1) : left[j] = s[j]
  BY <1>0, SubSeqProperties
<1>2. /\ right \in Seq(S) /\ Len(right) = n - i
      /\ \A j \in 1..(n - i) : right[j] = s[i + j]
  BY <1>0, SubSeqProperties
<1>3. RemoveAt(s, i) = left \o right
  BY DEF RemoveAt
<1> HIDE DEF left, right
<1>4. /\ left \o right \in Seq(S)
      /\ Len(left \o right) = Len(left) + Len(right)
      /\ \A j \in 1..(Len(left) + Len(right)) :
             (left \o right)[j] = IF j <= Len(left) THEN left[j] ELSE right[j - Len(left)]
  BY <1>1, <1>2, ConcatProperties
<1>5. ASSUME NEW j \in 1..(n - 1)
      PROVE  (left \o right)[j] = IF j < i THEN s[j] ELSE s[j + 1]
  <2>1. j \in 1..(Len(left) + Len(right))
    BY <1>0, <1>1, <1>2
  <2>2. CASE j < i
    <3>1. j \in 1..(i - 1) /\ j <= Len(left)
      BY <1>0, <1>1, <2>2
    <3> QED  BY <1>1, <1>4, <2>1, <2>2, <3>1
  <2>3. CASE ~(j < i)
    <3>1. j - Len(left) \in 1..(n - i) /\ ~(j <= Len(left)) /\ i + (j - Len(left)) = j + 1
      BY <1>0, <1>1, <2>3
    <3>2. (left \o right)[j] = right[j - Len(left)]
      BY <1>4, <2>1, <3>1
    <3> QED  BY <1>2, <2>3, <3>1, <3>2
  <2> QED  BY <2>2, <2>3
<1>6. Len(left \o right) = n - 1
  BY <1>0, <1>1, <1>2, <1>4
<1> QED  BY <1>3, <1>4, <1>5, <1>6

\* pop(index) removes the item at its logical index, although the list is
\* indexed from a head it does not share.
THEOREM PopAtTakesIndex ==
    ASSUME NEW S, NEW q \in Queues(S), NEW i \in 1..QueueLen(q)
    PROVE  /\ PopAt(q, i) \in Queues(S)
           /\ Contents(PopAt(q, i)) = RemoveAt(Contents(q), i)
<1> DEFINE h == q.head
           n == Len(q.items)
           p == h + i
           r == [q EXCEPT !.items = RemoveAt(@, p)]
<1>1. /\ q \in [items : Seq(S), head : Nat] /\ q.items \in Seq(S)
      /\ h \in Nat /\ n \in Nat /\ h <= n /\ QueueLen(q) = n - h
      /\ i \in Nat /\ 1 <= i /\ i <= n - h
  BY LenProperties DEF Queues, QueueLen
<1>2. /\ Contents(q) \in Seq(S) /\ Len(Contents(q)) = n - h
      /\ \A j \in 1..(n - h) : Contents(q)[j] = q.items[h + j]
  BY <1>1, ContentsProperties DEF At
<1>3. i \in 1..Len(Contents(q))
  BY <1>1, <1>2
<1>4. CASE i = 1
  <2>1. /\ PopLeft(q) \in Queues(S)
        /\ Contents(PopLeft(q)) = Tail(Contents(q))
    BY <1>1, PopLeftTakesFirst
  <2> DEFINE c == Contents(q)
  <2>2. c \in Seq(S) /\ c # <<>> /\ Len(c) \in Nat
    BY <1>2, <1>3, EmptySeq, LenProperties
  <2> HIDE DEF c
  <2>3. RemoveAt(c, 1) = <<>> \o SubSeq(c, 2, Len(c))
    BY SubSeqEmpty DEF RemoveAt
  <2>4. Tail(c) = SubSeq(c, 2, Len(c)) /\ Tail(c) \in Seq(S)
    BY <2>2, TailIsSubSeq, HeadTailProperties
  <2>5. <<>> \o Tail(c) = Tail(c)
    BY <2>4, ConcatEmptySeq
  <2>6. RemoveAt(c, 1) = Tail(c)
    BY <2>3, <2>4, <2>5
  <2> QED  BY <1>4, <2>1, <2>6 DEF PopAt, c
<1>5. CASE i # 1
  <2>1. /\ RemoveAt(q.items, p) \in Seq(S)
        /\ Len(RemoveAt(q.items, p)) = n - 1
        /\ \A j \in 1..(n - 1) :
               RemoveAt(q.items, p)[j] = IF j < p THEN q.items[j] ELSE q.items[j + 1]
    <3>1. p \in 1..Len(q.items)
      BY <1>1
    <3> HIDE DEF p
    <3> QED  BY <1>1, <3>1, RemoveAtProperties
  <2>2. /\ RemoveAt(Contents(q), i) \in Seq(S)
        /\ Len(RemoveAt(Contents(q), i)) = n - h - 1
        /\ \A j \in 1..(n - h - 1) : RemoveAt(Contents(q), i)[j]
                = IF j < i THEN Contents(q)[j] ELSE Contents(q)[j + 1]
    BY <1>2, <1>3, RemoveAtProperties
  <2>3. r.items = RemoveAt(q.items, p) /\ r.head = h /\ r \in Queues(S)
    <3> DEFINE t == RemoveAt(q.items, p)
    <3>1. t \in Seq(S) /\ Len(t) = n - 1 /\ h <= n - 1
      BY <1>1, <1>5, <2>1
    <3> HIDE DEF t
    <3>2. [q EXCEPT !.items = t] \in Queues(S)
      BY <1>1, <3>1 DEF Queues
    <3>3. [q EXCEPT !.items = t].items = t /\ [q EXCEPT !.items = t].head = h
      BY <1>1
    <3> QED  BY <3>2, <3>3 DEF t
  <2> HIDE DEF r, p
  <2>4. /\ Contents(r) \in Seq(S) /\ Len(Contents(r)) = n - 1 - h
        /\ \A j \in 1..(n - 1 - h) : Contents(r)[j] = r.items[h + j]
    BY <1>1, <2>1, <2>3, ContentsProperties DEF At, QueueLen
  <2>5. ASSUME NEW j \in 1..(n - 1 - h)
        PROVE  Contents(r)[j] = RemoveAt(Contents(q), i)[j]
    <3>1. /\ h + j \in 1..(n - 1) /\ (h + j < p <=> j < i)
          /\ j \in 1..(n - h) /\ j + 1 \in 1..(n - h) /\ h + (j + 1) = h + j + 1
          /\ j \in 1..(n - h - 1)
      BY <1>1, <2>5 DEF p
    <3>2. Contents(r)[j] = IF j < i THEN q.items[h + j] ELSE q.items[h + j + 1]
      BY <2>1, <2>3, <2>4, <3>1
    <3> QED  BY <1>2, <2>2, <3>1, <3>2
  <2>6. Contents(r) = RemoveAt(Contents(q), i)
    <3>1. n - 1 - h = n - h - 1
      BY <1>1
    <3> QED  BY <2>2, <2>4, <2>5, <3>1, SeqEqual
  <2>7. PopAt(q, i) = Compacted(r)
    BY <1>5 DEF PopAt, r, p
  <2> QED  BY <2>3, <2>6, <2>7, CompactionUnseen
<1> QED  BY <1>4, <1>5

-----------------------------------------------------------------------------
(* The build: no record of any shard is later than the last record that was  *)
(* compared, and the manifest adds up what was written.                      *)

\* What was written is not after what was read last, rejected or not.
PreviousIsLatest ==
    \A i \in Instances : \A m \in DOMAIN shard[i] :
        previous # <<>> /\ KeyLeq(shard[i][m], previous[1])

\* Every record that was read was accepted or rejected, and rejected in writing.
RecordsCounted ==
    /\ accepted + rejected = line - 1
    /\ Len(rejectedRows) = rejected

IInv ==
    /\ BuildTypeOK
    /\ ShardsSorted
    /\ PreviousIsLatest
    /\ RecordsCounted

-----------------------------------------------------------------------------
(* The two orders.                                                           *)

\* What is compared are numbers.
LEMMA RecordFields ==
    ASSUME NEW a \in Record
    PROVE  a.time \in Nat /\ a.instance \in Nat /\ a.id \in Nat
BY InstancesAssumption DEF Record

LEMMA KeyTransitive ==
    ASSUME NEW a \in Record, NEW b \in Record, NEW c \in Record,
           KeyLeq(a, b), KeyLeq(b, c)
    PROVE  KeyLeq(a, c)
<1>1. a.time \in Nat /\ a.instance \in Nat /\ a.id \in Nat
  BY RecordFields
<1>2. b.time \in Nat /\ b.instance \in Nat /\ b.id \in Nat
  BY RecordFields
<1>3. c.time \in Nat /\ c.instance \in Nat /\ c.id \in Nat
  BY RecordFields
<1> QED  BY <1>1, <1>2, <1>3 DEF KeyLeq

LEMMA KeyReflexive ==
    ASSUME NEW a \in Record
    PROVE  KeyLeq(a, a)
BY RecordFields DEF KeyLeq

\* Within an instance the order of the trace is that of the source.
LEMMA KeyWithinInstance ==
    ASSUME NEW a \in Record, NEW b \in Record, a.instance = b.instance, KeyLeq(a, b)
    PROVE  SourceKeyLeq(a, b) /\ a.time <= b.time
<1>1. a.time \in Nat /\ a.instance \in Nat /\ a.id \in Nat
  BY RecordFields
<1>2. b.time \in Nat /\ b.instance \in Nat /\ b.id \in Nat
  BY RecordFields
<1> QED  BY <1>1, <1>2 DEF KeyLeq, SourceKeyLeq

LEMMA SourceReflexive ==
    ASSUME NEW a \in Record
    PROVE  SourceKeyLeq(a, a)
BY DEF Record, SourceKeyLeq

-----------------------------------------------------------------------------

LEMMA InitEstablishes ==
    ASSUME BuildInit
    PROVE  IInv
<1>1. trace \in Seq(Record) /\ Len(trace) \in Nat
  BY TracesAssumption, LenProperties DEF BuildInit
<1>2. \A i \in Instances : shard[i] = <<>> /\ shardState[i] = NoState
  BY DEF BuildInit
<1>3. BuildTypeOK
  BY <1>1, EmptySeq DEF BuildInit, BuildTypeOK, NoState
<1>4. ShardsSorted
  BY <1>2 DEF ShardsSorted, NoState
<1>5. PreviousIsLatest
  BY <1>2 DEF PreviousIsLatest
<1>6. RecordsCounted
  BY DEF BuildInit, RecordsCounted
<1> QED  BY <1>3, <1>4, <1>5, <1>6 DEF IInv

\* The record being read, as long as there is one.
LEMMA RecordRead ==
    ASSUME BuildTypeOK, Reading
    PROVE  /\ trace \in Seq(Record)
           /\ line \in 1..Len(trace)
           /\ trace[line] \in Record
           /\ line + 1 \in 1..(Len(trace) + 1)
           /\ <<trace[line]>> \in Seq(Record)
           /\ Len(<<trace[line]>>) = 1
           /\ <<trace[line]>>[1] = trace[line]
           /\ <<trace[line]>> # <<>>
<1>1. trace \in Seq(Record) /\ Len(trace) \in Nat
  BY TracesAssumption, LenProperties DEF BuildTypeOK
<1>2. line \in 1..Len(trace) /\ line + 1 \in 1..(Len(trace) + 1)
  BY <1>1 DEF BuildTypeOK, Reading
<1>3. trace[line] \in Record
  BY <1>1, <1>2, ElementOfSeq
<1> HIDE DEF Record
<1> QED  BY <1>1, <1>2, <1>3

\* Reading on past a record that was counted.
LEMMA CountedOnce ==
    ASSUME IInv, line' = line + 1,
           \/ accepted' = accepted + 1 /\ UNCHANGED <<rejected, rejectedRows>>
           \/ /\ rejected' = rejected + 1 /\ UNCHANGED accepted
              /\ Len(rejectedRows') = Len(rejectedRows) + 1
    PROVE  RecordsCounted'
<1>1. line \in Nat /\ accepted \in Nat /\ rejected \in Nat
  <2>1. Len(trace) \in Nat
    BY TracesAssumption, LenProperties DEF IInv, BuildTypeOK
  <2>2. line \in 1..(Len(trace) + 1) /\ accepted \in Nat /\ rejected \in Nat
    BY Zenon DEF IInv, BuildTypeOK
  <2> QED  BY <2>1, <2>2
<1>2. accepted + rejected = line - 1 /\ Len(rejectedRows) = rejected
  BY DEF IInv, RecordsCounted
<1> QED  BY <1>1, <1>2 DEF RecordsCounted

\* A record in order is not before any record of a shard.
LEMMA InOrderAfterShards ==
    ASSUME IInv, Reading, InOrder
    PROVE  \A i \in Instances : \A m \in DOMAIN shard[i] : KeyLeq(shard[i][m], trace[line])
<1> SUFFICES ASSUME NEW i \in Instances, NEW m \in DOMAIN shard[i]
             PROVE  KeyLeq(shard[i][m], trace[line])
  OBVIOUS
<1>1. previous \in Seq(Record) /\ previous # <<>> /\ KeyLeq(shard[i][m], previous[1])
  BY DEF IInv, BuildTypeOK, PreviousIsLatest
<1>2. 1 \in DOMAIN previous /\ previous[1] \in Record
  BY <1>1, EmptySeq, LenProperties, ElementOfSeq
<1>3. KeyLeq(previous[1], trace[line])
  BY <1>2 DEF InOrder
<1>4. shard[i] \in Seq(Record) /\ shard[i][m] \in Record
  BY LenProperties, ElementOfSeq DEF IInv, BuildTypeOK
<1> QED  BY <1>1, <1>2, <1>3, <1>4, RecordRead, KeyTransitive DEF IInv

\* A step that writes no shard and reads on at most past a record in order.
LEMMA ShardsUntouched ==
    ASSUME IInv, UNCHANGED <<shard, shardState>>,
           \/ UNCHANGED previous
           \/ Reading /\ InOrder /\ previous' = <<trace[line]>>
    PROVE  ShardsSorted' /\ PreviousIsLatest'
<1>1. ShardsSorted'
  BY DEF IInv, ShardsSorted
<1>2. CASE UNCHANGED previous
  BY <1>1, <1>2 DEF IInv, PreviousIsLatest
<1>3. CASE Reading /\ InOrder /\ previous' = <<trace[line]>>
  <2>1. previous' # <<>> /\ previous'[1] = trace[line]
    BY <1>3, RecordRead DEF IInv
  <2>2. \A i \in Instances : \A m \in DOMAIN shard[i] : KeyLeq(shard[i][m], trace[line])
    BY <1>3, InOrderAfterShards
  <2> QED  BY <1>1, <2>1, <2>2 DEF PreviousIsLatest
<1> QED  BY <1>2, <1>3

\* An accepted record goes behind the others of its shard.
LEMMA AcceptSorted ==
    ASSUME IInv, Accept
    PROVE  BuildTypeOK' /\ ShardsSorted' /\ PreviousIsLatest'
<1> DEFINE r == trace[line]
           k == r.instance
           old == shard[k]
           new == Append(old, r)
           n == Len(old)
<1>1. Reading /\ InOrder /\ BuildTypeOK /\ ShardsSorted
  BY DEF Accept, IInv
<1>2. r \in Record /\ k \in Instances /\ r.time \in Nat
  BY <1>1, RecordRead DEF Record
<1>3. /\ previous' = <<r>>
      /\ shard' = [shard EXCEPT ![k] = new]
      /\ shardState' = [shardState EXCEPT ![k] = Recorded(@, r)]
  BY DEF Accept
<1>4. shard \in [Instances -> Seq(Record)] /\ old \in Seq(Record) /\ n \in Nat
      /\ DOMAIN old = 1..n
  BY <1>1, <1>2, LenProperties DEF BuildTypeOK
<1>5. /\ new \in Seq(Record) /\ Len(new) = n + 1 /\ DOMAIN new = 1..(n + 1)
      /\ \A m \in 1..n : new[m] = old[m]
      /\ new[n + 1] = r /\ new # <<>>
  BY <1>2, <1>4, AppendProperties, LenProperties
<1>6. /\ shard'[k] = new
      /\ \A i \in Instances : i # k => shard'[i] = shard[i] /\ shardState'[i] = shardState[i]
      /\ shardState'[k] = Recorded(shardState[k], r)
  BY <1>1, <1>2, <1>3 DEF BuildTypeOK
<1>7. \A i \in Instances : \A m \in DOMAIN shard[i] : KeyLeq(shard[i][m], r)
  BY <1>1, InOrderAfterShards
<1>8. shardState[k] \in [count : Nat, min : Nat, max : Nat]
  BY <1>1, <1>2 DEF BuildTypeOK
<1>9. BuildTypeOK'
  <2>1. shard' \in [Instances -> Seq(Record)]
    <3> HIDE DEF new, k
    <3> QED  BY <1>2, <1>3, <1>4, <1>5
  <2>2. shardState' \in [Instances -> [count : Nat, min : Nat, max : Nat]]
    <3>1. Recorded(shardState[k], r) \in [count : Nat, min : Nat, max : Nat]
      BY <1>2, <1>8 DEF Recorded
    <3> HIDE DEF k, r
    <3> QED  BY <1>1, <1>2, <1>3, <3>1 DEF BuildTypeOK
  <2>3. previous' \in Seq(Record) /\ Len(previous') <= 1
    BY <1>1, <1>3, RecordRead
  <2>4. /\ line' = line + 1 /\ accepted' = accepted + 1
        /\ UNCHANGED <<trace, rejected, rejectedRows, build>>
    BY DEF Accept
  <2>5. line + 1 \in 1..(Len(trace) + 1) /\ accepted \in Nat
    BY <1>1, RecordRead DEF BuildTypeOK
  <2>6. line' \in 1..(Len(trace') + 1) /\ accepted' \in Nat
    BY <2>4, <2>5
  <2> HIDE DEF r, k, old, new, n
  <2>7. trace' \in Traces /\ rejected' \in Nat /\ rejectedRows' \in Seq(Nat)
        /\ build' \in {"reading", "built", "unsorted_trace", "bad_request", "invalid_manifest"}
    BY <1>1, <2>4 DEF BuildTypeOK
  <2> QED  BY <2>1, <2>2, <2>3, <2>6, <2>7 DEF BuildTypeOK
<1>10. PreviousIsLatest'
  <2> SUFFICES ASSUME NEW i \in Instances, NEW m \in DOMAIN shard'[i]
               PROVE  previous' # <<>> /\ KeyLeq(shard'[i][m], previous'[1])
    BY DEF PreviousIsLatest
  <2>1. previous' # <<>> /\ previous'[1] = r
    BY <1>1, <1>3, RecordRead
  <2>2. KeyLeq(shard'[i][m], r)
    <3>1. CASE i # k
      BY <1>6, <1>7, <3>1
    <3>2. CASE i = k /\ m \in 1..n
      BY <1>2, <1>4, <1>5, <1>6, <1>7, <3>2
    <3>3. CASE i = k /\ m = n + 1
      BY <1>2, <1>5, <1>6, <3>3, KeyReflexive
    <3> QED  BY <1>4, <1>5, <1>6, <3>1, <3>2, <3>3
  <2> QED  BY <2>1, <2>2
<1>11. /\ \A m, q \in 1..n : m <= q => SourceKeyLeq(old[m], old[q])
       /\ \A m \in 1..n : old[m].instance = k
       /\ shardState[k].count = n
       /\ old # <<>> => shardState[k].min = old[1].time /\ shardState[k].max = old[n].time
  BY <1>1, <1>2, <1>4 DEF ShardsSorted
<1>12. ASSUME NEW m \in 1..n
       PROVE  SourceKeyLeq(old[m], r) /\ old[m].time <= r.time /\ old[m].time \in Nat
  <2>1. old[m] \in Record
    BY <1>4, ElementOfSeq
  <2>2. KeyLeq(old[m], r) /\ old[m].instance = r.instance
    BY <1>2, <1>4, <1>7, <1>11, <1>12
  <2> QED  BY <1>2, <2>1, <2>2, KeyWithinInstance, RecordFields
<1>13. ASSUME NEW m \in 1..(n + 1), NEW q \in 1..(n + 1), m <= q
       PROVE  SourceKeyLeq(new[m], new[q])
  <2>1. CASE q \in 1..n
    <3>1. m \in 1..n
      BY <1>4, <1>13, <2>1
    <3> QED  BY <1>5, <1>11, <1>13, <2>1, <3>1
  <2>2. CASE q = n + 1 /\ m \in 1..n
    BY <1>5, <1>12, <2>2
  <2>3. CASE q = n + 1 /\ m = n + 1
    BY <1>2, <1>5, <2>3, SourceReflexive
  <2>4. (q \in 1..n \/ q = n + 1) /\ (m \in 1..n \/ m = n + 1)
    BY <1>4
  <2> QED  BY <2>1, <2>2, <2>3, <2>4
<1>14. \A m \in 1..(n + 1) : new[m].instance = k
  BY <1>4, <1>5, <1>11
<1>15. /\ shardState'[k].count = n + 1
       /\ shardState'[k].min = new[1].time
       /\ shardState'[k].max = new[n + 1].time
  <2>1. CASE n = 0
    BY <1>2, <1>5, <1>6, <1>8, <1>11, <2>1 DEF Recorded
  <2>2. CASE n # 0
    <3>1. 1 \in 1..n /\ n \in 1..n /\ old # <<>>
      BY <1>4, <2>2, EmptySeq
    <3>2. old[1].time <= r.time /\ old[n].time <= r.time /\ old[1].time \in Nat /\ old[n].time \in Nat
      BY <1>12, <3>1
    <3>3. shardState[k].min = old[1].time /\ shardState[k].max = old[n].time /\ shardState[k].count = n
      BY <1>11, <3>1
    <3>4. new[1] = old[1] /\ new[n + 1] = r
      BY <1>5, <3>1
    <3>5. Recorded(shardState[k], r).min = old[1].time
      BY <1>2, <3>2, <3>3, <2>2 DEF Recorded
    <3>6. Recorded(shardState[k], r).max = r.time
      BY <1>2, <3>2, <3>3, <2>2 DEF Recorded
    <3>7. Recorded(shardState[k], r).count = n + 1
      BY <3>3 DEF Recorded
    <3> QED  BY <1>6, <3>4, <3>5, <3>6, <3>7
  <2> QED  BY <2>1, <2>2
<1>16. ShardsSorted'
  <2> SUFFICES ASSUME NEW i \in Instances
               PROVE  /\ \A m, q \in DOMAIN shard'[i] : m <= q => SourceKeyLeq(shard'[i][m], shard'[i][q])
                      /\ \A m \in DOMAIN shard'[i] : shard'[i][m].instance = i
                      /\ shardState'[i].count = Len(shard'[i])
                      /\ shard'[i] # <<>> =>
                           /\ shardState'[i].min = shard'[i][1].time
                           /\ shardState'[i].max = shard'[i][Len(shard'[i])].time
    BY DEF ShardsSorted
  <2>1. CASE i # k
    BY <1>1, <1>6, <2>1 DEF ShardsSorted
  <2>2. CASE i = k
    <3> HIDE DEF k, r, n, old, new
    <3> QED  BY <1>5, <1>6, <1>13, <1>14, <1>15, <2>2
  <2> QED  BY <2>1, <2>2
<1> QED  BY <1>9, <1>10, <1>16

LEMMA StepPreserves ==
    ASSUME IInv, [BuildNext]_buildVars
    PROVE  IInv'
<1>1. CASE RefuseUnsorted
  <2>1. BuildTypeOK' /\ RecordsCounted'
    BY <1>1 DEF IInv, RefuseUnsorted, BuildTypeOK, RecordsCounted
  <2> QED  BY <1>1, <2>1, ShardsUntouched DEF IInv, RefuseUnsorted
<1>2. CASE Accept
  <2>1. RecordsCounted'
    BY <1>2, CountedOnce DEF Accept
  <2> QED  BY <1>2, <2>1, AcceptSorted DEF IInv
<1>3. CASE Reject
  <2> DEFINE r == trace[line]
  <2>1. Reading /\ InOrder /\ previous' = <<r>> /\ rejectedRows' = Append(rejectedRows, r.id)
    BY <1>3 DEF Reject
  <2>2. /\ r.id \in Nat /\ line + 1 \in 1..(Len(trace) + 1)
        /\ previous' \in Seq(Record) /\ Len(previous') <= 1
    BY <2>1, RecordRead, RecordFields DEF IInv
  <2>3. /\ rejectedRows' \in Seq(Nat) /\ Len(rejectedRows') = Len(rejectedRows) + 1
    BY <2>1, <2>2, AppendProperties DEF IInv, BuildTypeOK
  <2> HIDE DEF r
  <2>0. /\ rejected' = rejected + 1 /\ line' = line + 1
        /\ UNCHANGED <<trace, shard, shardState, accepted, build>>
    BY <1>3 DEF Reject
  <2>4. BuildTypeOK'
    <3>1. line' \in 1..(Len(trace') + 1)
      BY <2>0, <2>2
    <3>2. rejected \in Nat
      BY Zenon DEF IInv, BuildTypeOK
    <3>3. rejected' \in Nat
      BY <2>0, <3>2
    <3> QED  BY <2>0, <2>2, <2>3, <3>1, <3>3 DEF IInv, BuildTypeOK
  <2>5. RecordsCounted'
    BY <2>0, <2>3, CountedOnce
  <2>6. ShardsSorted' /\ PreviousIsLatest'
    BY <1>3, <2>1, ShardsUntouched DEF Reject
  <2> QED  BY <2>4, <2>5, <2>6 DEF IInv
<1>4. CASE FailToBuild
  <2>1. Reading /\ InOrder /\ previous' = <<trace[line]>>
    BY <1>4 DEF FailToBuild
  <2>2. previous' \in Seq(Record) /\ Len(previous') <= 1
    BY <2>1, RecordRead DEF IInv
  <2>3. BuildTypeOK' /\ RecordsCounted'
    BY <1>4, <2>2 DEF IInv, FailToBuild, BuildTypeOK, RecordsCounted
  <2>4. ShardsSorted' /\ PreviousIsLatest'
    BY <1>4, <2>1, ShardsUntouched DEF FailToBuild
  <2> QED  BY <2>3, <2>4 DEF IInv
<1>5. CASE WriteManifest
  <2>1. BuildTypeOK' /\ RecordsCounted'
    BY <1>5 DEF IInv, WriteManifest, BuildTypeOK, RecordsCounted
  <2> QED  BY <1>5, <2>1, ShardsUntouched DEF IInv, WriteManifest
<1>6. CASE UNCHANGED buildVars
  <2>1. BuildTypeOK' /\ RecordsCounted'
    BY <1>6 DEF IInv, buildVars, BuildTypeOK, RecordsCounted
  <2> QED  BY <1>6, <2>1, ShardsUntouched DEF IInv, buildVars
<1> QED  BY <1>1, <1>2, <1>3, <1>4, <1>5, <1>6 DEF BuildNext

-----------------------------------------------------------------------------
(* Why a build fails.                                                        *)

\* What was compared last is the line before; the manifest will agree with the
\* shards; and a build that has failed has failed for what is in the trace.
CauseInv ==
    /\ build = "reading" => previous = IF line = 1 THEN <<>> ELSE <<trace[line - 1]>>
    /\ IsFiniteSet(Counted) /\ accepted = Cardinality(Counted)
    /\ \A i \in Instances : shard[i] = <<>> => shardState[i] = NoState
    /\ build # "invalid_manifest"
    /\ build = "unsorted_trace" => \E n \in 2..Len(trace) : ~KeyLeq(trace[n - 1], trace[n])
    /\ build = "bad_request" => trace[line].outcome = "bad"

LEMMA CauseInit ==
    ASSUME BuildInit
    PROVE  CauseInv
<1>1. Counted = {}
  <2>1. \A i \in Instances : 1..shardState[i].count = {} BY DEF BuildInit, NoState
  <2> QED BY <2>1 DEF Counted
<1> QED BY <1>1, FS_EmptySet DEF BuildInit, CauseInv

\* An accepted request is one more, whichever shard it goes to.
LEMMA CountedAccept ==
    ASSUME IInv, CauseInv, Accept
    PROVE  IsFiniteSet(Counted') /\ accepted' = Cardinality(Counted')
<1> DEFINE k == trace[line].instance
           c == shardState[k].count
<1>1. k \in Instances /\ shardState \in [Instances -> [count : Nat, min : Nat, max : Nat]]
  BY RecordRead DEF Accept, IInv, BuildTypeOK, Record
<1>2. c \in Nat BY <1>1
<1>3. \A i \in Instances : shardState'[i].count = IF i = k THEN c + 1 ELSE shardState[i].count
  BY <1>1 DEF Accept, Recorded
<1> HIDE DEF k, c
<1>4. <<k, c + 1>> \notin Counted
  <2> SUFFICES ASSUME NEW i \in Instances, <<k, c + 1>> \in {i} \X (1..shardState[i].count)
               PROVE  FALSE
    BY DEF Counted
  <2>1. i = k /\ c + 1 <= shardState[k].count BY <1>1, <1>2
  <2> QED BY <1>2, <2>1 DEF c
<1>5. Counted' = Counted \cup {<<k, c + 1>>}
  <2>1. ASSUME NEW p \in Counted' PROVE p \in Counted \cup {<<k, c + 1>>}
    <3>1. PICK i \in Instances : p \in {i} \X (1..shardState'[i].count) BY DEF Counted
    <3>2. CASE i # k BY <1>3, <3>1, <3>2 DEF Counted
    <3>3. CASE i = k
      <4>1. PICK n \in 1..(c + 1) : p = <<k, n>> BY <1>1, <1>3, <3>1, <3>3
      <4>2. CASE n = c + 1 BY <4>1, <4>2
      <4>3. CASE n # c + 1
        <5>1. n \in 1..shardState[k].count BY <1>2, <4>3 DEF c
        <5>2. p \in {k} \X (1..shardState[k].count) BY <4>1, <5>1
        <5> QED BY <1>1, <5>2 DEF Counted
      <4> QED BY <4>2, <4>3
    <3> QED BY <3>2, <3>3
  <2>2. ASSUME NEW p \in Counted PROVE p \in Counted'
    <3>1. PICK i \in Instances : p \in {i} \X (1..shardState[i].count) BY DEF Counted
    <3>2. shardState[i].count \in Nat BY <1>1
    <3>3. 1..shardState[i].count \subseteq 1..shardState'[i].count
      BY <1>2, <1>3, <3>2 DEF c
    <3>4. p \in {i} \X (1..shardState'[i].count) BY <3>1, <3>3
    <3> QED BY <3>4 DEF Counted
  <2>3. <<k, c + 1>> \in Counted'
    <3>1. c + 1 \in 1..shardState'[k].count BY <1>1, <1>2, <1>3
    <3>2. <<k, c + 1>> \in {k} \X (1..shardState'[k].count) BY <3>1
    <3> QED BY <1>1, <3>2 DEF Counted
  <2> QED BY <2>1, <2>2, <2>3
<1>6. IsFiniteSet(Counted) /\ accepted = Cardinality(Counted) /\ accepted' = accepted + 1
  BY DEF CauseInv, Accept
<1> QED BY <1>4, <1>5, <1>6, FS_AddElement

\* The times of a shard are in order, so the manifest is valid.
LEMMA ManifestHolds ==
    ASSUME IInv, CauseInv
    PROVE  ManifestIsValid
<1>0. accepted = Cardinality(Counted) BY DEF CauseInv
<1>1. ASSUME NEW i \in Instances PROVE shardState[i].min <= shardState[i].max
  <2>1. shard[i] \in Seq(Record) /\ Len(shard[i]) \in Nat
    BY LenProperties DEF IInv, BuildTypeOK
  <2>2. CASE shard[i] = <<>>
    <3>1. shardState[i] = NoState BY <2>2 DEF CauseInv
    <3> QED BY <3>1 DEF NoState
  <2>3. CASE shard[i] # <<>>
    <3>1. 1 \in DOMAIN shard[i] /\ Len(shard[i]) \in DOMAIN shard[i] /\ 1 <= Len(shard[i])
      BY <2>1, <2>3, EmptySeq, LenProperties
    <3>2. SourceKeyLeq(shard[i][1], shard[i][Len(shard[i])])
      BY <3>1 DEF IInv, ShardsSorted
    <3>3. shard[i][1] \in Record /\ shard[i][Len(shard[i])] \in Record
      BY <2>1, <3>1, ElementOfSeq
    <3>4. shard[i][1].time <= shard[i][Len(shard[i])].time
      BY <3>2, <3>3, RecordFields DEF SourceKeyLeq
    <3> QED BY <2>3, <3>4 DEF IInv, ShardsSorted
  <2> QED BY <2>2, <2>3
<1> QED BY <1>0, <1>1 DEF ManifestIsValid

LEMMA CauseStep ==
    ASSUME IInv, CauseInv, [BuildNext]_buildVars
    PROVE  CauseInv'
<1> DEFINE Unsorted == \E n \in 2..Len(trace) : ~KeyLeq(trace[n - 1], trace[n])
<1>1. trace \in Seq(Record) /\ Len(trace) \in Nat /\ line \in 1..(Len(trace) + 1)
  BY TracesAssumption, LenProperties DEF IInv, BuildTypeOK
<1>2. CASE RefuseUnsorted
  <2>1. /\ Reading /\ ~InOrder /\ build' = "unsorted_trace"
        /\ UNCHANGED <<trace, line, previous, shard, shardState, accepted>>
    BY <1>2 DEF RefuseUnsorted
  <2>2. line \in 1..Len(trace) BY <2>1, RecordRead DEF IInv
  <2>3. PICK k \in DOMAIN previous : ~KeyLeq(previous[k], trace[line]) BY <2>1 DEF InOrder
  <2>4. previous = IF line = 1 THEN <<>> ELSE <<trace[line - 1]>>
    BY <2>1 DEF CauseInv, Reading
  <2>5. line # 1 /\ k = 1 /\ previous[1] = trace[line - 1]
    BY <2>3, <2>4
  <2>6. Unsorted
    <3>1. line \in 2..Len(trace) BY <1>1, <2>2, <2>5
    <3> QED BY <2>3, <2>5, <3>1
  <2>7. UNCHANGED Counted BY <2>1 DEF Counted
  <2> QED BY <2>1, <2>6, <2>7 DEF CauseInv
<1>3. CASE Accept
  <2>1. /\ Reading /\ line' = line + 1 /\ previous' = <<trace[line]>> /\ UNCHANGED <<trace, build>>
    BY <1>3 DEF Accept
  <2>2. line \in 1..Len(trace) /\ line' # 1 /\ line' - 1 = line /\ build = "reading"
    BY <2>1, RecordRead DEF IInv, Reading
  <2>3. \A i \in Instances : shard'[i] = <<>> => shardState'[i] = NoState
    <3> DEFINE r == trace[line]
               k == r.instance
    <3>1. k \in Instances /\ r \in Record /\ shard \in [Instances -> Seq(Record)]
          /\ shardState \in [Instances -> [count : Nat, min : Nat, max : Nat]]
      BY <2>1, RecordRead DEF IInv, BuildTypeOK, Record
    <3>2. \A i \in Instances : i # k => shard'[i] = shard[i] /\ shardState'[i] = shardState[i]
      BY <1>3, <3>1 DEF Accept
    <3>3. shard'[k] = Append(shard[k], r) BY <1>3, <3>1 DEF Accept
    <3>4. shard[k] \in Seq(Record) BY <3>1
    <3> HIDE DEF r, k
    <3>5. Append(shard[k], r) # <<>>
      <4>1. /\ Append(shard[k], r) \in Seq(Record) /\ Len(shard[k]) \in Nat
            /\ Len(Append(shard[k], r)) = Len(shard[k]) + 1
        BY <3>1, <3>4, AppendProperties, LenProperties
      <4> QED BY <4>1, EmptySeq
    <3> QED BY <3>2, <3>3, <3>5 DEF CauseInv
  <2> QED BY <1>3, <2>1, <2>2, <2>3, CountedAccept DEF CauseInv
<1>4. CASE Reject
  <2>1. /\ Reading /\ line' = line + 1 /\ previous' = <<trace[line]>>
        /\ UNCHANGED <<trace, build, shard, shardState, accepted>>
    BY <1>4 DEF Reject
  <2>2. line \in 1..Len(trace) /\ line' # 1 /\ line' - 1 = line /\ build = "reading"
    BY <2>1, RecordRead DEF IInv, Reading
  <2>3. UNCHANGED Counted BY <2>1 DEF Counted
  <2> QED BY <2>1, <2>2, <2>3 DEF CauseInv
<1>5. CASE FailToBuild
  <2>1. UNCHANGED Counted BY <1>5 DEF FailToBuild, Counted
  <2> QED BY <1>5, <2>1 DEF FailToBuild, CauseInv
<1>6. CASE WriteManifest
  <2>1. UNCHANGED Counted BY <1>6 DEF WriteManifest, Counted
  <2> QED BY <1>6, <2>1, ManifestHolds DEF WriteManifest, CauseInv
<1>7. CASE UNCHANGED buildVars
  <2>1. UNCHANGED Counted BY <1>7 DEF buildVars, Counted
  <2> QED BY <1>7, <2>1 DEF buildVars, CauseInv
<1> QED BY <1>2, <1>3, <1>4, <1>5, <1>6, <1>7 DEF BuildNext

-----------------------------------------------------------------------------

THEOREM BuildInvariant == BuildSpec => []IInv
BY InitEstablishes, StepPreserves, PTL DEF BuildSpec

\* The variables of the build keep their types, for every trace.
THEOREM BuildTypeCorrect == BuildSpec => []BuildTypeOK
<1>1. IInv => BuildTypeOK
  BY DEF IInv
<1> QED  BY <1>1, BuildInvariant, PTL

\* Every shard is sorted as its reader demands and described by its state.
THEOREM ShardsStaySorted == BuildSpec => []ShardsSorted
<1>1. IInv => ShardsSorted
  BY DEF IInv
<1> QED  BY <1>1, BuildInvariant, PTL

\* A build fails only for what is wrong with its trace; its manifest, which adds
\* up the shards, never does.
THEOREM BuildFailsForCause == BuildSpec => [](IInv /\ CauseInv)
<1>1. BuildInit => IInv /\ CauseInv
  BY InitEstablishes, CauseInit
<1>2. IInv /\ CauseInv /\ [BuildNext]_buildVars => (IInv /\ CauseInv)'
  BY StepPreserves, CauseStep
<1> QED  BY <1>1, <1>2, PTL DEF BuildSpec

-----------------------------------------------------------------------------
(* The sweep.                                                                *)

\* Stages of a replay that has not raised.
LiveStages == {"arrive", "frontier", "report", "schedule", "returned"}

\* Nothing is replayed before the shards are built.
BuildFirst ==
    /\ build # "built" => sweep = "build"
    /\ sweep = "build" => stage = "idle"

\* The source is the shard of an instance, and remembers what it gave last.
ReadsOwnShard ==
    stage \in LiveStages =>
        /\ current \in Instances
        /\ source = shard[current]
        /\ popped \in 0..Len(source)
        /\ lastKey = IF popped = 0 THEN <<>> ELSE <<source[popped]>>

\* No request is refused by the source or the engine for its order or instance.
SourceNeverRefuses == stage \notin {"unsorted_source", "wrong_instance"}

SweepInv ==
    /\ todo \subseteq Instances
    /\ BuildFirst
    /\ ReadsOwnShard
    /\ SourceNeverRefuses

-----------------------------------------------------------------------------
(* The build within the sweep.                                               *)

LEMMA BuildStepReads ==
    ASSUME BuildNext
    PROVE  build = "reading"
BY DEF BuildNext, RefuseUnsorted, Accept, Reject, FailToBuild, WriteManifest, Reading

LEMMA StepBuilds ==
    ASSUME [Next]_vars
    PROVE  \/ BuildNext /\ UNCHANGED <<replayVars, sweepVars>>
           \/ UNCHANGED buildVars
BY DEF Next, vars, Build, BeginCapacity, BeginShard, Replay, EndShard, EndCapacity

\* The sweep, seen on the variables of the build, is a build.
THEOREM SweepBuilds == Spec => BuildSpec
<1>1. Init => BuildInit
  BY DEF Init
<1>2. [Next]_vars => [BuildNext]_buildVars
  BY StepBuilds
<1> QED  BY <1>1, <1>2, PTL DEF Spec, BuildSpec

\* The shards of a sweep are sorted as their readers demand, at every moment.
THEOREM SweepShardsSorted == Spec => []ShardsSorted
BY SweepBuilds, ShardsStaySorted, PTL

-----------------------------------------------------------------------------
(* The replay of a shard.                                                    *)

LEMMA InitSweep ==
    ASSUME Init
    PROVE  SweepInv
BY DEF Init, ReplayInit, BuildInit, SweepInv, BuildFirst, ReadsOwnShard, SourceNeverRefuses,
       LiveStages

\* A request of a sorted shard passes the checks of the source and the engine.
LEMMA NextRequestPasses ==
    ASSUME IInv, ReadsOwnShard, stage = "arrive", Due
    PROVE  /\ ArrivalError(Peeked) \in {"none", "duplicate_active_request"}
           /\ popped + 1 \in 0..Len(source)
           /\ Peeked = source[popped + 1]
<1>1. /\ current \in Instances /\ source = shard[current] /\ popped \in 0..Len(source)
      /\ lastKey = IF popped = 0 THEN <<>> ELSE <<source[popped]>>
  BY DEF ReadsOwnShard, LiveStages
<1>2. shard[current] \in Seq(Record) /\ Len(source) \in Nat /\ DOMAIN source = 1..Len(source)
  <2>1. shard \in [Instances -> Seq(Record)]
    BY Zenon DEF IInv, BuildTypeOK
  <2>2. shard[current] \in Seq(Record)
    BY <1>1, <2>1
  <2> QED  BY <1>1, <2>2, LenProperties
<1>3. popped # Len(source)
  BY DEF Due, Exhausted
<1>4. popped + 1 \in 1..Len(source) /\ popped + 1 \in 0..Len(source)
  BY <1>1, <1>2, <1>3
<1>5. source[popped + 1].instance = current
  BY <1>1, <1>2, <1>4 DEF IInv, ShardsSorted
<1>6. ASSUME lastKey # <<>>
      PROVE  SourceKeyLeq(lastKey[1], source[popped + 1])
  <2>1. popped \in 1..Len(source) /\ lastKey[1] = source[popped]
    BY <1>1, <1>2, <1>6
  <2>2. popped <= popped + 1
    BY <1>1
  <2> QED  BY <1>1, <1>2, <1>4, <2>1, <2>2 DEF IInv, ShardsSorted
<1> QED  BY <1>4, <1>5, <1>6 DEF ArrivalError, Peeked

LEMMA ReplayStep ==
    ASSUME IInv, SweepInv, Replay
    PROVE  ReadsOwnShard' /\ SourceNeverRefuses'
<1>1. UNCHANGED <<shard>> /\ ReplayNext
  BY DEF Replay, buildVars
<1>2. CASE Arrive
  <2>1. stage = "arrive" /\ Due /\ popped' = popped + 1 /\ UNCHANGED <<current, source>>
    BY <1>2 DEF Arrive
  <2>2. /\ ArrivalError(Peeked) \in {"none", "duplicate_active_request"}
        /\ popped + 1 \in 0..Len(source)
        /\ Peeked = source[popped + 1]
    BY <2>1, NextRequestPasses DEF SweepInv
  <2>3. current \in Instances /\ source = shard[current] /\ popped \in 0..Len(source)
    BY <2>1 DEF SweepInv, ReadsOwnShard, LiveStages
  <2>4. CASE ArrivalError(Peeked) = "none"
    <3>1. lastKey' = <<source[popped + 1]>> /\ stage' = "arrive"
      BY <1>2, <2>1, <2>2, <2>4 DEF Arrive
    <3>2. popped + 1 # 0
      BY <2>3
    <3> QED  BY <1>1, <2>1, <2>2, <2>3, <3>1, <3>2 DEF ReadsOwnShard, SourceNeverRefuses
  <2>5. CASE ArrivalError(Peeked) = "duplicate_active_request"
    <3>1. stage' = "duplicate_active_request"
      BY <1>2, <2>5 DEF Arrive
    <3> QED  BY <3>1 DEF ReadsOwnShard, SourceNeverRefuses, LiveStages
  <2> QED  BY <2>2, <2>4, <2>5
<1>3. CASE ~Arrive
  <2>1. UNCHANGED <<current, source, popped, lastKey>>
    BY <1>1, <1>3 DEF ReplayNext, ArrivalsDone, Scan, FrontierDone, ReportFrontier, Schedule
  <2>2. stage \in LiveStages /\ stage' \in LiveStages
    BY <1>1, <1>3
       DEF ReplayNext, ArrivalsDone, Scan, FrontierDone, ReportFrontier, Schedule, Jump, LiveStages
  <2> QED  BY <1>1, <2>1, <2>2 DEF SweepInv, ReadsOwnShard, SourceNeverRefuses, LiveStages
<1> QED  BY <1>2, <1>3

\* A stream begins with the shard of an instance whose turn it is.
LEMMA BeginShardStep ==
    ASSUME IInv, SweepInv, BeginShard
    PROVE  ReadsOwnShard' /\ SourceNeverRefuses'
<1>1. PICK i \in todo : BeginStream(i, shard[i])
  BY DEF BeginShard
<1>2. /\ stage' \in {"returned", "arrive"} /\ current' = i /\ source' = shard[i]
      /\ popped' = 0 /\ lastKey' = <<>>
  BY <1>1 DEF BeginStream
<1>3. i \in Instances /\ UNCHANGED shard
  BY <1>1 DEF SweepInv, BeginShard, buildVars
<1>4. Len(shard[i]) \in Nat
  <2>1. shard \in [Instances -> Seq(Record)]
    BY Zenon DEF IInv, BuildTypeOK
  <2> QED  BY <1>3, <2>1, LenProperties
<1>5. 0 \in 0..Len(shard[i])
  BY <1>4
<1>6. ReadsOwnShard'
  BY <1>2, <1>3, <1>5 DEF ReadsOwnShard
<1>7. SourceNeverRefuses'
  BY <1>2 DEF SourceNeverRefuses
<1> QED  BY <1>6, <1>7

LEMMA SweepStep ==
    ASSUME IInv, SweepInv, [Next]_vars
    PROVE  SweepInv'
<1>1. CASE Build
  <2>1. build = "reading" /\ UNCHANGED <<replayVars, sweepVars>>
    BY <1>1, BuildStepReads DEF Build
  <2>2. sweep = "build" /\ stage = "idle"
    BY <2>1 DEF SweepInv, BuildFirst
  <2> QED  BY <2>1, <2>2 DEF SweepInv, BuildFirst, ReadsOwnShard, SourceNeverRefuses, LiveStages,
                            replayVars, sweepVars
<1>2. CASE BeginCapacity
  <2>1. build' = "built" /\ sweep' = "replay" /\ todo' \subseteq Instances
    BY <1>2 DEF BeginCapacity, Shards, buildVars
  <2>2. UNCHANGED <<stage, shard, current, source, popped, lastKey>>
    BY <1>2 DEF BeginCapacity, buildVars
  <2> QED  BY <2>1, <2>2 DEF SweepInv, BuildFirst, ReadsOwnShard, SourceNeverRefuses
<1>3. CASE BeginShard
  <2>1. BuildFirst' /\ todo' \subseteq Instances
    BY <1>3 DEF BeginShard, SweepInv, BuildFirst, buildVars, sweepVars
  <2> QED  BY <1>3, <2>1, BeginShardStep DEF SweepInv
<1>4. CASE Replay
  <2>1. BuildFirst' /\ todo' \subseteq Instances
    BY <1>4 DEF Replay, SweepInv, BuildFirst, buildVars, sweepVars
  <2> QED  BY <1>4, <2>1, ReplayStep DEF SweepInv
<1>5. CASE EndShard
  <2>1. stage' = "idle" /\ sweep = "replay" /\ UNCHANGED build /\ todo' \subseteq Instances
    BY <1>5 DEF EndShard, SweepInv, buildVars
  <2>2. build = "built"
    BY <2>1 DEF SweepInv, BuildFirst
  <2> QED  BY <2>1, <2>2 DEF SweepInv, BuildFirst, ReadsOwnShard, SourceNeverRefuses, LiveStages
<1>6. CASE EndCapacity
  <2>1. /\ sweep = "replay" /\ UNCHANGED <<build, shard, stage, current, source, popped, lastKey, todo>>
        /\ sweep' \in {"done", "rows"}
    BY <1>6 DEF EndCapacity, buildVars, replayVars
  <2>2. build = "built"
    BY <2>1 DEF SweepInv, BuildFirst
  <2> QED  BY <2>1, <2>2 DEF SweepInv, BuildFirst, ReadsOwnShard, SourceNeverRefuses
<1>7. CASE UNCHANGED vars
  BY <1>7 DEF vars, buildVars, replayVars, sweepVars, SweepInv, BuildFirst, ReadsOwnShard,
              SourceNeverRefuses
<1> QED  BY <1>1, <1>2, <1>3, <1>4, <1>5, <1>6, <1>7 DEF Next

\* The checks that read a request again never fail: what was written sorted is
\* read sorted, and every shard holds requests of its own instance only.
THEOREM ShardsReadBack == Spec => []SourceNeverRefuses
<1>1. Init /\ IInv => SweepInv
  BY InitSweep
<1>2. IInv /\ SweepInv /\ [Next]_vars => SweepInv'
  BY SweepStep
<1>3. SweepInv => SourceNeverRefuses
  BY DEF SweepInv
<1>4. Spec => []IInv
  BY SweepBuilds, BuildInvariant, PTL
<1> QED  BY <1>1, <1>2, <1>3, <1>4, PTL DEF Spec

-----------------------------------------------------------------------------
(* The waiting queue.                                                        *)

\* A list without one of its members.
LEMMA DistinctRemove ==
    ASSUME NEW B, NEW q \in Seq(B), NEW i \in 1..Len(q), Distinct(q)
    PROVE  Resident(RemoveAt(q, i)) = Resident(q) \ {q[i]}
<1>1. PICK n \in Nat : n = Len(q) OBVIOUS
<1>2. PICK t \in Seq(B) : t = RemoveAt(q, i) BY RemoveAtProperties
<1>3. Len(t) = n - 1 /\ \A j \in 1..(n - 1) : t[j] = IF j < i THEN q[j] ELSE q[j + 1]
  BY <1>1, <1>2, RemoveAtProperties
<1>4. DOMAIN t = 1..(n - 1) /\ DOMAIN q = 1..n /\ i \in 1..n BY <1>1, <1>2, <1>3
<1>5. \A j, k \in 1..n : q[j] = q[k] => j = k BY <1>4 DEF Distinct
<1>6. ASSUME NEW j \in 1..(n - 1) PROVE t[j] \in Resident(q) \ {q[i]}
  <2>1. CASE j < i
    <3>1. j \in 1..n /\ t[j] = q[j] /\ j # i BY <1>1, <1>3, <2>1
    <3> QED BY <1>4, <1>5, <3>1 DEF Resident
  <2>2. CASE ~(j < i)
    <3>1. j + 1 \in 1..n /\ t[j] = q[j + 1] /\ j + 1 # i BY <1>1, <1>3, <1>4, <2>2
    <3> QED BY <1>4, <1>5, <3>1 DEF Resident
  <2> QED BY <2>1, <2>2
<1>7. ASSUME NEW k \in 1..n, q[k] # q[i] PROVE q[k] \in Resident(t)
  <2>1. CASE k < i
    <3>1. k \in 1..(n - 1) /\ t[k] = q[k] BY <1>1, <1>3, <1>4, <2>1
    <3> QED BY <1>4, <3>1 DEF Resident
  <2>2. CASE k > i
    <3>1. k - 1 \in 1..(n - 1) /\ ~(k - 1 < i) /\ (k - 1) + 1 = k BY <1>1, <1>4, <2>2
    <3>2. t[k - 1] = q[k] BY <1>3, <3>1
    <3> QED BY <1>4, <3>1, <3>2 DEF Resident
  <2>3. k # i BY <1>7
  <2> QED BY <1>4, <2>1, <2>2, <2>3
<1> QED BY <1>2, <1>4, <1>6, <1>7 DEF Resident

\* As many requests as are admitted leave the queue, from its front.
LEMMA PopLeftTimesDrops ==
    ASSUME NEW B, NEW q \in Queues(B), NEW k \in 0..QueueLen(q)
    PROVE  /\ PopLeftTimes(q, k) \in Queues(B)
           /\ Contents(PopLeftTimes(q, k)) = SubSeq(Contents(q), k + 1, Len(Contents(q)))
<1>1. PICK c \in Seq(B) : c = Contents(q) BY ContentsProperties
<1>2. PICK l \in Nat : l = Len(c) OBVIOUS
<1>3. QueueLen(q) = l /\ k \in 0..l /\ k \in Nat
  BY <1>1, <1>2, ContentsProperties
<1> DEFINE A == Queues(B)
           unit == [i \in 1..k |-> 0]
           step == [x \in A \X Nat |-> IF QueueLen(x[1]) > 0 THEN PopLeft(x[1]) ELSE x[1]]
           IsRest(f) == f = [n \in 0..k |-> IF n = 0 THEN q ELSE PopLeft(f[n - 1])]
           Good(f) == {n \in Nat : n <= k =>
                         /\ f[n] \in A
                         /\ Contents(f[n]) = SubSeq(c, n + 1, l)}
<1>4. unit \in Seq(Nat) /\ Len(unit) = k BY <1>3
<1>5. IsFoldStep(step, A, Nat)
  <2>1. ASSUME NEW x \in A \X Nat
        PROVE  (IF QueueLen(x[1]) > 0 THEN PopLeft(x[1]) ELSE x[1]) \in A
    BY PopLeftTakesFirst
  <2> HIDE DEF A
  <2> QED BY <2>1 DEF IsFoldStep
<1>6. PICK f : IsFoldOf(f, A, unit, q, step)
  <2> HIDE DEF A, unit, step
  <2> QED BY <1>4, <1>5, FoldExists DEF A
<1>7. /\ f \in [0..k -> A] /\ f[0] = q
      /\ \A n \in 1..k : f[n] = step[<<f[n - 1], unit[n]>>]
  BY <1>4, <1>6 DEF IsFoldOf
<1>8. \A n \in 1..k : f[n] = IF QueueLen(f[n - 1]) > 0 THEN PopLeft(f[n - 1]) ELSE f[n - 1]
  <2> SUFFICES ASSUME NEW n \in 1..k
               PROVE  f[n] = IF QueueLen(f[n - 1]) > 0 THEN PopLeft(f[n - 1]) ELSE f[n - 1]
    OBVIOUS
  <2>1. n - 1 \in 0..k /\ unit[n] = 0 BY <1>3
  <2>2. f[n - 1] \in A BY <1>7, <2>1
  <2> HIDE DEF A, unit
  <2>3. PICK x \in A \X Nat : x = <<f[n - 1], 0>> BY <2>2
  <2>4. x[1] = f[n - 1] /\ f[n] = step[x] BY <1>7, <2>1, <2>3
  <2> QED BY <2>4
<1> HIDE DEF A, unit, step
<1>9. 0 \in Good(f)
  <2>1. Contents(q) = SubSeq(c, 0 + 1, l) BY <1>1, <1>2, SubSeqFull
  <2> QED BY <1>7, <2>1 DEF A
<1>10. ASSUME NEW n \in Nat, n \in Good(f), n + 1 <= k
       PROVE  /\ QueueLen(f[n]) > 0
              /\ f[n + 1] = PopLeft(f[n]) /\ f[n + 1] \in A
              /\ Contents(f[n + 1]) = SubSeq(c, n + 2, l)
  <2>1. f[n] \in A /\ Contents(f[n]) = SubSeq(c, n + 1, l) BY <1>10
  <2>2. n + 1 \in 1..l /\ l \in (n + 1)..Len(c) /\ (n + 1) + 1 = n + 2 BY <1>2, <1>3, <1>10
  <2>3. /\ Len(SubSeq(c, n + 1, l)) = l - n
        /\ Tail(SubSeq(c, n + 1, l)) = SubSeq(c, n + 2, l)
    <3>1. \A i \in 1..l : c[i] \in B BY <1>2
    <3>2. Tail(SubSeq(c, n + 1, l)) = SubSeq(c, (n + 1) + 1, l)
      BY <1>2, <2>2, HeadTailOfSubSeq
    <3>3. Len(SubSeq(c, n + 1, l)) = l - (n + 1) + 1
      <4>1. \A i \in (n + 1)..l : c[i] \in B BY <3>1, <2>2
      <4> QED BY <2>2, <4>1, SubSeqProperties
    <3> QED BY <2>2, <3>2, <3>3
  <2>4. QueueLen(f[n]) = l - n
    BY <2>1, <2>3, ContentsProperties DEF A
  <2>5. QueueLen(f[n]) > 0 BY <2>2, <2>4
  <2>6. f[n + 1] = PopLeft(f[n])
    <3>1. n + 1 \in 1..k /\ (n + 1) - 1 = n BY <1>10
    <3> QED BY <1>8, <2>5, <3>1
  <2>7. PopLeft(f[n]) \in Queues(B) /\ Contents(PopLeft(f[n])) = Tail(Contents(f[n]))
    BY <2>1, <2>5, PopLeftTakesFirst DEF A
  <2> QED BY <2>1, <2>3, <2>5, <2>6, <2>7 DEF A
<1>11. ASSUME NEW n \in Nat, n \in Good(f) PROVE n + 1 \in Good(f)
  <2>1. (n + 1) + 1 = n + 2 OBVIOUS
  <2> QED BY <1>10, <1>11, <2>1
<1>12. \A n \in Nat : n \in Good(f)
  <2> HIDE DEF Good
  <2> QED BY <1>9, <1>11, SetInduction
<1>13. IsRest(f)
  <2>1. ASSUME NEW n \in 0..k PROVE f[n] = IF n = 0 THEN q ELSE PopLeft(f[n - 1])
    <3>1. CASE n = 0 BY <1>7, <3>1
    <3>2. CASE n # 0
      <4>1. n - 1 \in Nat /\ (n - 1) + 1 = n /\ (n - 1) + 1 <= k BY <3>2
      <4>2. f[(n - 1) + 1] = PopLeft(f[n - 1]) BY <1>10, <1>12, <4>1
      <4> QED BY <3>2, <4>1, <4>2
    <3> QED BY <3>1, <3>2
  <2> QED BY <1>7, <2>1
<1>14. \E g : IsRest(g)
  <2> HIDE DEF IsRest
  <2> QED BY <1>13
<1>15. PICK g : g = CHOOSE h : IsRest(h) OBVIOUS
<1>16. IsRest(g)
  <2> HIDE DEF IsRest
  <2> QED BY <1>14, <1>15
<1>17. PopLeftTimes(q, k) = g[k] BY <1>15 DEF PopLeftTimes
<1>18. g[k] = f[k]
  <2> DEFINE Same == {n \in Nat : n <= k => g[n] = f[n]}
  <2>1. 0 \in Same BY <1>13, <1>16
  <2>2. ASSUME NEW n \in Nat, n \in Same PROVE n + 1 \in Same
    <3> SUFFICES ASSUME n + 1 <= k PROVE g[n + 1] = f[n + 1]
      OBVIOUS
    <3>1. n + 1 \in 0..k /\ n + 1 # 0 /\ (n + 1) - 1 = n /\ g[n] = f[n] BY <1>3, <2>2
    <3>2. g[n + 1] = PopLeft(g[n]) BY <1>16, <3>1
    <3>3. f[n + 1] = PopLeft(f[n]) BY <1>13, <3>1
    <3> QED BY <3>1, <3>2, <3>3
  <2> HIDE DEF Same, IsRest
  <2>3. \A n \in Nat : n \in Same BY <2>1, <2>2, SetInduction
  <2>4. k \in Same BY <1>3, <2>3
  <2> QED BY <1>3, <2>4 DEF Same
<1>19. f[k] \in A /\ Contents(f[k]) = SubSeq(c, k + 1, l)
  BY <1>3, <1>12
<1> QED BY <1>1, <1>2, <1>17, <1>18, <1>19 DEF A

\* The ids of q are in the order in which they arrived.
InArrivalOrder(q, sts) ==
    \A m, n \in DOMAIN q : m < n => sts[q[m]].seq < sts[q[n]].seq

LEMMA OrderDistinct ==
    ASSUME NEW q \in Seq(Nat), NEW sts, InArrivalOrder(q, sts),
           \A id \in Resident(q) : sts[id].seq \in Nat
    PROVE  Distinct(q)
<1> SUFFICES ASSUME NEW m \in DOMAIN q, NEW n \in DOMAIN q, q[m] = q[n] PROVE m = n
  BY DEF Distinct
<1>1. m \in Nat /\ n \in Nat /\ q[m] \in Resident(q) BY DEF Resident
<1>2. CASE m < n BY <1>1, <1>2 DEF InArrivalOrder
<1>3. CASE n < m BY <1>1, <1>3 DEF InArrivalOrder
<1> QED BY <1>1, <1>2, <1>3

LEMMA OrderRemove ==
    ASSUME NEW q \in Seq(Nat), NEW sts, NEW i \in 1..Len(q), InArrivalOrder(q, sts)
    PROVE  InArrivalOrder(RemoveAt(q, i), sts)
<1>1. PICK n \in Nat : n = Len(q) OBVIOUS
<1>2. PICK t \in Seq(Nat) : t = RemoveAt(q, i) BY RemoveAtProperties
<1>3. Len(t) = n - 1 /\ \A j \in 1..(n - 1) : t[j] = IF j < i THEN q[j] ELSE q[j + 1]
  BY <1>1, <1>2, RemoveAtProperties
<1>4. DOMAIN t = 1..(n - 1) /\ DOMAIN q = 1..n /\ i \in 1..n BY <1>1, <1>2, <1>3
<1> SUFFICES ASSUME NEW j \in 1..(n - 1), NEW k \in 1..(n - 1), j < k
             PROVE  sts[t[j]].seq < sts[t[k]].seq
  BY <1>2, <1>4 DEF InArrivalOrder
<1> DEFINE a == IF j < i THEN j ELSE j + 1
           b == IF k < i THEN k ELSE k + 1
<1>5. a \in 1..n /\ b \in 1..n /\ a < b BY <1>1
<1>6. t[j] = q[a] /\ t[k] = q[b] BY <1>3
<1> HIDE DEF a, b
<1> QED BY <1>4, <1>5, <1>6 DEF InArrivalOrder

LEMMA OrderRest ==
    ASSUME NEW q \in Seq(Nat), NEW sts, NEW r \in 0..Len(q), InArrivalOrder(q, sts)
    PROVE  InArrivalOrder(SubSeq(q, r + 1, Len(q)), sts)
<1>1. PICK n \in Nat : n = Len(q) OBVIOUS
<1>2. PICK t \in Seq(Nat) : t = SubSeq(q, r + 1, Len(q)) BY SplitList
<1>3. Len(t) = n - r /\ \A i \in 1..(n - r) : t[i] = q[r + i] BY <1>1, <1>2, SplitList
<1>4. DOMAIN t = 1..(n - r) /\ DOMAIN q = 1..n BY <1>1, <1>2, <1>3
<1> SUFFICES ASSUME NEW j \in 1..(n - r), NEW k \in 1..(n - r), j < k
             PROVE  sts[t[j]].seq < sts[t[k]].seq
  BY <1>2, <1>4 DEF InArrivalOrder
<1>5. r + j \in 1..n /\ r + k \in 1..n /\ r + j < r + k BY <1>1
<1> QED BY <1>3, <1>4, <1>5 DEF InArrivalOrder

LEMMA OrderSame ==
    ASSUME NEW q, NEW sts, NEW new, InArrivalOrder(q, sts),
           \A id \in Resident(q) : new[id].seq = sts[id].seq
    PROVE  InArrivalOrder(q, new)
BY DEF InArrivalOrder, Resident

-----------------------------------------------------------------------------
(* The invariant of the live state.                                          *)

MetricRecord == [instance : Nat, seq : Nat, id : Nat, prompt : Nat, hbm : Int, ddr : Int,
                 miss : Int, ttft : Int]
StateEntry   == [seq : Nat, arrival : Nat, left : Nat]
LookupEntry  == [seq : Nat, miss : Nat]

\* The ids of a list of metrics, in order.
IdList(ms) == [k \in 1..Len(ms) |-> ms[k].id]

\* An active request, and no other, has a state, and is in one place: the queue
\* q, in order of arrival, the running list, or among the metrics to be reported.
PlacesOf(q, run, ms, sts) ==
    /\ q \in Seq(Nat) /\ run \in Seq(Nat) /\ ms \in Seq(MetricRecord)
    /\ DOMAIN sts = Resident(q) \cup Resident(run) \cup Resident(IdList(ms))
    /\ Distinct(run) /\ Distinct(IdList(ms))
    /\ Resident(q) \cap Resident(run) = {}
    /\ Resident(q) \cap Resident(IdList(ms)) = {}
    /\ Resident(run) \cap Resident(IdList(ms)) = {}
    /\ InArrivalOrder(q, sts)

\* A lookup is that of the request that has the id now.  A request that was
\* looked up needs a slice, unless its metric is made; a running one was.
EntriesOf(run, ms, sts, lks, instance) ==
    /\ sts \in [DOMAIN sts -> StateEntry]
    /\ lks \in [DOMAIN lks -> LookupEntry]
    /\ \A id \in DOMAIN lks : id \in DOMAIN sts /\ lks[id].seq = sts[id].seq
    /\ Resident(run) \subseteq DOMAIN lks
    /\ \A id \in DOMAIN lks \ Resident(IdList(ms)) : sts[id].left > 0
    /\ \A k \in DOMAIN ms : ms[k].instance = instance /\ ms[k].seq = sts[ms[k].id].seq

\* The place of a request in the source is its arrival_seq.
Origins ==
    \A id \in DOMAIN states :
        states[id].seq \in 1..popped /\ source[states[id].seq].id = id

LiveInv ==
    /\ waiting \in Queues(Nat)
    /\ cursor \in Nat \ {0} /\ current \in Nat /\ popped \in Nat /\ now \in Nat
    /\ PlacesOf(Contents(waiting), running, metrics, states)
    /\ EntriesOf(running, metrics, states, lookups, current)
    /\ Origins

-----------------------------------------------------------------------------
(* Counting the live state.                                                  *)

LEMMA IdListProperties ==
    ASSUME NEW ms \in Seq(MetricRecord)
    PROVE  /\ IdList(ms) \in Seq(Nat)
           /\ Len(IdList(ms)) = Len(ms)
           /\ Ids(ms) = Resident(IdList(ms))
           /\ \A k \in DOMAIN ms : IdList(ms)[k] = ms[k].id
<1>1. Len(ms) \in Nat /\ DOMAIN ms = 1..Len(ms) OBVIOUS
<1>2. \A k \in 1..Len(ms) : ms[k] \in MetricRecord BY <1>1, ElementOfSeq
<1>3. \A k \in 1..Len(ms) : ms[k].id \in Nat BY <1>2 DEF MetricRecord
<1>4. IdList(ms) \in [1..Len(ms) -> Nat] BY <1>3 DEF IdList
<1>5. IdList(ms) \in Seq(Nat) /\ Len(IdList(ms)) = Len(ms) BY <1>1, <1>4
<1>6. DOMAIN IdList(ms) = DOMAIN ms /\ \A k \in DOMAIN ms : IdList(ms)[k] = ms[k].id
  BY <1>1 DEF IdList
<1>7. Ids(ms) = Resident(IdList(ms)) BY <1>6 DEF Ids, Resident
<1> QED BY <1>5, <1>6, <1>7

LEMMA NoIds == IdList(<<>>) \in Seq(Nat) /\ Resident(IdList(<<>>)) = {} /\ Distinct(IdList(<<>>))
<1>1. \A k \in DOMAIN IdList(<<>>) : FALSE BY DEF IdList
<1>2. Resident(IdList(<<>>)) = {} /\ Distinct(IdList(<<>>)) BY <1>1 DEF Resident, Distinct
<1>3. <<>> \in Seq(MetricRecord) OBVIOUS
<1>4. PICK ms \in Seq(MetricRecord) : ms = <<>> BY <1>3
<1>5. IdList(ms) \in Seq(Nat) BY IdListProperties
<1> QED BY <1>2, <1>4, <1>5

LEMMA LiveCount ==
    ASSUME NEW q, NEW run, NEW ms, NEW sts, PlacesOf(q, run, ms, sts),
           \A id \in DOMAIN sts : sts[id].seq \in Nat
    PROVE  /\ IsFiniteSet(DOMAIN sts)
           /\ Cardinality(DOMAIN sts) = Len(q) + Len(run) + Len(ms)
<1>1. /\ q \in Seq(Nat) /\ run \in Seq(Nat) /\ ms \in Seq(MetricRecord)
      /\ Distinct(run) /\ Distinct(IdList(ms))
      /\ Resident(q) \cap Resident(run) = {}
      /\ (Resident(q) \cup Resident(run)) \cap Resident(IdList(ms)) = {}
      /\ DOMAIN sts = (Resident(q) \cup Resident(run)) \cup Resident(IdList(ms))
      /\ InArrivalOrder(q, sts)
  BY DEF PlacesOf
<1>2. IdList(ms) \in Seq(Nat) /\ Len(IdList(ms)) = Len(ms) BY <1>1, IdListProperties
<1>3. Distinct(q) BY <1>1, OrderDistinct
<1>4. PICK a : a = Resident(q) OBVIOUS
<1>5. PICK b : b = Resident(run) OBVIOUS
<1>6. PICK c : c = Resident(IdList(ms)) OBVIOUS
<1>7. IsFiniteSet(a) /\ Cardinality(a) = Len(q) BY <1>1, <1>3, <1>4, DistinctCount
<1>8. IsFiniteSet(b) /\ Cardinality(b) = Len(run) BY <1>1, <1>5, DistinctCount
<1>9. IsFiniteSet(c) /\ Cardinality(c) = Len(ms) BY <1>1, <1>2, <1>6, DistinctCount
<1>10. Len(q) \in Nat /\ Len(run) \in Nat /\ Len(ms) \in Nat BY <1>1
<1>11. a \cap b = {} /\ (a \cup b) \cap c = {} /\ DOMAIN sts = (a \cup b) \cup c
  BY <1>1, <1>4, <1>5, <1>6
<1>12. Cardinality({}) = 0 BY FS_EmptySet
<1>13. IsFiniteSet(a \cup b) /\ Cardinality(a \cup b) = Len(q) + Len(run)
  <2>1. /\ IsFiniteSet(a \cup b)
        /\ Cardinality(a \cup b) = Cardinality(a) + Cardinality(b) - Cardinality(a \cap b)
    BY <1>7, <1>8, FS_Union
  <2>2. Cardinality(a \cap b) = 0 BY <1>11, <1>12
  <2> QED BY <1>7, <1>8, <1>10, <2>1, <2>2
<1>14. IsFiniteSet((a \cup b) \cup c)
       /\ Cardinality((a \cup b) \cup c)
            = Cardinality(a \cup b) + Cardinality(c) - Cardinality((a \cup b) \cap c)
  BY <1>9, <1>13, FS_Union
<1>15. Cardinality((a \cup b) \cap c) = 0 BY <1>11, <1>12
<1> QED BY <1>9, <1>10, <1>11, <1>13, <1>14, <1>15

\* The invariant says what the property says.
LEMMA LiveInvShows ==
    ASSUME LiveInv
    PROVE  LiveStateOnly
<1> DEFINE q == Contents(waiting)
<1>1. /\ waiting \in Queues(Nat) /\ PlacesOf(q, running, metrics, states)
      /\ EntriesOf(running, metrics, states, lookups, current) /\ Origins
  BY DEF LiveInv
<1>2. /\ q \in Seq(Nat) /\ Len(q) = QueueLen(waiting) /\ QueueLen(waiting) \in Nat
      /\ \A i \in 1..QueueLen(waiting) : At(waiting, i) = q[i]
  BY <1>1, ContentsProperties
<1> HIDE DEF q
<1>3. DOMAIN q = 1..QueueLen(waiting) BY <1>2
<1>4. /\ metrics \in Seq(MetricRecord) /\ running \in Seq(Nat)
      /\ DOMAIN states = Resident(q) \cup Resident(running) \cup Resident(IdList(metrics))
      /\ InArrivalOrder(q, states)
  BY <1>1 DEF PlacesOf
<1>5. Ids(metrics) = Resident(IdList(metrics)) BY <1>4, IdListProperties
<1>6. DOMAIN states = Active BY <1>3, <1>4, <1>5 DEF Active, Resident, q
<1>7. Cardinality(Active) = QueueLen(waiting) + Len(running) + Len(metrics)
  <2>1. \A id \in DOMAIN states : states[id].seq \in Nat BY <1>1 DEF EntriesOf, StateEntry
  <2>2. Cardinality(DOMAIN states) = Len(q) + Len(running) + Len(metrics)
    BY <1>1, <2>1, LiveCount
  <2> QED BY <1>2, <1>6, <2>2
<1>8. \A id \in DOMAIN lookups : id \in Active /\ lookups[id].seq = states[id].seq
  BY <1>1, <1>6 DEF EntriesOf
<1>9. \A n \in DOMAIN running : LookedUp(running[n])
  BY <1>1 DEF EntriesOf, LookedUp, Resident
<1>10. \A m, n \in 1..QueueLen(waiting) :
           m < n => states[At(waiting, m)].seq < states[At(waiting, n)].seq
  BY <1>2, <1>3, <1>4 DEF InArrivalOrder
<1> QED BY <1>6, <1>7, <1>8, <1>9, <1>10 DEF LiveStateOnly

-----------------------------------------------------------------------------
(* Every step of a replay keeps the invariant of the live state.             *)

LEMMA ForgetOnly ==
    ASSUME NEW ms \in Seq(MetricRecord), NEW f
    PROVE  /\ DOMAIN Forget(f, ms) = DOMAIN f \ Resident(IdList(ms))
           /\ \A id \in DOMAIN Forget(f, ms) : Forget(f, ms)[id] = f[id]
<1>1. Ids(ms) = Resident(IdList(ms)) BY IdListProperties
<1> QED BY <1>1 DEF Forget

\* Reporting a request forgets it everywhere.
LEMMA ForgetKeeps ==
    ASSUME NEW q, NEW run, NEW ms, NEW sts, NEW lks, NEW instance,
           PlacesOf(q, run, ms, sts), EntriesOf(run, ms, sts, lks, instance),
           NEW s, NEW l, s = Forget(sts, ms), l = Forget(lks, ms)
    PROVE  PlacesOf(q, run, <<>>, s) /\ EntriesOf(run, <<>>, s, l, instance)
<1> DEFINE gone == Resident(IdList(ms))
<1>1. ms \in Seq(MetricRecord) BY DEF PlacesOf
<1>3. /\ DOMAIN s = DOMAIN sts \ gone /\ \A id \in DOMAIN s : s[id] = sts[id]
      /\ DOMAIN l = DOMAIN lks \ gone /\ \A id \in DOMAIN l : l[id] = lks[id]
  BY <1>1, ForgetOnly
<1>4. s \in [DOMAIN s -> StateEntry] /\ l \in [DOMAIN l -> LookupEntry]
  <2>1. s = [id \in DOMAIN s |-> s[id]] /\ l = [id \in DOMAIN l |-> l[id]]
    BY DEF Forget
  <2>2. \A id \in DOMAIN s : s[id] \in StateEntry BY <1>3 DEF EntriesOf
  <2>3. \A id \in DOMAIN l : l[id] \in LookupEntry BY <1>3 DEF EntriesOf
  <2> QED BY <2>1, <2>2, <2>3
<1> HIDE DEF gone
<1>5. /\ q \in Seq(Nat) /\ run \in Seq(Nat)
      /\ DOMAIN sts = Resident(q) \cup Resident(run) \cup gone
      /\ Distinct(run)
      /\ Resident(q) \cap Resident(run) = {}
      /\ Resident(q) \cap gone = {}
      /\ Resident(run) \cap gone = {}
      /\ InArrivalOrder(q, sts)
  BY DEF PlacesOf, gone
<1>6. DOMAIN s = Resident(q) \cup Resident(run) BY <1>3, <1>5
<1>7. InArrivalOrder(q, s)
  <2>1. \A id \in Resident(q) : s[id].seq = sts[id].seq BY <1>3, <1>6
  <2> QED BY <1>5, <2>1, OrderSame
<1>8. PlacesOf(q, run, <<>>, s)
  <2>1. <<>> \in Seq(MetricRecord) OBVIOUS
  <2> QED BY <1>5, <1>6, <1>7, <2>1, NoIds DEF PlacesOf
<1>9. /\ \A id \in DOMAIN lks : id \in DOMAIN sts /\ lks[id].seq = sts[id].seq
      /\ Resident(run) \subseteq DOMAIN lks
      /\ \A id \in DOMAIN lks \ gone : sts[id].left > 0
  BY DEF EntriesOf, gone
<1>10. /\ \A id \in DOMAIN l : id \in DOMAIN s /\ l[id].seq = s[id].seq
       /\ Resident(run) \subseteq DOMAIN l
       /\ \A id \in DOMAIN l : s[id].left > 0
  BY <1>3, <1>5, <1>9
<1>11. EntriesOf(run, <<>>, s, l, instance)
  <2>1. \A k \in DOMAIN <<>> : FALSE OBVIOUS
  <2> QED BY <1>4, <1>10, <2>1, NoIds DEF EntriesOf
<1> QED BY <1>8, <1>11

\* The next request of the source.
LEMMA PeekedRecord ==
    ASSUME IInv, ReadsOwnShard, stage \in LiveStages, ~Exhausted
    PROVE  /\ source \in Seq(Record)
           /\ popped + 1 \in 1..Len(source)
           /\ Peeked = source[popped + 1] /\ Peeked \in Record
           /\ Peeked.id \in Nat /\ Peeked.time \in Nat
<1>1. current \in Instances /\ source = shard[current] /\ popped \in 0..Len(source)
  BY DEF ReadsOwnShard
<1>2. shard \in [Instances -> Seq(Record)] BY Zenon DEF IInv, BuildTypeOK
<1>3. source \in Seq(Record) /\ Len(source) \in Nat BY <1>1, <1>2, LenProperties
<1>4. popped + 1 \in 1..Len(source) BY <1>1, <1>3 DEF Exhausted
<1>5. source[popped + 1] \in Record BY <1>3, <1>4, ElementOfSeq
<1> QED BY <1>3, <1>4, <1>5, RecordFields DEF Peeked

LEMMA ArriveLive ==
    ASSUME IInv, ReadsOwnShard, LiveInv, Arrive
    PROVE  LiveInv'
<1>1. /\ stage = "arrive" /\ Due /\ popped' = popped + 1
      /\ UNCHANGED <<current, source, now, running, lookups, cursor, metrics>>
  BY DEF Arrive
<1>2. /\ source \in Seq(Record) /\ popped + 1 \in 1..Len(source)
      /\ Peeked = source[popped + 1] /\ Peeked \in Record
      /\ Peeked.id \in Nat /\ Peeked.time \in Nat
  BY <1>1, PeekedRecord DEF Due, LiveStages
<1> DEFINE q == Contents(waiting)
           id == Peeked.id
           entry == [seq |-> popped + 1, arrival |-> Peeked.time, left |-> 0]
<1>3. /\ waiting \in Queues(Nat)
      /\ cursor \in Nat \ {0} /\ current \in Nat /\ popped \in Nat /\ now \in Nat
      /\ PlacesOf(q, running, metrics, states)
      /\ EntriesOf(running, metrics, states, lookups, current)
      /\ Origins
  BY DEF LiveInv
<1>4. popped' \in Nat BY <1>1, <1>3
<1>5. \A i \in DOMAIN states : states[i].seq \in 1..popped' /\ source[states[i].seq].id = i
  <2>1. 1..popped \subseteq 1..popped' BY <1>1, <1>3
  <2> QED BY <1>3, <2>1 DEF Origins
<1>6. CASE ArrivalError(Peeked) # "none"
  <2>1. UNCHANGED <<waiting, states>> BY <1>6 DEF Arrive
  <2> QED BY <1>1, <1>3, <1>4, <1>5, <2>1 DEF LiveInv, Origins
<1>7. CASE ArrivalError(Peeked) = "none"
  <2>1. waiting' = Enqueue(waiting, id) /\ states' = Put(states, id, entry)
    BY <1>7 DEF Arrive
  <2>2. id \notin DOMAIN states BY <1>7 DEF ArrivalError
  <2> HIDE DEF q
  <2>3. q \in Seq(Nat) BY <1>3 DEF PlacesOf
  <2>4. waiting' \in Queues(Nat) /\ Contents(waiting') = Append(q, id)
    BY <1>2, <1>3, <2>1, EnqueueAppends DEF q
  <2>5. /\ DOMAIN states' = DOMAIN states \cup {id} /\ states'[id] = entry
        /\ \A i \in DOMAIN states : states'[i] = states[i]
    BY <2>1, <2>2 DEF Put
  <2>6. entry \in StateEntry /\ entry.seq = popped + 1 BY <1>2, <1>3 DEF StateEntry
  <2>7. states' \in [DOMAIN states' -> StateEntry]
    <3>1. states' = [i \in DOMAIN states' |-> states'[i]] BY <2>1 DEF Put
    <3>2. \A i \in DOMAIN states' : states'[i] \in StateEntry
      BY <1>3, <2>5, <2>6 DEF EntriesOf
    <3> HIDE DEF entry, id
    <3> QED BY <3>1, <3>2
  <2> HIDE DEF id, entry
  <2>8. PICK n \in Nat : n = Len(q) BY <2>3
  <2>9. /\ Append(q, id) \in Seq(Nat) /\ DOMAIN Append(q, id) = 1..(n + 1) /\ DOMAIN q = 1..n
        /\ \A i \in 1..n : Append(q, id)[i] = q[i]
        /\ Append(q, id)[n + 1] = id
    BY <1>2, <2>3, <2>8 DEF id
  <2>10. Resident(Append(q, id)) = Resident(q) \cup {id}
    <3>1. \A i \in 1..(n + 1) : i \in 1..n \/ i = n + 1 OBVIOUS
    <3>2. 1..n \subseteq 1..(n + 1) /\ n + 1 \in 1..(n + 1) OBVIOUS
    <3> QED BY <2>9, <3>1, <3>2 DEF Resident
  <2>11. InArrivalOrder(Append(q, id), states')
    <3> SUFFICES ASSUME NEW a \in 1..(n + 1), NEW b \in 1..(n + 1), a < b
                 PROVE  states'[Append(q, id)[a]].seq < states'[Append(q, id)[b]].seq
      BY <2>9 DEF InArrivalOrder
    <3>1. a \in 1..n /\ q[a] \in Resident(q) BY <2>9 DEF Resident
    <3>2. q[a] \in DOMAIN states BY <1>3, <3>1 DEF PlacesOf
    <3>3. CASE b \in 1..n
      <4>1. q[b] \in DOMAIN states BY <1>3, <2>9, <3>3 DEF PlacesOf, Resident
      <4>2. states[q[a]].seq < states[q[b]].seq
        BY <1>3, <2>9, <3>1, <3>3 DEF PlacesOf, InArrivalOrder
      <4> QED BY <2>5, <2>9, <3>1, <3>2, <3>3, <4>1, <4>2
    <3>4. CASE b = n + 1
      <4>1. states[q[a]].seq \in 1..popped BY <1>3, <3>2 DEF Origins
      <4>2. states'[id].seq = popped + 1 BY <2>5, <2>6
      <4> QED BY <1>3, <2>5, <2>9, <3>1, <3>2, <3>4, <4>1, <4>2
    <3>5. b \in 1..n \/ b = n + 1 BY <2>8
    <3> QED BY <3>3, <3>4, <3>5
  <2>12. PlacesOf(Append(q, id), running, metrics, states')
    BY <1>3, <2>2, <2>5, <2>9, <2>10, <2>11 DEF PlacesOf
  <2>13. EntriesOf(running, metrics, states', lookups, current)
    <3>1. /\ \A i \in DOMAIN lookups : i \in DOMAIN states /\ lookups[i].seq = states[i].seq
          /\ \A i \in DOMAIN lookups \ Resident(IdList(metrics)) : states[i].left > 0
          /\ \A k \in DOMAIN metrics :
                metrics[k].instance = current /\ metrics[k].seq = states[metrics[k].id].seq
      BY <1>3 DEF EntriesOf
    <3>2. \A k \in DOMAIN metrics : metrics[k].id \in DOMAIN states
      <4>1. metrics \in Seq(MetricRecord) /\ Resident(IdList(metrics)) \subseteq DOMAIN states
        BY <1>3 DEF PlacesOf
      <4>2. \A k \in DOMAIN metrics : metrics[k].id \in Ids(metrics) BY DEF Ids
      <4> QED BY <4>1, <4>2, IdListProperties
    <3> QED BY <1>3, <2>5, <2>7, <3>1, <3>2 DEF EntriesOf
  <2>14. Origins'
    <3>1. popped + 1 \in 1..popped' BY <1>1, <1>3
    <3>2. source[popped + 1].id = id BY <1>2 DEF id
    <3> QED BY <1>1, <1>5, <2>5, <2>6, <3>1, <3>2 DEF Origins
  <2>15. /\ PlacesOf(Contents(waiting)', running', metrics', states')
         /\ EntriesOf(running', metrics', states', lookups', current')
    BY <1>1, <2>4, <2>12, <2>13
  <2> QED BY <1>1, <1>3, <1>4, <2>4, <2>14, <2>15 DEF LiveInv
<1> QED BY <1>6, <1>7

\* The metric of an active request is one of this instance.
LEMMA MetricType ==
    ASSUME LiveInv, NEW id \in DOMAIN states, NEW miss \in Nat, NEW finish \in Nat
    PROVE  /\ Metric(id, miss, finish) \in MetricRecord
           /\ Metric(id, miss, finish).id = id
           /\ Metric(id, miss, finish).instance = current
           /\ Metric(id, miss, finish).seq = states[id].seq
           /\ id \in Nat
<1>1. states[id] \in StateEntry /\ current \in Nat BY DEF LiveInv, EntriesOf
<1>2. states[id].seq \in Nat /\ states[id].arrival \in Nat BY <1>1 DEF StateEntry
<1>3. id \in Nat
  <2> DEFINE q == Contents(waiting)
  <2>1. PlacesOf(q, running, metrics, states) BY DEF LiveInv
  <2> HIDE DEF q
  <2>2. /\ q \in Seq(Nat) /\ running \in Seq(Nat) /\ metrics \in Seq(MetricRecord)
        /\ id \in Resident(q) \cup Resident(running) \cup Resident(IdList(metrics))
    BY <2>1 DEF PlacesOf
  <2>3. IdList(metrics) \in Seq(Nat) BY <2>2, IdListProperties
  <2>4. \A s \in Seq(Nat) : Resident(s) \subseteq Nat BY DEF Resident
  <2> QED BY <2>2, <2>3, <2>4
<1>4. MaxSlices \in Nat BY ReplayAssumption
<1> QED BY <1>1, <1>2, <1>3, <1>4 DEF Metric, MetricRecord

LEMMA IdListAppend ==
    ASSUME NEW ms \in Seq(MetricRecord), NEW m \in MetricRecord
    PROVE  /\ Append(ms, m) \in Seq(MetricRecord)
           /\ IdList(Append(ms, m)) = Append(IdList(ms), m.id)
<1>1. PICK n \in Nat : n = Len(ms) OBVIOUS
<1>2. /\ Append(ms, m) \in Seq(MetricRecord) /\ Len(Append(ms, m)) = n + 1
      /\ \A k \in 1..n : Append(ms, m)[k] = ms[k]
      /\ Append(ms, m)[n + 1] = m
  BY <1>1, AppendProperties
<1>3. m.id \in Nat BY DEF MetricRecord
<1>4. IdList(ms) \in Seq(Nat) /\ Len(IdList(ms)) = n BY <1>1, IdListProperties
<1> DEFINE a == IdList(Append(ms, m))
           b == Append(IdList(ms), m.id)
<1>5. a \in Seq(Nat) /\ Len(a) = n + 1 /\ \A k \in 1..(n + 1) : a[k] = Append(ms, m)[k].id
  BY <1>2, IdListProperties DEF IdList
<1>6. /\ b \in Seq(Nat) /\ Len(b) = n + 1
      /\ \A k \in 1..n : b[k] = IdList(ms)[k]
      /\ b[n + 1] = m.id
  BY <1>3, <1>4, AppendProperties
<1>7. \A k \in 1..n : IdList(ms)[k] = ms[k].id BY <1>1 DEF IdList
<1> HIDE DEF a, b
<1>8. ASSUME NEW k \in 1..(n + 1) PROVE a[k] = b[k]
  <2>1. CASE k \in 1..n BY <1>2, <1>5, <1>6, <1>7, <2>1
  <2>2. CASE k = n + 1 BY <1>2, <1>5, <1>6, <2>2
  <2> QED BY <1>1, <2>1, <2>2
<1>9. a = b BY <1>5, <1>6, <1>8, SeqEqual
<1> QED BY <1>2, <1>9 DEF a, b

LEMMA AppendDistinct ==
    ASSUME NEW B, NEW q \in Seq(B), NEW x \in B, Distinct(q), x \notin Resident(q)
    PROVE  Distinct(Append(q, x)) /\ Resident(Append(q, x)) = Resident(q) \cup {x}
<1>1. PICK n \in Nat : n = Len(q) OBVIOUS
<1>2. /\ DOMAIN Append(q, x) = 1..(n + 1) /\ DOMAIN q = 1..n
      /\ \A i \in 1..n : Append(q, x)[i] = q[i]
      /\ Append(q, x)[n + 1] = x
  BY <1>1
<1>3. \A i \in 1..(n + 1) : i \in 1..n \/ i = n + 1 OBVIOUS
<1>4. 1..n \subseteq 1..(n + 1) /\ n + 1 \in 1..(n + 1) /\ n + 1 \notin 1..n OBVIOUS
<1>5. Resident(Append(q, x)) = Resident(q) \cup {x} BY <1>2, <1>3, <1>4 DEF Resident
<1>6. \A i \in 1..n : q[i] # x BY <1>2 DEF Resident
<1>7. Distinct(Append(q, x)) BY <1>2, <1>3, <1>4, <1>6 DEF Distinct
<1> QED BY <1>5, <1>7

LEMMA ScanLive ==
    ASSUME LiveInv, Scan
    PROVE  LiveInv'
<1> DEFINE q == Contents(waiting)
           id == At(waiting, cursor)
<1>1. /\ waiting \in Queues(Nat)
      /\ cursor \in Nat \ {0} /\ current \in Nat /\ popped \in Nat /\ now \in Nat
      /\ PlacesOf(q, running, metrics, states)
      /\ EntriesOf(running, metrics, states, lookups, current)
      /\ Origins
  BY DEF LiveInv
<1>2. UNCHANGED <<current, source, popped, now, running>> /\ cursor <= QueueLen(waiting)
  BY DEF Scan
<1>3. /\ q \in Seq(Nat) /\ Len(q) = QueueLen(waiting) /\ QueueLen(waiting) \in Nat
      /\ \A i \in 1..QueueLen(waiting) : At(waiting, i) = q[i]
  BY <1>1, ContentsProperties
<1>4. cursor \in 1..QueueLen(waiting) /\ cursor + 1 \in Nat \ {0} BY <1>1, <1>2, <1>3
<1> HIDE DEF q
<1>5. id = q[cursor] /\ cursor \in DOMAIN q /\ id \in Resident(q)
  BY <1>3, <1>4 DEF Resident
<1>6. CASE LookedUp(id)
  <2>1. cursor' = cursor + 1 /\ UNCHANGED <<waiting, states, lookups, metrics>>
    BY <1>6 DEF Scan
  <2>2. UNCHANGED Contents(waiting) BY <2>1
  <2> QED BY <1>1, <1>2, <1>4, <2>1, <2>2 DEF LiveInv, Origins, q
<1>7. CASE ~LookedUp(id)
  <2>1. PICK miss \in 0..MaxSlices :
            /\ lookups' = Put(lookups, id, [seq |-> states[id].seq, miss |-> miss])
            /\ states' = [states EXCEPT ![id].left = miss]
            /\ IF miss = 0
               THEN /\ waiting' = PopAt(waiting, cursor)
                    /\ metrics' = Append(metrics, Metric(id, miss, now))
                    /\ UNCHANGED cursor
               ELSE cursor' = cursor + 1 /\ UNCHANGED <<waiting, metrics>>
    BY <1>7 DEF Scan
  <2>2. miss \in Nat BY ReplayAssumption
  <2> DEFINE gone == Resident(IdList(metrics))
  <2>3. /\ running \in Seq(Nat) /\ metrics \in Seq(MetricRecord)
        /\ DOMAIN states = Resident(q) \cup Resident(running) \cup gone
        /\ Distinct(running) /\ Distinct(IdList(metrics))
        /\ Resident(q) \cap Resident(running) = {}
        /\ Resident(q) \cap gone = {}
        /\ Resident(running) \cap gone = {}
        /\ InArrivalOrder(q, states)
    BY <1>1 DEF PlacesOf
  <2>4. /\ states \in [DOMAIN states -> StateEntry]
        /\ lookups \in [DOMAIN lookups -> LookupEntry]
        /\ \A i \in DOMAIN lookups : i \in DOMAIN states /\ lookups[i].seq = states[i].seq
        /\ Resident(running) \subseteq DOMAIN lookups
        /\ \A i \in DOMAIN lookups \ gone : states[i].left > 0
        /\ \A k \in DOMAIN metrics :
              metrics[k].instance = current /\ metrics[k].seq = states[metrics[k].id].seq
    BY <1>1 DEF EntriesOf
  <2> HIDE DEF id, gone
  <2>5. id \in DOMAIN states /\ id \notin DOMAIN lookups /\ id \notin Resident(running) /\ id \notin gone
    BY <1>5, <1>7, <2>3, <2>4 DEF LookedUp
  <2>6. states[id] \in StateEntry BY <2>4, <2>5
  <2>7. /\ DOMAIN states' = DOMAIN states
        /\ states' \in [DOMAIN states -> StateEntry]
        /\ \A i \in DOMAIN states : states'[i].seq = states[i].seq
        /\ states'[id].left = miss
        /\ \A i \in DOMAIN states : i # id => states'[i] = states[i]
    BY <2>1, <2>2, <2>4, <2>5, <2>6 DEF StateEntry
  <2>8. /\ DOMAIN lookups' = DOMAIN lookups \cup {id}
        /\ lookups'[id].seq = states[id].seq
        /\ \A i \in DOMAIN lookups : lookups'[i] = lookups[i]
    BY <2>1, <2>5 DEF Put
  <2>9. lookups' \in [DOMAIN lookups' -> LookupEntry]
    <3>1. lookups' = [i \in DOMAIN lookups' |-> lookups'[i]] BY <2>1 DEF Put
    <3>2. lookups'[id] \in LookupEntry
      BY <2>1, <2>2, <2>6 DEF Put, LookupEntry, StateEntry
    <3>3. \A i \in DOMAIN lookups' : lookups'[i] \in LookupEntry BY <2>4, <2>8, <3>2
    <3> QED BY <3>1, <3>3
  <2>10. Origins' BY <1>1, <1>2, <2>7 DEF Origins
  <2>11. InArrivalOrder(q, states')
    <3>1. \A i \in Resident(q) : states'[i].seq = states[i].seq BY <2>3, <2>7
    <3> QED BY <2>3, <3>1, OrderSame
  <2>12. \A k \in DOMAIN metrics : metrics[k].id \in gone
    <3>1. \A k \in DOMAIN metrics : metrics[k].id \in Ids(metrics) BY DEF Ids
    <3> QED BY <2>3, <3>1, IdListProperties DEF gone
  <2>13. \A k \in DOMAIN metrics :
            metrics[k].instance = current /\ metrics[k].seq = states'[metrics[k].id].seq
    BY <2>3, <2>4, <2>7, <2>12
  <2>14. CASE miss # 0
    <3>1. cursor' = cursor + 1 /\ UNCHANGED <<waiting, metrics>> BY <2>1, <2>14
    <3>2. PlacesOf(q, running, metrics, states')
      BY <1>3, <2>3, <2>7, <2>11 DEF PlacesOf, gone
    <3>3. EntriesOf(running, metrics, states', lookups', current)
      <4>1. \A i \in DOMAIN lookups' \ gone : states'[i].left > 0
        BY <2>2, <2>4, <2>7, <2>8, <2>14
      <4>2. \A i \in DOMAIN lookups' : i \in DOMAIN states' /\ lookups'[i].seq = states'[i].seq
        BY <2>4, <2>5, <2>7, <2>8
      <4>3. Resident(running) \subseteq DOMAIN lookups' BY <2>4, <2>8
      <4> QED BY <2>7, <2>9, <2>13, <4>1, <4>2, <4>3 DEF EntriesOf, gone
    <3>4. /\ PlacesOf(Contents(waiting)', running', metrics', states')
          /\ EntriesOf(running', metrics', states', lookups', current')
      BY <1>2, <3>1, <3>2, <3>3 DEF q
    <3> QED BY <1>1, <1>2, <1>4, <2>10, <3>1, <3>4 DEF LiveInv
  <2>15. CASE miss = 0
    <3> DEFINE m == Metric(id, miss, now)
               t == RemoveAt(q, cursor)
    <3>1. waiting' = PopAt(waiting, cursor) /\ metrics' = Append(metrics, m) /\ UNCHANGED cursor
      BY <2>1, <2>15
    <3>2. /\ m \in MetricRecord /\ m.id = id /\ m.instance = current /\ m.seq = states[id].seq
          /\ id \in Nat
      BY <1>1, <2>2, <2>5, MetricType
    <3>3. waiting' \in Queues(Nat) /\ Contents(waiting') = t
      BY <1>1, <1>4, <3>1, PopAtTakesIndex DEF q
    <3>4. t \in Seq(Nat) /\ InArrivalOrder(t, states')
      BY <1>3, <1>4, <2>11, RemoveAtProperties, OrderRemove
    <3>5. Resident(t) = Resident(q) \ {id}
      <4>1. \A i \in Resident(q) : states[i].seq \in Nat BY <2>3, <2>4 DEF StateEntry
      <4>2. Distinct(q) BY <1>3, <2>3, <4>1, OrderDistinct
      <4>3. q[cursor] = id BY <1>5 DEF id
      <4> QED BY <1>3, <1>4, <4>2, <4>3, DistinctRemove
    <3> HIDE DEF m, t
    <3>6. metrics' \in Seq(MetricRecord) /\ IdList(metrics') = Append(IdList(metrics), id)
      BY <2>3, <3>1, <3>2, IdListAppend
    <3>7. Distinct(IdList(metrics')) /\ Resident(IdList(metrics')) = gone \cup {id}
      <4>1. IdList(metrics) \in Seq(Nat) BY <2>3, IdListProperties
      <4> QED BY <2>3, <2>5, <3>2, <3>6, <4>1, AppendDistinct DEF gone
    <3>8. DOMAIN states' = Resident(t) \cup Resident(running) \cup Resident(IdList(metrics'))
      BY <1>5, <2>3, <2>7, <3>5, <3>7 DEF id
    <3>9. PlacesOf(t, running, metrics', states')
      <4>1. /\ Resident(t) \cap Resident(running) = {}
            /\ Resident(t) \cap Resident(IdList(metrics')) = {}
            /\ Resident(running) \cap Resident(IdList(metrics')) = {}
        BY <2>3, <2>5, <3>5, <3>7
      <4> QED BY <2>3, <3>4, <3>6, <3>7, <3>8, <4>1 DEF PlacesOf
    <3>10. EntriesOf(running, metrics', states', lookups', current)
      <4>1. \A i \in DOMAIN lookups' \ Resident(IdList(metrics')) : states'[i].left > 0
        BY <2>4, <2>7, <2>8, <3>7
      <4>2. \A i \in DOMAIN lookups' : i \in DOMAIN states' /\ lookups'[i].seq = states'[i].seq
        BY <2>4, <2>5, <2>7, <2>8
      <4>3. Resident(running) \subseteq DOMAIN lookups' BY <2>4, <2>8
      <4>4. \A k \in DOMAIN metrics' :
               metrics'[k].instance = current /\ metrics'[k].seq = states'[metrics'[k].id].seq
        <5>1. PICK n \in Nat : n = Len(metrics) BY <2>3
        <5>2. /\ DOMAIN metrics' = 1..(n + 1) /\ DOMAIN metrics = 1..n
              /\ \A k \in 1..n : metrics'[k] = metrics[k]
              /\ metrics'[n + 1] = m
          BY <2>3, <3>1, <3>2, <5>1, AppendProperties
        <5>3. \A k \in 1..(n + 1) : k \in 1..n \/ k = n + 1 BY <5>1
        <5>4. m.seq = states'[m.id].seq BY <2>5, <2>7, <3>2
        <5> QED BY <2>13, <3>2, <5>2, <5>3, <5>4
      <4> QED BY <2>7, <2>9, <4>1, <4>2, <4>3, <4>4 DEF EntriesOf
    <3>11. /\ PlacesOf(Contents(waiting)', running', metrics', states')
           /\ EntriesOf(running', metrics', states', lookups', current')
      BY <1>2, <3>3, <3>9, <3>10
    <3> QED BY <1>1, <1>2, <2>10, <3>1, <3>3, <3>11 DEF LiveInv
  <2> QED BY <2>14, <2>15
<1> QED BY <1>6, <1>7

LEMMA ReportLive ==
    ASSUME IInv, ReadsOwnShard, LiveInv, ReportFrontier
    PROVE  LiveInv'
<1> DEFINE q == Contents(waiting)
<1>1. /\ stage = "report" /\ Emit(metrics, states, <<>>) /\ metrics' = <<>>
      /\ UNCHANGED <<current, source, popped, waiting, running, cursor>>
  BY DEF ReportFrontier
<1>2. states' = Forget(states, metrics) /\ lookups' = Forget(lookups, metrics)
  BY <1>1 DEF Emit
<1>3. /\ waiting \in Queues(Nat)
      /\ cursor \in Nat \ {0} /\ current \in Nat /\ popped \in Nat /\ now \in Nat
      /\ PlacesOf(q, running, metrics, states)
      /\ EntriesOf(running, metrics, states, lookups, current)
      /\ Origins
  BY DEF LiveInv
<1>4. now' \in Nat
  <2>1. CASE Exhausted /\ NoWork
    BY <1>3, <2>1 DEF ReportFrontier, Jump
  <2>2. CASE ~NoWork
    BY <1>3, <2>2 DEF ReportFrontier
  <2>3. CASE ~Exhausted /\ NoWork
    <3>1. Peeked.time \in Nat BY <1>1, <2>3, PeekedRecord DEF LiveStages
    <3>2. now' = IF Peeked.time > now THEN Peeked.time ELSE now
      BY <2>3 DEF ReportFrontier, Jump
    <3> QED BY <1>3, <3>1, <3>2
  <2> QED BY <2>1, <2>2, <2>3
<1> HIDE DEF q
<1>5. /\ PlacesOf(q, running, <<>>, states') /\ EntriesOf(running, <<>>, states', lookups', current)
      /\ DOMAIN states' \subseteq DOMAIN states
      /\ \A id \in DOMAIN states' : states'[id] = states[id]
  <2>1. PlacesOf(q, running, <<>>, states') /\ EntriesOf(running, <<>>, states', lookups', current)
    BY <1>2, <1>3, ForgetKeeps
  <2>2. metrics \in Seq(MetricRecord) BY <1>3 DEF PlacesOf
  <2> QED BY <1>2, <2>1, <2>2, ForgetOnly
<1>6. Origins' BY <1>1, <1>3, <1>5 DEF Origins
<1>7. /\ PlacesOf(Contents(waiting)', running', metrics', states')
      /\ EntriesOf(running', metrics', states', lookups', current')
  BY <1>1, <1>5 DEF q
<1> QED BY <1>1, <1>3, <1>4, <1>6, <1>7 DEF LiveInv

\* The parts of Iterate, for r running and k waiting requests.
Admitted(k)      == SubSeq(Contents(waiting), 1, k)
BatchOf(r, k)    == SubSeq(running, 1, r) \o Admitted(k)
FinishedOf(r, k) == Keep(BatchOf(r, k), {id \in DOMAIN states : Advanced(BatchOf(r, k))[id].left = 0})
RunningOf(r, k)  == Keep(running \o Admitted(k),
                         {id \in DOMAIN states : Advanced(BatchOf(r, k))[id].left > 0})
ResultsOf(r, k, finish) ==
    [n \in DOMAIN FinishedOf(r, k) |->
        Metric(FinishedOf(r, k)[n], lookups[FinishedOf(r, k)[n]].miss, finish)]

\* The request of a slice is advanced by it, any other is not.
LEMMA AdvancedOnce ==
    ASSUME EntriesOf(running, metrics, states, lookups, current), NEW batch \in Seq(Nat),
           Resident(batch) \subseteq DOMAIN states,
           \A id \in Resident(batch) : states[id].left > 0
    PROVE  /\ Advanced(batch) \in [DOMAIN states -> StateEntry]
           /\ \A id \in DOMAIN states :
                  /\ Advanced(batch)[id].seq = states[id].seq
                  /\ Advanced(batch)[id].left = IF id \in Resident(batch) THEN states[id].left - 1
                                                ELSE states[id].left
<1> DEFINE in(id) == \E n \in DOMAIN batch : batch[n] = id
<1>1. \A id : in(id) <=> id \in Resident(batch) BY DEF Resident
<1> HIDE DEF in
<1>2. Advanced(batch) = [id \in DOMAIN states |->
          IF in(id) THEN [states[id] EXCEPT !.left = @ - 1] ELSE states[id]]
  BY DEF Advanced, in
<1>3. ASSUME NEW id \in DOMAIN states
      PROVE  /\ Advanced(batch)[id] \in StateEntry
             /\ Advanced(batch)[id].seq = states[id].seq
             /\ Advanced(batch)[id].left = IF id \in Resident(batch) THEN states[id].left - 1
                                           ELSE states[id].left
  <2>1. states[id] \in StateEntry BY DEF EntriesOf
  <2>2. CASE in(id)
    <3>1. states[id].left > 0 /\ id \in Resident(batch) BY <1>1, <2>2
    <3>2. Advanced(batch)[id] = [states[id] EXCEPT !.left = @ - 1] BY <1>2, <2>2
    <3> QED BY <2>1, <3>1, <3>2 DEF StateEntry
  <2>3. CASE ~in(id)
    <3>1. Advanced(batch)[id] = states[id] /\ id \notin Resident(batch) BY <1>1, <1>2, <2>3
    <3> QED BY <2>1, <3>1
  <2> QED BY <2>2, <2>3
<1> QED BY <1>2, <1>3

\* After an iteration every request that took part is running or finished.
LEMMA IterateParts ==
    ASSUME LiveInv, metrics = <<>>,
           NEW r \in 0..Len(running), NEW k \in 0..QueueLen(waiting),
           \A j \in 1..k : LookedUp(At(waiting, j)), NEW finish \in Nat
    PROVE  LET q   == SubSeq(Contents(waiting), k + 1, Len(Contents(waiting)))
               ms  == ResultsOf(r, k, finish)
               sts == Advanced(BatchOf(r, k))
           IN  /\ PlacesOf(q, RunningOf(r, k), ms, sts)
               /\ EntriesOf(RunningOf(r, k), ms, sts, lookups, current)
               /\ DOMAIN sts = DOMAIN states
               /\ \A id \in DOMAIN states : sts[id].seq = states[id].seq
<1> DEFINE c == Contents(waiting)
           a == Admitted(k)
           q == SubSeq(c, k + 1, Len(c))
           p == SubSeq(running, 1, r)
           b == BatchOf(r, k)
           sts == Advanced(b)
           f == FinishedOf(r, k)
           run == RunningOf(r, k)
           ms == ResultsOf(r, k, finish)
<1>1. /\ waiting \in Queues(Nat)
      /\ PlacesOf(c, running, metrics, states)
      /\ EntriesOf(running, metrics, states, lookups, current)
  BY DEF LiveInv
<1>2. /\ c \in Seq(Nat) /\ Len(c) = QueueLen(waiting)
      /\ \A i \in 1..QueueLen(waiting) : At(waiting, i) = c[i]
  BY <1>1, ContentsProperties
<1>3. /\ running \in Seq(Nat) /\ Distinct(running)
      /\ DOMAIN states = Resident(c) \cup Resident(running)
      /\ Resident(c) \cap Resident(running) = {}
      /\ InArrivalOrder(c, states)
  BY <1>1, NoIds DEF PlacesOf
<1>4. /\ states \in [DOMAIN states -> StateEntry]
      /\ lookups \in [DOMAIN lookups -> LookupEntry]
      /\ \A id \in DOMAIN lookups : id \in DOMAIN states /\ lookups[id].seq = states[id].seq
      /\ Resident(running) \subseteq DOMAIN lookups
      /\ \A id \in DOMAIN lookups : states[id].left > 0
  BY <1>1, NoIds DEF EntriesOf
<1>5. Distinct(c)
  <2>1. \A id \in Resident(c) : states[id].seq \in Nat BY <1>3, <1>4 DEF StateEntry
  <2> QED BY <1>2, <1>3, <2>1, OrderDistinct
<1>6. k \in 0..Len(c) BY <1>2
<1> HIDE DEF c
<1>7. /\ a \in Seq(Nat) /\ q \in Seq(Nat) /\ Len(a) = k
      /\ \A i \in 1..k : a[i] = c[i]
      /\ Resident(c) = Resident(a) \cup Resident(q)
      /\ Distinct(a) /\ Distinct(q) /\ Resident(a) \cap Resident(q) = {}
  BY <1>2, <1>5, <1>6, SplitList DEF Admitted, c
<1>8. /\ p \in Seq(Nat) /\ Resident(p) \subseteq Resident(running) /\ Distinct(p)
  <2>1. /\ p \in Seq(Nat)
        /\ Resident(running) = Resident(p) \cup Resident(SubSeq(running, r + 1, Len(running)))
        /\ Distinct(p)
    BY <1>3, SplitList
  <2> QED BY <2>1
<1>9. InArrivalOrder(q, states) BY <1>2, <1>3, <1>6, OrderRest
<1>10. b = p \o a BY DEF BatchOf
<1> HIDE DEF a, q, p, b
<1>11. Resident(a) \subseteq DOMAIN lookups
  <2>1. DOMAIN a = 1..k BY <1>7
  <2>2. \A i \in 1..k : LookedUp(a[i])
    <3>1. \A i \in 1..k : i \in 1..QueueLen(waiting) BY <1>2, <1>6
    <3> QED BY <1>2, <1>7, <3>1
  <2> QED BY <2>1, <2>2 DEF Resident, LookedUp
<1>12. b \in Seq(Nat) /\ Resident(b) = Resident(p) \cup Resident(a) /\ Distinct(b)
  <2>1. Resident(p) \cap Resident(a) = {} BY <1>3, <1>7, <1>8
  <2>2. p \o a \in Seq(Nat) BY <1>7, <1>8
  <2>3. Resident(p \o a) = Resident(p) \cup Resident(a) BY <1>7, <1>8, ResidentConcat
  <2>4. Distinct(p \o a) BY <1>7, <1>8, <2>1, DistinctConcat
  <2> QED BY <1>10, <2>2, <2>3, <2>4
<1>13. PICK all \in Seq(Nat) : all = running \o a
  <2>1. running \o a \in Seq(Nat) BY <1>3, <1>7
  <2> QED BY <2>1
<1>14. Resident(all) = Resident(running) \cup Resident(a) /\ Distinct(all)
  <2>1. Resident(running) \cap Resident(a) = {} BY <1>3, <1>7
  <2>2. Resident(running \o a) = Resident(running) \cup Resident(a) BY <1>3, <1>7, ResidentConcat
  <2>3. Distinct(running \o a) BY <1>3, <1>7, <2>1, DistinctConcat
  <2> QED BY <1>13, <2>2, <2>3
<1>15. Resident(b) \subseteq Resident(all) /\ Resident(all) \subseteq DOMAIN lookups
       /\ Resident(all) \subseteq DOMAIN states
  BY <1>4, <1>8, <1>11, <1>12, <1>14
<1>16. \A id \in Resident(all) : states[id].left > 0 BY <1>4, <1>15
<1>17. /\ sts \in [DOMAIN states -> StateEntry]
       /\ \A id \in DOMAIN states :
             /\ sts[id].seq = states[id].seq
             /\ sts[id].left = IF id \in Resident(b) THEN states[id].left - 1 ELSE states[id].left
  BY <1>1, <1>12, <1>15, <1>16, AdvancedOnce
<1> DEFINE F == {id \in DOMAIN states : sts[id].left = 0}
           G == {id \in DOMAIN states : sts[id].left > 0}
<1>18. f = Keep(b, F) /\ run = Keep(all, G)
  BY <1>13 DEF FinishedOf, RunningOf, a, b
<1> HIDE DEF sts, f, run
<1>19. /\ f \in Seq(Nat) /\ Resident(f) = Resident(b) \cap F /\ Distinct(f)
       /\ run \in Seq(Nat) /\ Resident(run) = Resident(all) \cap G /\ Distinct(run)
  BY <1>12, <1>14, <1>18, KeepMembers, DistinctKeep
<1>20. Resident(all) = Resident(run) \cup Resident(f) /\ Resident(run) \cap Resident(f) = {}
  <2>1. F \cap G = {} OBVIOUS
  <2>2. ASSUME NEW id \in Resident(all) PROVE id \in Resident(run) \cup Resident(f)
    <3>1. id \in DOMAIN states /\ states[id].left > 0 /\ states[id] \in StateEntry
      BY <1>4, <1>15, <1>16
    <3>2. sts[id] \in StateEntry BY <1>17, <3>1
    <3>3. CASE id \in Resident(b)
      <4>1. sts[id].left = 0 \/ sts[id].left > 0 BY <3>2 DEF StateEntry
      <4> QED BY <1>19, <3>1, <3>3, <4>1
    <3>4. CASE id \notin Resident(b)
      BY <1>17, <1>19, <3>1, <3>4
    <3> QED BY <3>3, <3>4
  <2>3. Resident(run) \subseteq Resident(all) /\ Resident(f) \subseteq Resident(all)
    BY <1>15, <1>19
  <2> HIDE DEF F, G
  <2> QED BY <1>19, <2>1, <2>2, <2>3
<1>21. /\ ms \in Seq(MetricRecord) /\ IdList(ms) = f
       /\ \A n \in DOMAIN ms : ms[n].instance = current /\ ms[n].seq = sts[ms[n].id].seq
  <2>1. PICK l \in Nat : l = Len(f)
    <3>1. Len(f) \in Nat BY <1>19
    <3> QED BY <3>1
  <2>2. DOMAIN f = 1..l /\ \A n \in 1..l : f[n] \in Resident(f) BY <1>19, <2>1 DEF Resident
  <2>3. DOMAIN ms = 1..l /\ \A n \in 1..l : ms[n] = Metric(f[n], lookups[f[n]].miss, finish)
    BY <2>2 DEF ResultsOf, f
  <2>4. ms = [n \in 1..l |-> ms[n]]
    BY <2>2 DEF ResultsOf, f
  <2> HIDE DEF ms
  <2>5. ASSUME NEW n \in 1..l
        PROVE  /\ ms[n] \in MetricRecord /\ ms[n].id = f[n] /\ ms[n].instance = current
               /\ ms[n].seq = states[f[n]].seq /\ f[n] \in DOMAIN states
    <3>1. f[n] \in DOMAIN states /\ f[n] \in DOMAIN lookups
      BY <1>15, <1>20, <2>2
    <3>2. lookups[f[n]].miss \in Nat BY <1>4, <3>1 DEF LookupEntry
    <3> QED BY <2>3, <3>1, <3>2, MetricType
  <2>6. ms \in Seq(MetricRecord) /\ Len(ms) = l
    BY <2>1, <2>4, <2>5
  <2>7. IdList(ms) = f
    <3>1. IdList(ms) \in Seq(Nat) /\ Len(IdList(ms)) = l BY <2>6, IdListProperties
    <3>2. \A n \in 1..l : IdList(ms)[n] = f[n] BY <2>5, <2>6 DEF IdList
    <3> QED BY <1>19, <2>1, <3>1, <3>2, SeqEqual
  <2> QED BY <1>17, <2>3, <2>5, <2>6, <2>7
<1> HIDE DEF ms, F, G
<1>22. DOMAIN sts = DOMAIN states BY <1>17
<1>23. InArrivalOrder(q, sts)
  <2>1. \A id \in Resident(q) : sts[id].seq = states[id].seq BY <1>3, <1>7, <1>17
  <2> QED BY <1>9, <2>1, OrderSame
<1>24. PlacesOf(q, run, ms, sts)
  <2>1. DOMAIN sts = Resident(q) \cup Resident(run) \cup Resident(f)
    BY <1>3, <1>7, <1>14, <1>20, <1>22
  <2>2. Resident(q) \cap Resident(all) = {} BY <1>3, <1>7, <1>14
  <2> QED BY <1>7, <1>19, <1>20, <1>21, <1>23, <2>1, <2>2 DEF PlacesOf
<1>25. EntriesOf(run, ms, sts, lookups, current)
  <2>1. \A id \in DOMAIN lookups : id \in DOMAIN sts /\ lookups[id].seq = sts[id].seq
    BY <1>4, <1>17, <1>22
  <2>2. Resident(run) \subseteq DOMAIN lookups BY <1>15, <1>20
  <2>3. ASSUME NEW id \in DOMAIN lookups \ Resident(f) PROVE sts[id].left > 0
    <3>1. id \in DOMAIN states /\ states[id].left > 0 BY <1>4
    <3>2. sts[id] \in StateEntry BY <1>17, <3>1
    <3>3. CASE id \in Resident(b)
      <4>1. id \notin F BY <1>19, <3>3
      <4> QED BY <3>1, <3>2, <4>1 DEF F, StateEntry
    <3>4. CASE id \notin Resident(b) BY <1>17, <3>1, <3>4
    <3> QED BY <3>3, <3>4
  <2> QED BY <1>4, <1>17, <1>21, <1>22, <2>1, <2>2, <2>3 DEF EntriesOf
<1> QED BY <1>17, <1>22, <1>24, <1>25 DEF q, run, ms, sts, b, c

LEMMA ScheduleLive ==
    ASSUME LiveInv, metrics = <<>>, Schedule
    PROVE  LiveInv'
<1>1. PICK b \in Batches, d \in Durations : Iterate(b[1], b[2], now + d) /\ now' = now + d
  BY DEF Schedule
<1>2. UNCHANGED <<current, source, popped, cursor, metrics>> BY DEF Schedule
<1>3. /\ waiting \in Queues(Nat)
      /\ cursor \in Nat \ {0} /\ current \in Nat /\ popped \in Nat /\ now \in Nat
      /\ Origins
  BY DEF LiveInv
<1>4. PICK r \in 0..Len(running), k \in 0..QueueLen(waiting) : r = b[1] /\ k = b[2]
  <2>1. b[1] \in 0..Len(running) /\ b[2] \in 0..QueueLen(waiting) BY DEF Batches
  <2> QED BY <2>1
<1>5. \A j \in 1..k : LookedUp(At(waiting, j)) BY <1>4 DEF Batches
<1>6. PICK finish \in Nat : finish = now + d
  <2>1. now + d \in Nat BY <1>3, ReplayAssumption
  <2> QED BY <2>1
<1> DEFINE c == Contents(waiting)
           q == SubSeq(c, k + 1, Len(c))
           ms == ResultsOf(r, k, finish)
           sts == Advanced(BatchOf(r, k))
<1>7. Iterate(r, k, finish) BY <1>1, <1>4, <1>6
<1>8. /\ waiting' = PopLeftTimes(waiting, k) /\ running' = RunningOf(r, k)
      /\ Emit(ms, sts, <<IterationMetric(r + k, finish)>>)
  BY <1>7 DEF Iterate, RunningOf, ResultsOf, FinishedOf, BatchOf, Admitted
<1>9. states' = Forget(sts, ms) /\ lookups' = Forget(lookups, ms) BY <1>8 DEF Emit
<1>10. waiting' \in Queues(Nat) /\ Contents(waiting') = q
  BY <1>3, <1>8, PopLeftTimesDrops
<1>11. /\ PlacesOf(q, running', ms, sts) /\ EntriesOf(running', ms, sts, lookups, current)
       /\ DOMAIN sts = DOMAIN states
       /\ \A id \in DOMAIN states : sts[id].seq = states[id].seq
  BY <1>5, <1>8, IterateParts
<1> HIDE DEF q, ms, sts
<1>12. PlacesOf(q, running', <<>>, states') /\ EntriesOf(running', <<>>, states', lookups', current)
  BY <1>9, <1>11, ForgetKeeps
<1>13. /\ DOMAIN states' \subseteq DOMAIN states
       /\ \A id \in DOMAIN states' : states'[id].seq = states[id].seq
  <2>1. ms \in Seq(MetricRecord) BY <1>11 DEF PlacesOf
  <2>2. /\ DOMAIN states' = DOMAIN sts \ Resident(IdList(ms))
        /\ \A id \in DOMAIN states' : states'[id] = sts[id]
    BY <1>9, <2>1, ForgetOnly
  <2> QED BY <1>11, <2>2
<1>14. Origins' BY <1>2, <1>3, <1>13 DEF Origins
<1>15. /\ PlacesOf(Contents(waiting)', running', metrics', states')
       /\ EntriesOf(running', metrics', states', lookups', current')
  BY <1>2, <1>10, <1>12
<1> QED BY <1>1, <1>2, <1>3, <1>6, <1>10, <1>14, <1>15 DEF LiveInv

\* A replay begins with nothing in it.
LEMMA EmptyParts ==
    ASSUME NEW instance
    PROVE  /\ EmptyQueue \in Queues(Nat)
           /\ PlacesOf(Contents(EmptyQueue), <<>>, <<>>, <<>>)
           /\ EntriesOf(<<>>, <<>>, <<>>, <<>>, instance)
<1>1. EmptyQueue \in Queues(Nat) /\ Contents(EmptyQueue) = <<>>
  <2>1. EmptyQueue \in Queues(Nat) BY DEF EmptyQueue, Queues
  <2>2. QueueLen(EmptyQueue) = 0 BY DEF EmptyQueue, QueueLen
  <2>3. Contents(EmptyQueue) \in Seq(Nat) /\ Len(Contents(EmptyQueue)) = 0
    BY <2>1, <2>2, ContentsProperties
  <2> QED BY <2>1, <2>3
<1>2. (\A n \in DOMAIN <<>> : FALSE) /\ <<>> \in Seq(Nat) /\ <<>> \in Seq(MetricRecord)
  OBVIOUS
<1>3. Resident(<<>>) = {} /\ Distinct(<<>>) BY <1>2 DEF Resident, Distinct
<1>4. InArrivalOrder(<<>>, <<>>) BY <1>2 DEF InArrivalOrder
<1>5. PlacesOf(<<>>, <<>>, <<>>, <<>>)
  <2>1. DOMAIN <<>> = {} BY <1>2
  <2> QED BY <1>2, <1>3, <1>4, <2>1, NoIds DEF PlacesOf
<1>6. EntriesOf(<<>>, <<>>, <<>>, <<>>, instance)
  <2>1. <<>> \in [DOMAIN <<>> -> StateEntry] /\ <<>> \in [DOMAIN <<>> -> LookupEntry]
    OBVIOUS
  <2> QED BY <1>2, <1>3, <2>1 DEF EntriesOf
<1> QED BY <1>1, <1>5, <1>6

LEMMA EmptyLive ==
    ASSUME waiting' = EmptyQueue, running' = <<>>, states' = <<>>, lookups' = <<>>,
           metrics' = <<>>, cursor' = 1, current' \in Nat, popped' = 0, now' \in Nat
    PROVE  LiveInv'
<1>1. /\ waiting' \in Queues(Nat)
      /\ PlacesOf(Contents(waiting)', running', metrics', states')
      /\ EntriesOf(running', metrics', states', lookups', current')
  BY EmptyParts
<1>2. Origins'
  <2>1. \A id \in DOMAIN states' : FALSE OBVIOUS
  <2> QED BY <2>1 DEF Origins
<1> QED BY <1>1, <1>2 DEF LiveInv

-----------------------------------------------------------------------------
(* The order of the steps of a sweep.                                        *)

\* Metrics wait to be reported only before they are; a replay returns when there
\* is nothing left to do; it is that of an instance whose turn it is.
StageInv ==
    /\ sweep \in {"build", "replay", "rows", "done"}
    /\ stage \in LiveStages \cup {"idle", "duplicate_active_request"}
    /\ stage # "idle" => sweep = "replay" /\ current \in todo
    /\ sweep \in {"rows", "done"} => todo = {}
    /\ metrics # <<>> => stage \in {"frontier", "report"}
    /\ stage = "returned" => Exhausted /\ NoWork

LEMMA LiveSame ==
    ASSUME LiveInv, cursor' \in Nat \ {0}, now' \in Nat,
           UNCHANGED <<waiting, current, popped, running, metrics, states, lookups, source>>
    PROVE  LiveInv'
<1>1. UNCHANGED Contents(waiting) OBVIOUS
<1> QED BY <1>1 DEF LiveInv, Origins

LEMMA ArrivalsDoneLive ==
    ASSUME IInv, ReadsOwnShard, LiveInv, ArrivalsDone
    PROVE  LiveInv'
<1>1. /\ stage = "arrive" /\ cursor' = 1
      /\ UNCHANGED <<waiting, current, popped, running, metrics, states, lookups, source>>
  BY DEF ArrivalsDone
<1>2. now \in Nat BY DEF LiveInv
<1>3. now' \in Nat
  <2>1. CASE ~NoWork BY <1>2, <2>1 DEF ArrivalsDone
  <2>2. CASE NoWork /\ Exhausted BY <1>2, <2>2 DEF ArrivalsDone, Jump
  <2>3. CASE NoWork /\ ~Exhausted
    <3>1. Peeked.time \in Nat BY <1>1, <2>3, PeekedRecord DEF LiveStages
    <3>2. now' = Peeked.time BY <2>3 DEF ArrivalsDone, Jump
    <3> QED BY <3>1, <3>2
  <2> QED BY <2>1, <2>2, <2>3
<1> QED BY <1>1, <1>3, LiveSame

LEMMA BeginLive ==
    ASSUME IInv, SweepInv, BeginShard
    PROVE  LiveInv'
<1>1. PICK i \in todo : BeginStream(i, shard[i]) BY DEF BeginShard
<1>2. i \in Instances /\ i \in Nat BY InstancesAssumption DEF SweepInv
<1>3. shard[i] \in Seq(Record)
  <2>1. shard \in [Instances -> Seq(Record)] BY Zenon DEF IInv, BuildTypeOK
  <2> QED BY <1>2, <2>1
<1>4. now' \in Nat
  <2>1. CASE shard[i] = <<>> BY <1>1, <2>1 DEF BeginStream
  <2>2. CASE shard[i] # <<>>
    <3>1. shard[i][1] \in Record BY <1>3, <2>2, EmptySeq, LenProperties, ElementOfSeq
    <3>2. shard[i][1].time \in Nat BY <3>1, RecordFields
    <3> QED BY <1>1, <2>2, <3>2 DEF BeginStream
  <2> QED BY <2>1, <2>2
<1> QED BY <1>1, <1>2, <1>4, EmptyLive DEF BeginStream

LEMMA LiveStep ==
    ASSUME IInv, SweepInv, StageInv, LiveInv, [Next]_vars
    PROVE  LiveInv'
<1>1. ReadsOwnShard /\ cursor \in Nat \ {0} /\ now \in Nat BY DEF SweepInv, LiveInv
<1>2. CASE BeginShard BY <1>2, BeginLive
<1>3. CASE Replay
  <2>1. CASE Arrive BY <1>1, <2>1, ArriveLive
  <2>2. CASE ArrivalsDone BY <1>1, <2>2, ArrivalsDoneLive
  <2>3. CASE Scan BY <2>3, ScanLive
  <2>4. CASE FrontierDone
    <3>1. UNCHANGED <<waiting, current, popped, running, metrics, states, lookups, source,
                      cursor, now>>
      BY <2>4 DEF FrontierDone
    <3> QED BY <1>1, <3>1, LiveSame
  <2>5. CASE ReportFrontier BY <1>1, <2>5, ReportLive
  <2>6. CASE Schedule
    <3>1. metrics = <<>> BY <2>6 DEF StageInv, Schedule
    <3> QED BY <2>6, <3>1, ScheduleLive
  <2> QED BY <1>3, <2>1, <2>2, <2>3, <2>4, <2>5, <2>6 DEF Replay, ReplayNext
<1>4. CASE ~BeginShard /\ ~Replay
  <2>1. UNCHANGED <<waiting, current, popped, running, metrics, states, lookups, source,
                    cursor, now>>
    BY <1>4 DEF Next, vars, replayVars, Build, BeginCapacity, EndShard, EndCapacity
  <2> QED BY <1>1, <2>1, LiveSame
<1> QED BY <1>2, <1>3, <1>4

LEMMA StageReplay ==
    ASSUME StageInv, SweepInv, LiveInv, IInv, Replay
    PROVE  StageInv'
<1>1. /\ sweep = "replay" /\ UNCHANGED <<sweep, todo>> /\ ReplayNext
  BY DEF Replay, sweepVars
<1>2. stage \in LiveStages /\ stage # "idle" /\ stage # "returned" /\ UNCHANGED <<current, source>>
  BY <1>1 DEF ReplayNext, Arrive, ArrivalsDone, Scan, FrontierDone, ReportFrontier, Schedule,
              LiveStages
<1>3. current' \in todo' /\ sweep' = "replay" BY <1>1, <1>2 DEF StageInv
<1>4. SUFFICES /\ stage' \in LiveStages \cup {"duplicate_active_request"}
               /\ metrics' # <<>> => stage' \in {"frontier", "report"}
               /\ stage' = "returned" => Exhausted' /\ NoWork'
  BY <1>3 DEF StageInv, LiveStages
<1>5. CASE Arrive
  <2>1. stage = "arrive" /\ Due /\ UNCHANGED metrics BY <1>5 DEF Arrive
  <2>2. ArrivalError(Peeked) \in {"none", "duplicate_active_request"}
    BY <2>1, NextRequestPasses DEF SweepInv
  <2>3. stage' \in {"arrive", "duplicate_active_request"} BY <1>5, <2>1, <2>2 DEF Arrive
  <2>4. metrics' = <<>> BY <2>1 DEF StageInv
  <2> QED BY <2>3, <2>4 DEF LiveStages
<1>6. CASE ArrivalsDone
  <2>1. stage = "arrive" /\ UNCHANGED <<metrics, popped, waiting, running>> BY <1>6 DEF ArrivalsDone
  <2>2. metrics' = <<>> BY <2>1 DEF StageInv
  <2>3. UNCHANGED <<Exhausted, NoWork>> BY <1>2, <2>1 DEF Exhausted, NoWork
  <2>4. \/ stage' \in {"arrive", "frontier"}
        \/ stage' = "returned" /\ Exhausted /\ NoWork
    BY <1>6 DEF ArrivalsDone, Jump
  <2> QED BY <2>2, <2>3, <2>4 DEF LiveStages
<1>7. CASE Scan
  <2>1. stage' = "frontier" BY <1>7 DEF Scan
  <2> QED BY <2>1 DEF LiveStages
<1>8. CASE FrontierDone
  <2>1. stage' = "report" BY <1>8 DEF FrontierDone
  <2> QED BY <2>1 DEF LiveStages
<1>9. CASE ReportFrontier
  <2>1. metrics' = <<>> /\ UNCHANGED <<popped, waiting, running>> BY <1>9 DEF ReportFrontier
  <2>2. UNCHANGED <<Exhausted, NoWork>> BY <1>2, <2>1 DEF Exhausted, NoWork
  <2>3. \/ stage' \in {"arrive", "schedule"}
        \/ stage' = "returned" /\ Exhausted /\ NoWork
    BY <1>9 DEF ReportFrontier, Jump
  <2> QED BY <2>1, <2>2, <2>3 DEF LiveStages
<1>10. CASE Schedule
  <2>1. stage = "schedule" /\ stage' = "arrive" /\ UNCHANGED metrics BY <1>10 DEF Schedule
  <2>2. metrics' = <<>> BY <2>1 DEF StageInv
  <2> QED BY <2>1, <2>2 DEF LiveStages
<1> QED BY <1>1, <1>5, <1>6, <1>7, <1>8, <1>9, <1>10 DEF ReplayNext

-----------------------------------------------------------------------------
(* What was reported.                                                        *)

\* The sink was given the request at place n of the shard of i.
Given(i, n) ==
    \E k \in DOMAIN reported : reported[k].instance = i /\ reported[k].seq = n

\* Places of the requests that are active.
LivePlaces == {states[id].seq : id \in DOMAIN states}

\* A request of a shard that was replayed, or one of the shard that is being
\* replayed that came and is no longer active.
IsPast(i, n) ==
    \/ i \notin todo /\ n \in 1..Len(shard[i])
    \/ stage # "idle" /\ i = current /\ n \in 1..popped /\ n \notin LivePlaces

\* The requests of the past, and no others, were reported, each of them once.
ReportedOnce ==
    /\ reported \in Seq(MetricRecord)
    /\ \A k \in DOMAIN reported : reported[k].instance \in Instances
    /\ \A k, l \in DOMAIN reported :
           reported[k].instance = reported[l].instance /\ reported[k].seq = reported[l].seq => k = l

ReportedPast ==
    sweep # "build" /\ stage # "duplicate_active_request" =>
        \A i \in Instances, n \in Nat : Given(i, n) <=> IsPast(i, n)

EmittedCount ==
    /\ emitted \in Nat
    /\ stage \in LiveStages => emitted + Cardinality(DOMAIN states) = popped

\* Two requests of the shard have one id, and the first is active when the second
\* comes.
Overlap ==
    stage = "duplicate_active_request" =>
        \E m, n \in DOMAIN source :
            m < n /\ source[m].id = source[n].id /\ ~\E k \in DOMAIN reported :
                        reported[k].instance = current /\ reported[k].seq = m

ReportInv == ReportedOnce /\ ReportedPast /\ EmittedCount /\ Overlap

\* No two active requests have the same place.
LEMMA PlacesInjective ==
    ASSUME LiveInv
    PROVE  /\ \A a, b \in DOMAIN states : states[a].seq = states[b].seq => a = b
           /\ \A id \in DOMAIN states : states[id].seq \in 1..popped
           /\ LivePlaces \subseteq 1..popped
           /\ popped \in Nat
           /\ IsFiniteSet(DOMAIN states)
           /\ Cardinality(DOMAIN states) \in Nat
           /\ Cardinality(LivePlaces) = Cardinality(DOMAIN states)
<1>1. /\ popped \in Nat
      /\ \A id \in DOMAIN states : states[id].seq \in 1..popped /\ source[states[id].seq].id = id
      /\ PlacesOf(Contents(waiting), running, metrics, states)
  BY DEF LiveInv, Origins
<1>2. \A a, b \in DOMAIN states : states[a].seq = states[b].seq => a = b BY <1>1
<1>3. LivePlaces \subseteq 1..popped BY <1>1 DEF LivePlaces
<1>4. IsFiniteSet(DOMAIN states)
  <2>1. \A id \in DOMAIN states : states[id].seq \in Nat BY <1>1
  <2> QED BY <1>1, <2>1, LiveCount
<1>5. Cardinality(LivePlaces) = Cardinality(DOMAIN states)
  <2> DEFINE f == [id \in DOMAIN states |-> states[id].seq]
  <2>1. \A id \in DOMAIN states : f[id] = states[id].seq OBVIOUS
  <2>2. {f[id] : id \in DOMAIN states} = LivePlaces BY <2>1 DEF LivePlaces
  <2> HIDE DEF f
  <2>3. \A a, b \in DOMAIN states : f[a] = f[b] => a = b BY <1>2, <2>1
  <2>4. Cardinality({f[id] : id \in DOMAIN states}) = Cardinality(DOMAIN states)
    BY <1>4, <2>3, ImageCount
  <2> QED BY <2>2, <2>4
<1>6. Cardinality(DOMAIN states) \in Nat BY <1>4, FS_CardinalityType
<1> QED BY <1>1, <1>2, <1>3, <1>4, <1>5, <1>6

\* What is reported was active, and is not any more.
LEMMA EmitReports ==
    ASSUME LiveInv, ReportInv, stage \in LiveStages, stage' \in LiveStages,
           sweep = "replay", current \in todo, current \in Instances,
           NEW q, NEW run, NEW ms, NEW sts, NEW its, Emit(ms, sts, its),
           PlacesOf(q, run, ms, sts), EntriesOf(run, ms, sts, lookups, current),
           DOMAIN sts = DOMAIN states, \A id \in DOMAIN states : sts[id].seq = states[id].seq,
           UNCHANGED <<current, popped, source, todo, shard, sweep>>
    PROVE  ReportInv'
<1>1. /\ reported' = reported \o ms
      /\ emitted' = emitted + Len(ms)
      /\ states' = Forget(sts, ms)
  BY DEF Emit
<1> DEFINE gone == Resident(IdList(ms))
           Told(n) == \E k \in DOMAIN ms : ms[k].seq = n
<1>2. ms \in Seq(MetricRecord) /\ gone \subseteq DOMAIN states /\ Distinct(IdList(ms))
  BY DEF PlacesOf
<1>3. /\ \A k \in DOMAIN ms : ms[k].instance = current /\ ms[k].seq = sts[ms[k].id].seq
      /\ \A k \in DOMAIN ms : ms[k].id \in gone /\ IdList(ms)[k] = ms[k].id
      /\ \A id \in gone : \E k \in DOMAIN ms : ms[k].id = id
      /\ IdList(ms) \in Seq(Nat) /\ Len(IdList(ms)) = Len(ms)
      /\ DOMAIN ms = 1..Len(ms) /\ Len(ms) \in Nat
  <2>1. /\ IdList(ms) \in Seq(Nat) /\ Len(IdList(ms)) = Len(ms) /\ Ids(ms) = gone
        /\ \A k \in DOMAIN ms : IdList(ms)[k] = ms[k].id
    BY <1>2, IdListProperties
  <2>2. DOMAIN ms = 1..Len(ms) /\ Len(ms) \in Nat BY <1>2
  <2> HIDE DEF gone
  <2> QED BY <2>1, <2>2 DEF EntriesOf, Ids
<1>4. /\ DOMAIN states' = DOMAIN states \ gone
      /\ \A id \in DOMAIN states' : states'[id].seq = states[id].seq
  <2>1. /\ DOMAIN states' = DOMAIN sts \ gone
        /\ \A id \in DOMAIN states' : states'[id] = sts[id]
    BY <1>1, <1>2, ForgetOnly
  <2> QED BY <2>1
<1> HIDE DEF gone
<1>5. \A k \in DOMAIN ms : ms[k].seq = states[ms[k].id].seq /\ ms[k].id \in DOMAIN states
  BY <1>2, <1>3
<1>6. /\ \A a, b \in DOMAIN states : states[a].seq = states[b].seq => a = b
      /\ \A id \in DOMAIN states : states[id].seq \in 1..popped
      /\ popped \in Nat /\ IsFiniteSet(DOMAIN states) /\ Cardinality(DOMAIN states) \in Nat
  BY PlacesInjective
<1>7. \A k, l \in DOMAIN ms : ms[k].seq = ms[l].seq => k = l
  <2> SUFFICES ASSUME NEW k \in DOMAIN ms, NEW l \in DOMAIN ms, ms[k].seq = ms[l].seq
               PROVE  k = l
    OBVIOUS
  <2>1. ms[k].id = ms[l].id BY <1>5, <1>6
  <2>2. IdList(ms)[k] = IdList(ms)[l] /\ DOMAIN IdList(ms) = DOMAIN ms BY <1>3, <2>1
  <2> QED BY <1>2, <2>2 DEF Distinct
<1>8. \A n : Told(n) <=> n \in LivePlaces /\ n \notin LivePlaces'
  <2>1. ASSUME NEW n, Told(n) PROVE n \in LivePlaces /\ n \notin LivePlaces'
    <3>1. PICK k \in DOMAIN ms : ms[k].seq = n BY <2>1
    <3>2. n = states[ms[k].id].seq /\ ms[k].id \in DOMAIN states /\ ms[k].id \in gone
      BY <1>3, <1>5, <3>1
    <3>3. ASSUME NEW id \in DOMAIN states', states'[id].seq = n PROVE FALSE
      <4>1. id \in DOMAIN states /\ id \notin gone /\ states[id].seq = n BY <1>4, <3>3
      <4> QED BY <1>6, <3>2, <4>1
    <3> QED BY <3>2, <3>3 DEF LivePlaces
  <2>2. ASSUME NEW n, n \in LivePlaces, n \notin LivePlaces' PROVE Told(n)
    <3>1. PICK id \in DOMAIN states : states[id].seq = n BY <2>2 DEF LivePlaces
    <3>2. id \notin DOMAIN states' BY <1>4, <2>2, <3>1 DEF LivePlaces
    <3>3. PICK k \in DOMAIN ms : ms[k].id = id BY <1>3, <1>4, <3>2
    <3> QED BY <1>5, <3>1, <3>3
  <2> QED BY <2>1, <2>2
<1>9. /\ LivePlaces' \subseteq LivePlaces /\ LivePlaces \subseteq 1..popped
  BY <1>4, <1>6 DEF LivePlaces
<1>10. PICK a \in Nat, b \in Nat : a = Len(reported) /\ b = Len(ms)
  <2>1. Len(reported) \in Nat BY DEF ReportInv, ReportedOnce
  <2> QED BY <1>3, <2>1
<1>11. /\ reported' \in Seq(MetricRecord) /\ DOMAIN reported' = 1..(a + b)
       /\ DOMAIN reported = 1..a /\ DOMAIN ms = 1..b
       /\ \A k \in 1..a : reported'[k] = reported[k]
       /\ \A k \in 1..b : reported'[a + k] = ms[k]
  <2>1. reported \in Seq(MetricRecord) BY DEF ReportInv, ReportedOnce
  <2> QED BY <1>1, <1>2, <1>10, <2>1
<1>12. \A k \in 1..(a + b) : k \in 1..a \/ (k - a \in 1..b /\ a + (k - a) = k)
  BY <1>10
<1>13. \A k \in 1..a : k \in 1..(a + b) BY <1>10
<1>14. \A k \in 1..b : a + k \in 1..(a + b) BY <1>10
<1>15. \A i, n : Given(i, n)' <=> Given(i, n) \/ (i = current /\ Told(n))
  <2>1. ASSUME NEW i, NEW n, Given(i, n)' PROVE Given(i, n) \/ (i = current /\ Told(n))
    <3>1. PICK k \in 1..(a + b) : reported'[k].instance = i /\ reported'[k].seq = n
      BY <1>11, <2>1 DEF Given
    <3>2. CASE k \in 1..a BY <1>11, <3>1, <3>2 DEF Given
    <3>3. CASE k - a \in 1..b /\ a + (k - a) = k
      <4>1. ms[k - a].instance = i /\ ms[k - a].seq = n /\ k - a \in DOMAIN ms
        BY <1>11, <3>1, <3>3
      <4> QED BY <1>3, <4>1
    <3> QED BY <1>12, <3>2, <3>3
  <2>2. ASSUME NEW i, NEW n, Given(i, n) PROVE Given(i, n)'
    <3>1. PICK k \in 1..a : reported[k].instance = i /\ reported[k].seq = n
      BY <1>11, <2>2 DEF Given
    <3> QED BY <1>11, <1>13, <3>1 DEF Given
  <2>3. ASSUME NEW n, Told(n) PROVE Given(current, n)'
    <3>1. PICK k \in 1..b : ms[k].seq = n BY <1>11, <2>3
    <3>2. reported'[a + k].instance = current /\ reported'[a + k].seq = n
      <4>1. k \in DOMAIN ms BY <1>11
      <4>2. ms[k].instance = current BY <1>3, <4>1
      <4> QED BY <1>11, <3>1, <4>2
    <3> QED BY <1>11, <1>14, <3>1, <3>2 DEF Given
  <2> HIDE DEF Told
  <2> QED BY <2>1, <2>2, <2>3
<1>16. \A i \in Instances, n \in Nat : Given(i, n) <=> IsPast(i, n)
  BY DEF ReportInv, ReportedPast, LiveStages
<1> HIDE DEF Told
<1>17. ReportedPast'
  <2> SUFFICES ASSUME NEW i \in Instances, NEW n \in Nat
               PROVE  Given(i, n)' <=> IsPast(i, n)'
    BY DEF ReportedPast
  <2>1. stage # "idle" /\ stage' # "idle" BY DEF LiveStages
  <2>2. IsPast(i, n) <=> \/ i \notin todo /\ n \in 1..Len(shard[i])
                         \/ i = current /\ n \in 1..popped /\ n \notin LivePlaces
    BY <2>1 DEF IsPast
  <2>3. IsPast(i, n)' <=> \/ i \notin todo /\ n \in 1..Len(shard[i])
                          \/ i = current /\ n \in 1..popped /\ n \notin LivePlaces'
    BY <2>1 DEF IsPast
  <2>4. Told(n) <=> n \in LivePlaces /\ n \notin LivePlaces' BY <1>8
  <2>5. Given(i, n)' <=> Given(i, n) \/ (i = current /\ Told(n)) BY <1>15
  <2> QED BY <1>9, <1>16, <2>2, <2>3, <2>4, <2>5
<1>18. \A n \in Nat : Told(n) => ~Given(current, n)
  <2> SUFFICES ASSUME NEW n \in Nat, Told(n) PROVE ~IsPast(current, n)
    BY <1>16
  <2> QED BY <1>8 DEF IsPast
<1>19. ReportedOnce'
  <2>1. /\ \A k \in 1..a : reported[k].instance \in Instances
        /\ \A k, l \in 1..a :
              reported[k].instance = reported[l].instance /\ reported[k].seq = reported[l].seq => k = l
    BY <1>11 DEF ReportInv, ReportedOnce
  <2>2. \A k \in 1..(a + b) : reported'[k].instance \in Instances
    <3> SUFFICES ASSUME NEW k \in 1..(a + b) PROVE reported'[k].instance \in Instances
      OBVIOUS
    <3>1. CASE k \in 1..a BY <1>11, <2>1, <3>1
    <3>2. CASE k - a \in 1..b /\ a + (k - a) = k
      <4>1. reported'[k] = ms[k - a] /\ k - a \in DOMAIN ms BY <1>11, <3>2
      <4> QED BY <1>3, <4>1
    <3> QED BY <1>12, <3>1, <3>2
  <2>3. ASSUME NEW k \in 1..a, NEW l \in 1..b,
               reported[k].instance = current, reported[k].seq = ms[l].seq
        PROVE  FALSE
    <3>1. ms[l] \in MetricRecord /\ ms[l].seq \in Nat
      <4>1. ms[l] \in MetricRecord BY <1>2, <1>11, ElementOfSeq
      <4> QED BY <4>1 DEF MetricRecord
    <3>2. Given(current, ms[l].seq) BY <1>11, <2>3 DEF Given
    <3>3. Told(ms[l].seq) BY <1>11 DEF Told
    <3> QED BY <1>18, <3>1, <3>2, <3>3
  <2>4. ASSUME NEW k \in 1..(a + b), NEW l \in 1..(a + b),
               reported'[k].instance = reported'[l].instance, reported'[k].seq = reported'[l].seq
        PROVE  k = l
    <3>1. CASE k \in 1..a /\ l \in 1..a BY <1>11, <2>1, <2>4, <3>1
    <3>2. CASE k \in 1..a /\ l - a \in 1..b /\ a + (l - a) = l
      <4>1. reported'[k] = reported[k] /\ reported'[l] = ms[l - a] /\ ms[l - a].instance = current
        <5>1. reported'[l] = ms[l - a] /\ l - a \in DOMAIN ms BY <1>11, <3>2
        <5> QED BY <1>3, <1>11, <3>2, <5>1
      <4> QED BY <2>3, <2>4, <3>2, <4>1
    <3>3. CASE l \in 1..a /\ k - a \in 1..b /\ a + (k - a) = k
      <4>1. reported'[l] = reported[l] /\ reported'[k] = ms[k - a] /\ ms[k - a].instance = current
        <5>1. reported'[k] = ms[k - a] /\ k - a \in DOMAIN ms BY <1>11, <3>3
        <5> QED BY <1>3, <1>11, <3>3, <5>1
      <4> QED BY <2>3, <2>4, <3>3, <4>1
    <3>4. CASE k - a \in 1..b /\ a + (k - a) = k /\ l - a \in 1..b /\ a + (l - a) = l
      <4>1. ms[k - a].seq = ms[l - a].seq BY <1>11, <2>4, <3>4
      <4>2. k - a = l - a BY <1>7, <1>11, <3>4, <4>1
      <4> QED BY <3>4, <4>2
    <3> QED BY <1>12, <3>1, <3>2, <3>3, <3>4
  <2> QED BY <1>11, <2>2, <2>4 DEF ReportedOnce
<1>20. EmittedCount'
  <2>1. IsFiniteSet(gone) /\ Cardinality(gone) = b
    BY <1>2, <1>3, <1>10, DistinctCount DEF gone
  <2>2. PICK left : left = DOMAIN states' OBVIOUS
  <2>3. left \in SUBSET DOMAIN states /\ left \cup gone = DOMAIN states /\ left \cap gone = {}
    BY <1>2, <1>4, <2>2
  <2>4. IsFiniteSet(left) BY <1>6, <2>3, FS_Subset
  <2>5. Cardinality(left) \in Nat BY <2>4, FS_CardinalityType
  <2>6. Cardinality(left \cup gone) = Cardinality(left) + Cardinality(gone) - Cardinality(left \cap gone)
    BY <2>1, <2>4, FS_Union
  <2>7. Cardinality(left \cap gone) = 0 BY <2>3, FS_EmptySet
  <2>8. Cardinality(DOMAIN states) = Cardinality(left) + b
    BY <2>1, <2>3, <2>5, <2>6, <2>7
  <2>9. emitted \in Nat /\ emitted + Cardinality(DOMAIN states) = popped
    BY DEF ReportInv, EmittedCount
  <2>10. emitted' = emitted + b BY <1>1, <1>10
  <2>11. emitted' \in Nat /\ emitted' + Cardinality(left) = popped
    BY <1>10, <2>5, <2>8, <2>9, <2>10
  <2> QED BY <2>2, <2>11 DEF EmittedCount
<1>21. Overlap' BY DEF Overlap, LiveStages
<1> QED BY <1>17, <1>19, <1>20, <1>21 DEF ReportInv

-----------------------------------------------------------------------------
(* Every step of a sweep keeps them.                                         *)

LEMMA InitAll ==
    ASSUME Init
    PROVE  LiveInv /\ StageInv /\ ReportInv
<1>1. /\ sweep = "build" /\ todo = {} /\ stage = "idle" /\ metrics = <<>>
      /\ waiting = EmptyQueue /\ running = <<>> /\ states = <<>> /\ lookups = <<>>
      /\ cursor = 1 /\ current = 0 /\ popped = 0 /\ now = 0 /\ emitted = 0 /\ reported = <<>>
  BY DEF Init, ReplayInit
<1>2. LiveInv
  <2>1. /\ waiting \in Queues(Nat)
        /\ PlacesOf(Contents(waiting), running, metrics, states)
        /\ EntriesOf(running, metrics, states, lookups, current)
    BY <1>1, EmptyParts
  <2>2. \A id \in DOMAIN states : FALSE BY <1>1
  <2> QED BY <1>1, <2>1, <2>2 DEF LiveInv, Origins
<1>3. StageInv BY <1>1 DEF StageInv, LiveStages
<1>4. ReportInv
  <2>1. reported \in Seq(MetricRecord) /\ \A k \in DOMAIN reported : FALSE BY <1>1
  <2> QED BY <1>1, <2>1 DEF ReportInv, ReportedOnce, ReportedPast, EmittedCount, Overlap, LiveStages
<1> QED BY <1>2, <1>3, <1>4

\* A step that reports nothing and forgets nothing.
LEMMA ReportSame ==
    ASSUME LiveInv, ReportInv, stage \in LiveStages, stage' \in LiveStages,
           DOMAIN states' = DOMAIN states, \A id \in DOMAIN states : states'[id].seq = states[id].seq,
           UNCHANGED <<reported, emitted, current, popped, todo, shard, sweep>>
    PROVE  ReportInv'
<1>1. UNCHANGED LivePlaces BY DEF LivePlaces
<1>2. \A i, n : (Given(i, n)' <=> Given(i, n)) /\ (IsPast(i, n)' <=> IsPast(i, n))
  BY <1>1 DEF Given, IsPast, LiveStages
<1>3. ReportedPast' BY <1>2 DEF ReportInv, ReportedPast, LiveStages
<1>4. ReportedOnce' BY DEF ReportInv, ReportedOnce
<1>5. EmittedCount' BY DEF ReportInv, EmittedCount
<1>6. Overlap' BY DEF Overlap, LiveStages
<1> QED BY <1>3, <1>4, <1>5, <1>6 DEF ReportInv

\* A request that comes is active, or it is the second with an active id.
LEMMA ArriveReports ==
    ASSUME IInv, SweepInv, StageInv, LiveInv, ReportInv, Arrive,
           UNCHANGED <<todo, shard, sweep>>
    PROVE  ReportInv'
<1>1. /\ stage = "arrive" /\ Due /\ popped' = popped + 1
      /\ UNCHANGED <<current, source, reported, emitted>>
  BY DEF Arrive
<1>2. /\ sweep = "replay" /\ current \in todo /\ current \in Instances
      /\ stage \in LiveStages
  BY <1>1 DEF StageInv, SweepInv, LiveStages
<1>3. /\ source \in Seq(Record) /\ popped + 1 \in 1..Len(source) /\ Len(source) \in Nat
      /\ Peeked = source[popped + 1]
  <2>1. ReadsOwnShard /\ ~Exhausted BY <1>1 DEF SweepInv, Due
  <2>2. /\ source \in Seq(Record) /\ popped + 1 \in 1..Len(source)
        /\ Peeked = source[popped + 1]
    BY <1>2, <2>1, PeekedRecord
  <2> QED BY <2>2, LenProperties
<1>4. /\ LivePlaces \subseteq 1..popped /\ popped \in Nat
      /\ \A id \in DOMAIN states : states[id].seq \in 1..popped
      /\ IsFiniteSet(DOMAIN states) /\ Cardinality(DOMAIN states) \in Nat
  BY PlacesInjective
<1>5. \A i \in Instances, n \in Nat : Given(i, n) <=> IsPast(i, n)
  BY <1>1, <1>2 DEF ReportInv, ReportedPast
<1>6. ReportedOnce' BY <1>1 DEF ReportInv, ReportedOnce
<1>7. \A i, n : Given(i, n)' <=> Given(i, n) BY <1>1 DEF Given
<1> DEFINE id == Peeked.id
<1>8. CASE ArrivalError(Peeked) = "none"
  <2>1. /\ id \notin DOMAIN states /\ stage' = "arrive"
        /\ states' = Put(states, id, [seq |-> popped + 1, arrival |-> Peeked.time, left |-> 0])
    BY <1>1, <1>8 DEF Arrive, ArrivalError
  <2> HIDE DEF id
  <2>2. /\ DOMAIN states' = DOMAIN states \cup {id}
        /\ states'[id].seq = popped + 1
        /\ \A j \in DOMAIN states : states'[j] = states[j]
    BY <2>1 DEF Put
  <2>3. LivePlaces' = LivePlaces \cup {popped + 1} BY <2>2 DEF LivePlaces
  <2>4. ReportedPast'
    <3> SUFFICES ASSUME NEW i \in Instances, NEW n \in Nat
                 PROVE  Given(i, n)' <=> IsPast(i, n)'
      BY DEF ReportedPast
    <3>1. IsPast(i, n) <=> \/ i \notin todo /\ n \in 1..Len(shard[i])
                           \/ i = current /\ n \in 1..popped /\ n \notin LivePlaces
      BY <1>1 DEF IsPast
    <3>2. IsPast(i, n)' <=> \/ i \notin todo /\ n \in 1..Len(shard[i])
                            \/ i = current /\ n \in 1..(popped + 1) /\ n \notin LivePlaces'
      BY <1>1, <2>1 DEF IsPast
    <3>3. n \in 1..(popped + 1) /\ n \notin LivePlaces' <=> n \in 1..popped /\ n \notin LivePlaces
      BY <1>4, <2>3
    <3> QED BY <1>5, <1>7, <3>1, <3>2, <3>3
  <2>5. EmittedCount'
    <3>1. Cardinality(DOMAIN states') = Cardinality(DOMAIN states) + 1
      BY <1>4, <2>1, <2>2, FS_AddElement
    <3>2. emitted \in Nat /\ emitted + Cardinality(DOMAIN states) = popped
      BY <1>2 DEF ReportInv, EmittedCount
    <3>3. emitted' \in Nat /\ emitted' + Cardinality(DOMAIN states') = popped'
      BY <1>1, <1>4, <3>1, <3>2
    <3> QED BY <3>3 DEF EmittedCount
  <2>6. Overlap' BY <2>1 DEF Overlap
  <2> QED BY <1>6, <2>4, <2>5, <2>6 DEF ReportInv
<1>9. CASE ArrivalError(Peeked) = "duplicate_active_request"
  <2>1. stage' = "duplicate_active_request" /\ id \in DOMAIN states
    BY <1>9 DEF Arrive, ArrivalError
  <2>2. PICK m \in 1..popped : m = states[id].seq BY <1>4, <2>1
  <2>3. source[m].id = source[popped + 1].id BY <1>3, <2>1, <2>2 DEF LiveInv, Origins
  <2>4. ~Given(current, m)
    <3>1. m \in LivePlaces BY <2>1, <2>2 DEF LivePlaces
    <3>2. ~IsPast(current, m) BY <1>2, <3>1 DEF IsPast
    <3> QED BY <1>2, <1>5, <3>2
  <2>5. m \in DOMAIN source /\ popped + 1 \in DOMAIN source /\ m < popped + 1
    BY <1>3, <1>4
  <2> HIDE DEF id
  <2>6. Overlap'
    <3>1. \E a, b \in DOMAIN source : a < b /\ source[a].id = source[b].id /\ ~Given(current, a)
      BY <2>3, <2>4, <2>5
    <3> QED BY <1>1, <3>1 DEF Overlap, Given
  <2>7. ReportedPast' BY <2>1 DEF ReportedPast
  <2>8. EmittedCount' BY <1>1, <2>1 DEF ReportInv, EmittedCount, LiveStages
  <2> QED BY <1>6, <2>6, <2>7, <2>8 DEF ReportInv
<1> QED BY <1>1, <1>8, <1>9, NextRequestPasses DEF SweepInv

LEMMA ReplayReports ==
    ASSUME IInv, SweepInv, StageInv, LiveInv, ReportInv, Replay
    PROVE  ReportInv'
<1>1. UNCHANGED <<todo, shard, sweep>> /\ ReplayNext /\ sweep = "replay"
  BY DEF Replay, buildVars, sweepVars
<1>2. CASE Arrive BY <1>1, <1>2, ArriveReports
<1>3. CASE ArrivalsDone
  <2>1. /\ stage \in LiveStages /\ stage' \in LiveStages
        /\ UNCHANGED <<reported, emitted, states, current, popped>>
    BY <1>3 DEF ArrivalsDone, Jump, LiveStages
  <2> QED BY <1>1, <2>1, ReportSame
<1>4. CASE Scan
  <2>1. /\ stage \in LiveStages /\ stage' \in LiveStages
        /\ UNCHANGED <<reported, emitted, current, popped>>
    BY <1>4 DEF Scan, LiveStages
  <2>2. DOMAIN states' = DOMAIN states /\ \A id \in DOMAIN states : states'[id].seq = states[id].seq
    <3> DEFINE a == At(waiting, cursor)
    <3>1. CASE LookedUp(a)
      <4>1. UNCHANGED states BY <1>4, <3>1 DEF Scan
      <4> QED BY <4>1
    <3>2. CASE ~LookedUp(a)
      <4>1. PICK miss \in 0..MaxSlices : states' = [states EXCEPT ![a].left = miss]
        BY <1>4, <3>2 DEF Scan
      <4>2. \A id \in DOMAIN states : states[id] \in StateEntry BY DEF LiveInv, EntriesOf
      <4> HIDE DEF a
      <4> QED BY <4>1, <4>2 DEF StateEntry
    <3> QED BY <3>1, <3>2
  <2> QED BY <1>1, <2>1, <2>2, ReportSame
<1>5. CASE FrontierDone
  <2>1. /\ stage \in LiveStages /\ stage' \in LiveStages
        /\ UNCHANGED <<reported, emitted, states, current, popped>>
    BY <1>5 DEF FrontierDone, LiveStages
  <2> QED BY <1>1, <2>1, ReportSame
<1>6. CASE ReportFrontier
  <2>1. /\ stage \in LiveStages /\ stage' \in LiveStages /\ Emit(metrics, states, <<>>)
        /\ UNCHANGED <<current, popped, source>>
    BY <1>6 DEF ReportFrontier, Jump, LiveStages
  <2>2. current \in todo /\ current \in Instances BY <1>6 DEF StageInv, SweepInv, ReportFrontier
  <2>3. /\ PlacesOf(Contents(waiting), running, metrics, states)
        /\ EntriesOf(running, metrics, states, lookups, current)
    BY DEF LiveInv
  <2> QED BY <1>1, <2>1, <2>2, <2>3, EmitReports
<1>7. CASE Schedule
  <2>1. /\ stage = "schedule" /\ stage' = "arrive" /\ UNCHANGED <<current, popped, source>>
    BY <1>7 DEF Schedule
  <2>2. current \in todo /\ current \in Instances /\ metrics = <<>>
    BY <2>1 DEF StageInv, SweepInv
  <2>3. PICK b \in Batches, d \in Durations : Iterate(b[1], b[2], now + d) BY <1>7 DEF Schedule
  <2>4. PICK r \in 0..Len(running), k \in 0..QueueLen(waiting) : r = b[1] /\ k = b[2]
    <3>1. b[1] \in 0..Len(running) /\ b[2] \in 0..QueueLen(waiting) BY DEF Batches
    <3> QED BY <3>1
  <2>5. \A j \in 1..k : LookedUp(At(waiting, j)) BY <2>4 DEF Batches
  <2>6. PICK finish \in Nat : finish = now + d
    <3>1. now + d \in Nat BY ReplayAssumption DEF LiveInv
    <3> QED BY <3>1
  <2> DEFINE q   == SubSeq(Contents(waiting), k + 1, Len(Contents(waiting)))
             ms  == ResultsOf(r, k, finish)
             sts == Advanced(BatchOf(r, k))
  <2>7. Emit(ms, sts, <<IterationMetric(r + k, finish)>>)
    <3>1. Iterate(r, k, finish) BY <2>3, <2>4, <2>6
    <3> QED BY <3>1 DEF Iterate, ResultsOf, FinishedOf, BatchOf, Admitted
  <2>8. /\ PlacesOf(q, RunningOf(r, k), ms, sts)
        /\ EntriesOf(RunningOf(r, k), ms, sts, lookups, current)
        /\ DOMAIN sts = DOMAIN states
        /\ \A id \in DOMAIN states : sts[id].seq = states[id].seq
    BY <2>2, <2>5, IterateParts
  <2> HIDE DEF q, ms, sts
  <2>9. stage \in LiveStages /\ stage' \in LiveStages BY <2>1 DEF LiveStages
  <2> QED BY <1>1, <2>1, <2>2, <2>7, <2>8, <2>9, EmitReports
<1> QED BY <1>1, <1>2, <1>3, <1>4, <1>5, <1>6, <1>7 DEF ReplayNext

\* A replay that returns has emitted every request of its shard.
LEMMA ReturnedAll ==
    ASSUME IInv, SweepInv, StageInv, LiveInv, ReportInv, stage = "returned"
    PROVE  /\ current \in Instances /\ metrics = <<>>
           /\ popped = Len(shard[current]) /\ emitted = shardState[current].count
           /\ DOMAIN states = {}
<1>1. /\ current \in Instances /\ source = shard[current]
      /\ Exhausted /\ NoWork /\ metrics = <<>>
  BY DEF SweepInv, ReadsOwnShard, StageInv, LiveStages
<1>2. popped = Len(shard[current]) BY <1>1 DEF Exhausted
<1>3. DOMAIN states = {}
  <2>1. waiting \in Queues(Nat) /\ PlacesOf(Contents(waiting), running, metrics, states)
    BY DEF LiveInv
  <2>2. Contents(waiting) \in Seq(Nat) /\ Len(Contents(waiting)) = 0 /\ running = <<>>
    BY <1>1, <2>1, ContentsProperties DEF NoWork
  <2>3. DOMAIN Contents(waiting) = {} /\ DOMAIN running = {} BY <2>2
  <2>4. Resident(Contents(waiting)) = {} /\ Resident(running) = {} BY <2>3 DEF Resident
  <2>5. Resident(IdList(metrics)) = {} BY <1>1, NoIds
  <2> QED BY <2>1, <2>4, <2>5 DEF PlacesOf
<1>4. emitted = popped
  <2>1. emitted \in Nat /\ emitted + Cardinality(DOMAIN states) = popped
    BY DEF ReportInv, EmittedCount, LiveStages
  <2>2. Cardinality(DOMAIN states) = 0 BY <1>3, FS_EmptySet
  <2> QED BY <2>1, <2>2
<1>5. shardState[current].count = Len(shard[current]) BY <1>1 DEF IInv, ShardsSorted
<1> QED BY <1>1, <1>2, <1>3, <1>4, <1>5

\* A shard without requests has nothing to report.
LEMMA NoShard ==
    ASSUME IInv, NEW i \in Instances, i \notin Shards
    PROVE  1..Len(shard[i]) = {}
<1>1. shardState[i].count = Len(shard[i]) /\ ~(shardState[i].count > 0)
  BY DEF IInv, ShardsSorted, Shards
<1>2. Len(shard[i]) \in Nat
  <2>1. shard \in [Instances -> Seq(Record)] BY Zenon DEF IInv, BuildTypeOK
  <2> QED BY <2>1, LenProperties
<1> QED BY <1>1, <1>2

LEMMA StageStep ==
    ASSUME IInv, SweepInv, StageInv, LiveInv, ReportInv, [Next]_vars
    PROVE  StageInv'
<1>1. CASE UNCHANGED <<replayVars, sweepVars>>
  <2>1. UNCHANGED <<Exhausted, NoWork>> BY <1>1 DEF replayVars, Exhausted, NoWork
  <2> QED BY <1>1, <2>1 DEF replayVars, sweepVars, StageInv
<1>2. CASE BeginCapacity
  <2>1. sweep # "replay" /\ sweep' = "replay" /\ UNCHANGED <<stage, metrics>>
    BY <1>2 DEF BeginCapacity
  <2>2. stage = "idle" /\ metrics = <<>> BY <2>1 DEF StageInv
  <2> QED BY <2>1, <2>2 DEF StageInv
<1>3. CASE BeginShard
  <2>1. PICK i \in todo : BeginStream(i, shard[i]) BY <1>3 DEF BeginShard
  <2>2. sweep = "replay" /\ UNCHANGED <<sweep, todo>> BY <1>3 DEF BeginShard, sweepVars
  <2>3. /\ stage' = IF shard[i] = <<>> THEN "returned" ELSE "arrive"
        /\ current' = i /\ source' = shard[i] /\ popped' = 0 /\ waiting' = EmptyQueue
        /\ running' = <<>> /\ metrics' = <<>>
    BY <2>1 DEF BeginStream
  <2>4. NoWork' BY <2>3 DEF NoWork, QueueLen, EmptyQueue
  <2>5. shard[i] = <<>> => Exhausted' BY <2>3 DEF Exhausted
  <2> QED BY <2>2, <2>3, <2>4, <2>5 DEF StageInv, LiveStages
<1>4. CASE Replay BY <1>4, StageReplay
<1>5. CASE EndShard
  <2>1. stage = "returned" /\ stage' = "idle" /\ sweep = "replay" /\ UNCHANGED metrics
    BY <1>5 DEF EndShard
  <2>2. emitted = shardState[current].count /\ DOMAIN states = {} /\ metrics = <<>>
    BY <2>1, ReturnedAll
  <2>3. sweep' = sweep BY <1>5, <2>2 DEF EndShard
  <2> QED BY <2>1, <2>2, <2>3 DEF StageInv
<1>6. CASE EndCapacity
  <2>1. stage = "idle" /\ todo = {} /\ sweep' \in {"rows", "done"}
        /\ UNCHANGED <<stage, todo, metrics>>
    BY <1>6 DEF EndCapacity, replayVars
  <2>2. metrics = <<>> BY <2>1 DEF StageInv
  <2> QED BY <2>1, <2>2 DEF StageInv
<1> QED BY <1>1, <1>2, <1>3, <1>4, <1>5, <1>6 DEF Next, Build, vars

LEMMA ReportStep ==
    ASSUME IInv, SweepInv, StageInv, LiveInv, ReportInv, [Next]_vars
    PROVE  ReportInv'
<1>1. CASE Build
  <2>1. UNCHANGED <<replayVars, sweepVars>> /\ sweep = "build" /\ stage = "idle"
    BY <1>1, BuildStepReads DEF Build, SweepInv, BuildFirst
  <2>2. UNCHANGED <<reported, emitted, stage, sweep>> BY <2>1 DEF replayVars, sweepVars
  <2>3. ReportedOnce' BY <2>2 DEF ReportInv, ReportedOnce
  <2> QED BY <2>1, <2>2, <2>3
          DEF ReportInv, ReportedPast, EmittedCount, Overlap, LiveStages
<1>2. CASE BeginCapacity
  <2>1. /\ sweep # "replay" /\ todo' = Shards /\ reported' = <<>>
        /\ UNCHANGED <<stage, emitted, shard>>
    BY <1>2 DEF BeginCapacity, buildVars
  <2>2. stage' = "idle" BY <2>1 DEF StageInv
  <2>3. \A k \in DOMAIN reported' : FALSE BY <2>1
  <2>4. ReportedOnce'
    <3>1. reported' \in Seq(MetricRecord) BY <2>1
    <3> QED BY <2>3, <3>1 DEF ReportedOnce
  <2>5. ReportedPast'
    <3>1. \A i \in Instances : \A n : ~IsPast(i, n)' BY <2>1, <2>2, NoShard DEF IsPast
    <3>2. \A i, n : ~Given(i, n)' BY <2>3 DEF Given
    <3> QED BY <3>1, <3>2 DEF ReportedPast
  <2> QED BY <2>1, <2>2, <2>4, <2>5 DEF ReportInv, EmittedCount, Overlap, LiveStages
<1>3. CASE BeginShard
  <2>1. PICK i \in todo : BeginStream(i, shard[i]) BY <1>3 DEF BeginShard
  <2>2. /\ stage = "idle" /\ sweep = "replay" /\ UNCHANGED <<sweep, todo, shard, reported>>
    BY <1>3 DEF BeginShard, sweepVars, buildVars
  <2>3. stage' \in {"returned", "arrive"} /\ popped' = 0 /\ emitted' = 0 /\ states' = <<>>
    BY <2>1 DEF BeginStream
  <2>4. \A j, n : (Given(j, n)' <=> Given(j, n)) /\ (IsPast(j, n)' <=> IsPast(j, n))
    <3>1. \A n : n \notin 1..popped' BY <2>3
    <3> QED BY <2>2, <3>1 DEF Given, IsPast
  <2>5. ReportedPast' BY <2>2, <2>4 DEF ReportInv, ReportedPast
  <2>6. ReportedOnce' BY <2>2 DEF ReportInv, ReportedOnce
  <2>7. EmittedCount'
    <3>1. DOMAIN states' = {} BY <2>3
    <3>2. Cardinality(DOMAIN states') = 0 BY <3>1, FS_EmptySet
    <3> QED BY <2>3, <3>2 DEF EmittedCount
  <2> QED BY <2>3, <2>5, <2>6, <2>7 DEF ReportInv, Overlap
<1>4. CASE Replay BY <1>4, ReplayReports
<1>5. CASE EndShard
  <2>1. /\ stage = "returned" /\ stage' = "idle" /\ sweep = "replay"
        /\ todo' = todo \ {current} /\ UNCHANGED <<reported, emitted, current, shard>>
    BY <1>5 DEF EndShard, buildVars
  <2>2. /\ current \in Instances /\ popped = Len(shard[current]) /\ DOMAIN states = {}
    BY <2>1, ReturnedAll
  <2>3. \A j, n : (Given(j, n)' <=> Given(j, n)) /\ (IsPast(j, n)' <=> IsPast(j, n))
    <3>1. LivePlaces = {} BY <2>2 DEF LivePlaces
    <3>2. \A j, n : IsPast(j, n) <=> \/ j \notin todo /\ n \in 1..Len(shard[j])
                                     \/ j = current /\ n \in 1..Len(shard[current])
      BY <2>1, <2>2, <3>1 DEF IsPast
    <3>3. \A j, n : IsPast(j, n)' <=> j \notin todo \ {current} /\ n \in 1..Len(shard[j])
      BY <2>1 DEF IsPast
    <3> QED BY <2>1, <3>2, <3>3 DEF Given
  <2>4. ReportedPast' BY <2>1, <2>3 DEF ReportInv, ReportedPast
  <2>5. ReportedOnce' BY <2>1 DEF ReportInv, ReportedOnce
  <2> QED BY <2>1, <2>4, <2>5 DEF ReportInv, EmittedCount, Overlap, LiveStages
<1>6. CASE EndCapacity
  <2>1. /\ sweep = "replay" /\ stage = "idle" /\ stage' = "idle"
        /\ UNCHANGED <<reported, emitted, shard, todo>>
    BY <1>6 DEF EndCapacity, replayVars, buildVars
  <2>2. \A j, n : (Given(j, n)' <=> Given(j, n)) /\ (IsPast(j, n)' <=> IsPast(j, n))
    BY <2>1 DEF Given, IsPast
  <2>3. ReportedPast' BY <2>1, <2>2 DEF ReportInv, ReportedPast
  <2>4. ReportedOnce' BY <2>1 DEF ReportInv, ReportedOnce
  <2> QED BY <2>1, <2>3, <2>4 DEF ReportInv, EmittedCount, Overlap, LiveStages
<1>7. CASE UNCHANGED vars
  <2>1. UNCHANGED <<reported, emitted, states, current, source, popped, todo, shard, sweep, stage>>
    BY <1>7 DEF vars, buildVars, replayVars, sweepVars
  <2>2. UNCHANGED LivePlaces BY <2>1 DEF LivePlaces
  <2>3. \A j, n : (Given(j, n)' <=> Given(j, n)) /\ (IsPast(j, n)' <=> IsPast(j, n))
    BY <2>1, <2>2 DEF Given, IsPast
  <2>4. ReportedPast' BY <2>1, <2>3 DEF ReportInv, ReportedPast
  <2>5. ReportedOnce' BY <2>1 DEF ReportInv, ReportedOnce
  <2>6. EmittedCount' BY <2>1 DEF ReportInv, EmittedCount
  <2>7. Overlap' BY <2>1 DEF ReportInv, Overlap
  <2> QED BY <2>4, <2>5, <2>6, <2>7 DEF ReportInv
<1> QED BY <1>1, <1>2, <1>3, <1>4, <1>5, <1>6, <1>7 DEF Next

-----------------------------------------------------------------------------
(* What the invariants say.                                                  *)

\* When a capacity is done, as many metrics were reported as requests accepted.
LEMMA AllReported ==
    ASSUME IInv, CauseInv, StageInv, ReportInv, sweep \in {"rows", "done"}
    PROVE  Len(reported) = accepted
<1>1. /\ stage = "idle" /\ todo = {}
      /\ reported \in Seq(MetricRecord)
      /\ \A i \in Instances, n \in Nat : Given(i, n) <=> IsPast(i, n)
  BY DEF StageInv, ReportInv, ReportedOnce, ReportedPast
<1> DEFINE key == [k \in 1..Len(reported) |-> <<reported[k].instance, reported[k].seq>>]
           keys == {key[k] : k \in 1..Len(reported)}
<1>2. DOMAIN reported = 1..Len(reported) /\ Len(reported) \in Nat BY <1>1
<1>3. \A k \in 1..Len(reported) : key[k] = <<reported[k].instance, reported[k].seq>> OBVIOUS
<1>4. \A i \in Instances, n \in Nat : Given(i, n) <=> n \in 1..shardState[i].count
  <2>1. \A i \in Instances : shardState[i].count = Len(shard[i]) BY DEF IInv, ShardsSorted
  <2> QED BY <1>1, <2>1 DEF IsPast
<1> HIDE DEF key
<1>5. keys = Counted
  <2>1. ASSUME NEW k \in 1..Len(reported) PROVE key[k] \in Counted
    <3>1. reported[k] \in MetricRecord /\ reported[k].instance \in Instances
      BY <1>1, <1>2, ElementOfSeq DEF ReportInv, ReportedOnce
    <3>2. PICK i \in Instances, n \in Nat : i = reported[k].instance /\ n = reported[k].seq
      BY <3>1 DEF MetricRecord
    <3>3. Given(i, n) BY <1>2, <3>2 DEF Given
    <3>4. <<i, n>> \in {i} \X (1..shardState[i].count) BY <1>4, <3>3
    <3> QED BY <1>3, <3>2, <3>4 DEF Counted
  <2>2. ASSUME NEW x \in Counted PROVE x \in keys
    <3>1. PICK i \in Instances : x \in {i} \X (1..shardState[i].count) BY DEF Counted
    <3>2. PICK n \in 1..shardState[i].count : x = <<i, n>> BY <3>1
    <3>3. n \in Nat
      <4>1. shardState \in [Instances -> [count : Nat, min : Nat, max : Nat]]
        BY Zenon DEF IInv, BuildTypeOK
      <4> QED BY <4>1
    <3>4. PICK k \in 1..Len(reported) : reported[k].instance = i /\ reported[k].seq = n
      BY <1>2, <1>4, <3>2, <3>3 DEF Given
    <3> QED BY <1>3, <3>2, <3>4
  <2> QED BY <2>1, <2>2
<1>6. IsFiniteSet(1..Len(reported)) /\ Cardinality(1..Len(reported)) = Len(reported)
  <2>1. PICK n \in Nat : n = Len(reported) BY <1>2
  <2>2. n \in Int /\ 1 \in Int /\ (IF 1 > n THEN 0 ELSE n - 1 + 1) = n BY <2>1
  <2>3. IsFiniteSet(1..n) /\ Cardinality(1..n) = IF 1 > n THEN 0 ELSE n - 1 + 1
    BY <2>2, FS_Interval
  <2> QED BY <2>1, <2>2, <2>3
<1>7. \A k, l \in 1..Len(reported) : key[k] = key[l] => k = l
  <2>1. \A k, l \in 1..Len(reported) :
           reported[k].instance = reported[l].instance /\ reported[k].seq = reported[l].seq => k = l
    BY <1>2 DEF ReportInv, ReportedOnce
  <2> QED BY <1>3, <2>1
<1>8. Cardinality(keys) = Len(reported)
  <2>1. PICK S : S = 1..Len(reported) OBVIOUS
  <2>2. Cardinality({key[k] : k \in S}) = Cardinality(S) BY <1>6, <1>7, <2>1, ImageCount
  <2> QED BY <1>6, <2>1, <2>2
<1> QED BY <1>5, <1>8 DEF CauseInv

\* While a shard is replayed, what was read of it is active or was reported.
LEMMA OnceWhileReplayed ==
    ASSUME IInv, SweepInv, StageInv, LiveInv, ReportInv, stage \in LiveStages
    PROVE  LET mine == {n \in DOMAIN reported : reported[n].instance = current}
               past == {reported[n].seq : n \in mine}
           IN  /\ past \cup LivePlaces = 1..popped
               /\ past \cap LivePlaces = {}
               /\ Cardinality(past) = Cardinality(mine)
               /\ emitted = Cardinality(mine)
<1> DEFINE mine == {n \in DOMAIN reported : reported[n].instance = current}
           past == {reported[n].seq : n \in mine}
<1>1. current \in Instances /\ current \in todo /\ sweep = "replay"
  BY DEF StageInv, SweepInv, LiveStages
<1>2. /\ reported \in Seq(MetricRecord)
      /\ \A n \in Nat : Given(current, n) <=> n \in 1..popped /\ n \notin LivePlaces
  <2>1. \A n \in Nat : Given(current, n) <=> IsPast(current, n)
    BY <1>1 DEF ReportInv, ReportedPast, LiveStages
  <2>2. \A n : IsPast(current, n) <=> n \in 1..popped /\ n \notin LivePlaces
    BY <1>1 DEF IsPast, LiveStages
  <2> QED BY <2>1, <2>2 DEF ReportInv, ReportedOnce
<1>3. /\ LivePlaces \subseteq 1..popped /\ popped \in Nat
      /\ Cardinality(LivePlaces) = Cardinality(DOMAIN states)
      /\ Cardinality(DOMAIN states) \in Nat
  BY PlacesInjective
<1>4. \A k \in DOMAIN reported : reported[k].seq \in Nat
  <2>1. \A k \in DOMAIN reported : reported[k] \in MetricRecord BY <1>2, LenProperties, ElementOfSeq
  <2> QED BY <2>1 DEF MetricRecord
<1>5. past = (1..popped) \ LivePlaces
  <2>1. ASSUME NEW k \in mine PROVE reported[k].seq \in (1..popped) \ LivePlaces
    <3>1. Given(current, reported[k].seq) /\ reported[k].seq \in Nat BY <1>4 DEF Given
    <3> QED BY <1>2, <3>1
  <2>2. ASSUME NEW n \in (1..popped) \ LivePlaces PROVE n \in past
    <3>1. n \in Nat BY <1>3
    <3>2. Given(current, n) BY <1>2, <3>1
    <3> QED BY <3>2 DEF Given
  <2> QED BY <2>1, <2>2
<1>6. IsFiniteSet(mine)
  <2>1. PICK n \in Nat : n = Len(reported) /\ DOMAIN reported = 1..n BY <1>2
  <2>2. mine \in SUBSET (1..n) BY <2>1
  <2> HIDE DEF mine
  <2> QED BY <2>2, RestCount
<1>7. Cardinality(past) = Cardinality(mine)
  <2> DEFINE f == [n \in mine |-> reported[n].seq]
  <2>1. \A n \in mine : f[n] = reported[n].seq OBVIOUS
  <2>2. {f[n] : n \in mine} = past BY <2>1
  <2>3. \A m, n \in mine : f[m] = f[n] => m = n
    BY <2>1 DEF ReportInv, ReportedOnce
  <2> HIDE DEF f, mine, past
  <2>4. Cardinality({f[n] : n \in mine}) = Cardinality(mine) BY <1>6, <2>3, ImageCount
  <2> QED BY <2>2, <2>4
<1> HIDE DEF mine, past
<1>8. emitted = Cardinality(mine)
  <2>1. Cardinality(past) = popped - Cardinality(DOMAIN states)
    <3>1. Cardinality((1..popped) \ LivePlaces) = popped - Cardinality(LivePlaces)
      BY <1>3, RestCount
    <3> QED BY <1>3, <1>5, <3>1
  <2>2. emitted \in Nat /\ emitted + Cardinality(DOMAIN states) = popped
    BY DEF ReportInv, EmittedCount
  <2> QED BY <1>3, <1>7, <2>1, <2>2
<1>9. past \cup LivePlaces = 1..popped /\ past \cap LivePlaces = {} BY <1>3, <1>5
<1> QED BY <1>7, <1>8, <1>9 DEF mine, past

LEMMA OnceShown ==
    ASSUME IInv, CauseInv, SweepInv, StageInv, LiveInv, ReportInv
    PROVE  ExactlyOnce
<1>1. accepted + rejected = line - 1 /\ Len(rejectedRows) = rejected
  BY DEF IInv, RecordsCounted
<1>2. ASSUME stage # "idle", Raised = {} PROVE stage \in LiveStages
  <2>1. stage # "duplicate_active_request" BY <1>2 DEF Raised, ReplayErrors
  <2> QED BY <1>2, <2>1 DEF StageInv
<1> QED BY <1>1, <1>2, AllReported, OnceWhileReplayed DEF ExactlyOnce, LivePlaces

LEMMA FailuresShown ==
    ASSUME CauseInv, IInv, StageInv, ReportInv
    PROVE  FailsOnlyForTheTrace
<1>1. build \in {"reading", "built", "unsorted_trace", "bad_request"}
  BY DEF CauseInv, IInv, BuildTypeOK
<1>2. sweep \notin SweepErrors BY DEF StageInv, SweepErrors
<1>3. stage \notin {"unsorted_source", "wrong_instance"} BY DEF StageInv, LiveStages
<1>4. Raised \subseteq {"unsorted_trace", "bad_request", "duplicate_active_request"}
  BY <1>1, <1>2, <1>3 DEF Raised, BuildErrors, ReplayErrors
<1> QED BY <1>4 DEF CauseInv, ReportInv, Overlap, FailsOnlyForTheTrace

\* Everything that is invariant while a sweep runs.
FullInv == IInv /\ CauseInv /\ SweepInv /\ StageInv /\ LiveInv /\ ReportInv

THEOREM SweepInvariance == Spec => []FullInv
<1>1. Init /\ IInv => SweepInv /\ StageInv /\ LiveInv /\ ReportInv
  BY InitSweep, InitAll
<1>2. IInv /\ (SweepInv /\ StageInv /\ LiveInv /\ ReportInv) /\ [Next]_vars
         => (SweepInv /\ StageInv /\ LiveInv /\ ReportInv)'
  BY SweepStep, StageStep, LiveStep, ReportStep
<1>3. Spec => [](IInv /\ CauseInv)
  BY SweepBuilds, BuildFailsForCause, PTL
<1>4. IInv /\ CauseInv /\ (SweepInv /\ StageInv /\ LiveInv /\ ReportInv) => FullInv
  BY DEF FullInv
<1> QED BY <1>1, <1>2, <1>3, <1>4, PTL DEF Spec

\* The live state of a replay is that of the active requests, and no other:
\* streaming/replay.py forgets a request as it reports it, whatever the scheduler
\* chooses and however the queue was compacted.
THEOREM LiveStateKept == Spec => []LiveStateOnly
<1>1. FullInv => LiveStateOnly BY LiveInvShows DEF FullInv
<1> QED BY <1>1, SweepInvariance, PTL

\* Every record of the trace is accounted for exactly once, from the build to the
\* rows: rejected in writing, unread, active, or reported, and never twice.
THEOREM EveryRecordOnce == Spec => []ExactlyOnce
<1>1. FullInv => ExactlyOnce BY OnceShown DEF FullInv
<1> QED BY <1>1, SweepInvariance, PTL

\* A run fails only for what is wrong with its trace: the manifest, the reader of
\* the shards, the counts of the runner and its check for active requests never
\* object, and a duplicate is of a request that is not reported yet.
THEOREM FailsForTheTraceOnly == Spec => []FailsOnlyForTheTrace
<1>1. FullInv => FailsOnlyForTheTrace BY FailuresShown DEF FullInv
<1> QED BY <1>1, SweepInvariance, PTL

-----------------------------------------------------------------------------
(* The rows.                                                                 *)

IterationRecord == [instance : Nat, finish : Nat, depth : Int, waits : Int]

\* The metrics of instance i, after one more.
LEMMA OfAppend ==
    ASSUME NEW B, NEW s \in Seq(B), NEW m \in B, NEW i
    PROVE  Of(Append(s, m), i) = IF m.instance = i THEN Append(Of(s, i), m) ELSE Of(s, i)
<1>1. PICK n \in Nat : n = Len(s) /\ DOMAIN s = 1..n BY LenProperties
<1>2. PICK a \in Seq(B) : a = Append(s, m) BY AppendProperties
<1>3. DOMAIN a = 1..(n + 1) /\ a[n + 1] = m /\ \A k \in 1..n : a[k] = s[k]
  BY <1>1, <1>2, AppendProperties
<1> DEFINE S == {x \in Range(s) : x.instance = i}
           T == {x \in Range(a) : x.instance = i}
<1>4. T \cap Resident(s) = S \cap Resident(s)
  <2>1. \A x \in Resident(s) : x \in Range(a) /\ x \in Range(s)
    BY <1>1, <1>3 DEF Range, Resident
  <2> QED BY <2>1
<1>5. m \in T <=> m.instance = i BY <1>1, <1>3 DEF Range
<1> HIDE DEF S, T
<1>6. Keep(s, T) = Keep(s, S) BY <1>4, KeepSame
<1>7. Keep(Append(s, m), T) = IF m \in T THEN Append(Keep(s, T), m) ELSE Keep(s, T)
  BY KeepAppend
<1> QED BY <1>2, <1>5, <1>6, <1>7 DEF Of, S, T

\* They are metrics of the list, and those of i.
LEMMA OfMembers ==
    ASSUME NEW B, NEW s \in Seq(B), NEW i
    PROVE  /\ Of(s, i) \in Seq(B)
           /\ Len(Of(s, i)) > 0 <=> \E n \in DOMAIN s : s[n].instance = i
           /\ (\A n \in DOMAIN s : s[n].instance # i) => Of(s, i) = <<>>
<1> DEFINE S == {x \in Range(s) : x.instance = i}
<1>1. PICK k \in Seq(B) : k = Keep(s, S) /\ Resident(k) = Resident(s) \cap S BY KeepMembers
<1>2. k = Of(s, i) BY <1>1 DEF Of
<1>3. PICK l \in Nat : l = Len(k) /\ DOMAIN k = 1..l BY LenProperties
<1>4. PICK n \in Nat : n = Len(s) /\ DOMAIN s = 1..n BY LenProperties
<1>5. Resident(k) = {x \in Range(s) : x.instance = i}
  BY <1>1, <1>4 DEF Resident, Range
<1> HIDE DEF S
<1>6. l > 0 <=> Resident(k) # {}
  <2>1. CASE l = 0
    <3>1. \A x \in 1..l : FALSE BY <2>1
    <3> QED BY <1>3, <2>1, <3>1 DEF Resident
  <2>2. CASE l # 0
    <3>1. 1 \in 1..l BY <2>2
    <3> QED BY <1>3, <2>2, <3>1 DEF Resident
  <2> QED BY <2>1, <2>2
<1>7. Resident(k) # {} <=> \E m \in DOMAIN s : s[m].instance = i
  BY <1>5 DEF Range
<1>8. l = 0 => k = <<>> BY <1>3
<1> QED BY <1>2, <1>3, <1>6, <1>7, <1>8

\* A sum, after one more value.
IsTotal(f, v) ==
    f = [n \in 0..Len(v) |-> IF n = 0 THEN 0 ELSE f[n - 1] + v[n]]

LEMMA TotalExists ==
    ASSUME NEW v \in Seq(Int)
    PROVE  \E f : IsTotal(f, v) /\ f \in [0..Len(v) -> Int]
<1> DEFINE step == [x \in Int \X Int |-> x[1] + x[2]]
<1>1. IsFoldStep(step, Int, Int) BY DEF IsFoldStep
<1>2. PICK f : IsFoldOf(f, Int, v, 0, step)
  <2> HIDE DEF step
  <2> QED BY <1>1, FoldExists
<1>3. \A n \in 1..Len(v) : f[n] = f[n - 1] + v[n]
  <2> SUFFICES ASSUME NEW n \in 1..Len(v) PROVE f[n] = f[n - 1] + v[n]
    OBVIOUS
  <2>1. f[n] = step[<<f[n - 1], v[n]>>] BY <1>2 DEF IsFoldOf
  <2>2. n - 1 \in 0..Len(v) /\ v[n] \in Int OBVIOUS
  <2>3. f[n - 1] \in Int BY <1>2, <2>2 DEF IsFoldOf
  <2>4. <<f[n - 1], v[n]>> \in Int \X Int BY <2>2, <2>3
  <2> QED BY <2>1, <2>4
<1>4. f \in [0..Len(v) -> Int] /\ f[0] = 0 BY <1>2 DEF IsFoldOf
<1>5. \A n \in 0..Len(v) : f[n] = IF n = 0 THEN 0 ELSE f[n - 1] + v[n] BY <1>3, <1>4
<1> QED BY <1>4, <1>5 DEF IsTotal

LEMMA TotalIs ==
    ASSUME NEW v \in Seq(Int), NEW f, IsTotal(f, v)
    PROVE  Total(v) = f[Len(v)]
<1>1. PICK g : g = CHOOSE h : IsTotal(h, v) OBVIOUS
<1>2. IsTotal(g, v)
  <2> HIDE DEF IsTotal
  <2> QED BY <1>1
<1>3. Total(v) = g[Len(v)] BY <1>1 DEF Total, IsTotal
<1>4. PICK l \in Nat : l = Len(v) OBVIOUS
<1> DEFINE Same == {n \in Nat : n <= l => f[n] = g[n]}
<1>5. 0 \in Same BY <1>2, <1>4 DEF IsTotal
<1>6. ASSUME NEW n \in Nat, n \in Same PROVE n + 1 \in Same
  <2> SUFFICES ASSUME n + 1 <= l PROVE f[n + 1] = g[n + 1]
    OBVIOUS
  <2>1. n + 1 \in 0..l /\ n + 1 # 0 /\ (n + 1) - 1 = n /\ f[n] = g[n] BY <1>4, <1>6
  <2>2. f[n + 1] = f[n] + v[n + 1] BY <1>4, <2>1 DEF IsTotal
  <2>3. g[n + 1] = g[n] + v[n + 1] BY <1>2, <1>4, <2>1 DEF IsTotal
  <2> QED BY <2>1, <2>2, <2>3
<1> HIDE DEF Same
<1>7. l \in Same BY <1>5, <1>6, SetInduction
<1> QED BY <1>3, <1>4, <1>7 DEF Same

LEMMA TotalAppend ==
    ASSUME NEW v \in Seq(Int), NEW x \in Int
    PROVE  Total(Append(v, x)) = Total(v) + x
<1>1. PICK f : IsTotal(f, v) /\ f \in [0..Len(v) -> Int] BY TotalExists
<1>2. PICK l \in Nat : l = Len(v) OBVIOUS
<1>3. PICK a \in Seq(Int) : a = Append(v, x) BY AppendProperties
<1>4. Len(a) = l + 1 /\ a[l + 1] = x /\ \A k \in 1..l : a[k] = v[k]
  BY <1>2, <1>3, AppendProperties
<1> DEFINE g == [n \in 0..(l + 1) |-> IF n = l + 1 THEN f[l] + x ELSE f[n]]
<1>5. \A n \in 0..l : f[n] = IF n = 0 THEN 0 ELSE f[n - 1] + v[n] BY <1>1, <1>2 DEF IsTotal
<1>6. \A n \in 0..(l + 1) : g[n] = IF n = 0 THEN 0 ELSE g[n - 1] + a[n]
  <2> SUFFICES ASSUME NEW n \in 0..(l + 1) PROVE g[n] = IF n = 0 THEN 0 ELSE g[n - 1] + a[n]
    OBVIOUS
  <2>1. CASE n = l + 1
    <3>1. n - 1 = l /\ l \in 0..(l + 1) /\ l # l + 1 /\ n # 0 BY <2>1
    <3> QED BY <1>4, <2>1, <3>1
  <2>2. CASE n = 0 BY <1>5, <2>2
  <2>3. CASE n # 0 /\ n # l + 1
    <3>1. n \in 1..l /\ n \in 0..l /\ n - 1 \in 0..(l + 1) /\ n - 1 # l + 1 BY <2>3
    <3> QED BY <1>4, <1>5, <2>3, <3>1
  <2> QED BY <2>1, <2>2, <2>3
<1>7. IsTotal(g, a) BY <1>4, <1>6 DEF IsTotal
<1>8. g[l + 1] = f[l] + x OBVIOUS
<1> HIDE DEF g
<1>9. Total(a) = g[l + 1] BY <1>4, <1>7, TotalIs
<1>10. Total(v) = f[l] BY <1>1, <1>2, TotalIs
<1> QED BY <1>3, <1>8, <1>9, <1>10

LEMMA TotalNone == Total(<<>>) = 0
<1>1. PICK v \in Seq(Int) : v = <<>>
  <2>1. <<>> \in Seq(Int) OBVIOUS
  <2> QED BY <2>1
<1>2. PICK f : IsTotal(f, v) BY TotalExists
<1>3. Len(v) = 0 BY <1>1
<1>4. f[0] = 0 BY <1>2, <1>3 DEF IsTotal
<1> QED BY <1>1, <1>2, <1>3, <1>4, TotalIs

LEMMA ColumnAppend ==
    ASSUME NEW B, NEW s \in Seq(B), NEW m \in B, NEW name
    PROVE  Column(Append(s, m), name) = Append(Column(s, name), m[name])
<1>1. PICK n \in Nat : n = Len(s) /\ DOMAIN s = 1..n BY LenProperties
<1>2. PICK a \in Seq(B) : a = Append(s, m) BY AppendProperties
<1>3. DOMAIN a = 1..(n + 1) /\ a[n + 1] = m /\ \A k \in 1..n : a[k] = s[k]
  BY <1>1, <1>2, AppendProperties
<1> DEFINE V == {s[k][name] : k \in DOMAIN s} \cup {m[name]}
<1>4. PICK c \in Seq(V) : c = Column(s, name) /\ Len(c) = n /\ \A k \in 1..n : c[k] = s[k][name]
  <2>1. Column(s, name) = [k \in 1..n |-> s[k][name]] BY <1>1 DEF Column
  <2>2. \A k \in 1..n : s[k][name] \in V BY <1>1
  <2> HIDE DEF V
  <2>3. [k \in 1..n |-> s[k][name]] \in Seq(V) BY <2>2
  <2> QED BY <2>1, <2>3
<1>5. m[name] \in V OBVIOUS
<1> HIDE DEF V
<1>6. PICK d \in Seq(V) : d = Append(c, m[name]) BY <1>5, AppendProperties
<1>7. Len(d) = n + 1 /\ d[n + 1] = m[name] /\ \A k \in 1..n : d[k] = c[k] /\ DOMAIN d = 1..(n + 1)
  BY <1>4, <1>5, <1>6, AppendProperties
<1>8. DOMAIN d = 1..(n + 1) BY <1>7, LenProperties
<1>9. \A k \in 1..(n + 1) : d[k] = a[k][name]
  <2> SUFFICES ASSUME NEW k \in 1..(n + 1) PROVE d[k] = a[k][name]
    OBVIOUS
  <2>1. CASE k = n + 1 BY <1>3, <1>7, <2>1
  <2>2. CASE k # n + 1
    <3>1. k \in 1..n BY <2>2
    <3> QED BY <1>3, <1>4, <1>7, <3>1
  <2> QED BY <2>1, <2>2
<1>10. d = [k \in 1..(n + 1) |-> a[k][name]]
  <2>1. d = [k \in DOMAIN d |-> d[k]] BY <1>6
  <2> QED BY <1>8, <1>9, <2>1
<1> QED BY <1>2, <1>3, <1>4, <1>6, <1>10 DEF Column

-----------------------------------------------------------------------------
\* The accumulator acc has added up the request metrics r and the iteration
\* metrics t.
Fields == {"requests", "iterations", "prompt", "hbm", "ddr", "miss", "ttfts", "waits", "depth"}

Adds(acc, r, t) ==
    /\ acc = [f \in Fields |-> acc[f]]
    /\ acc.requests = Len(r) /\ acc.iterations = Len(t)
    /\ acc.prompt = Total(Column(r, "prompt")) /\ acc.hbm = Total(Column(r, "hbm"))
    /\ acc.ddr = Total(Column(r, "ddr")) /\ acc.miss = Total(Column(r, "miss"))
    /\ acc.ttfts = Column(r, "ttft") /\ acc.waits = Total(Column(t, "waits"))
    /\ acc.depth \in {0} \cup Range(Column(t, "depth"))
    /\ \A d \in {0} \cup Range(Column(t, "depth")) : acc.depth >= d

\* The aggregator has an accumulator of all the metrics, and one of those of
\* every instance that has one.
Aggregates(agg, r, t) ==
    /\ DOMAIN agg = {0} \cup Range(Column(r, "instance")) \cup Range(Column(t, "instance"))
    /\ Adds(agg[0], r, t)
    /\ \A i \in DOMAIN agg \ {0} : Adds(agg[i], Of(r, i), Of(t, i))

NumberColumns == {"prompt", "hbm", "ddr", "miss"}

LEMMA ColumnNone == \A name : Column(<<>>, name) = <<>>
BY DEF Column

LEMMA ColumnType ==
    ASSUME NEW B, NEW s \in Seq(B), NEW name, NEW T, \A m \in B : m[name] \in T
    PROVE  /\ Column(s, name) \in Seq(T)
           /\ Range(Column(s, name)) = {s[n][name] : n \in DOMAIN s}
<1>1. PICK n \in Nat : n = Len(s) /\ DOMAIN s = 1..n BY LenProperties
<1>2. Column(s, name) = [k \in 1..n |-> s[k][name]] BY <1>1 DEF Column
<1>3. \A k \in 1..n : s[k][name] \in T
  <2>1. \A k \in 1..n : s[k] \in B BY <1>1, ElementOfSeq
  <2> QED BY <2>1
<1>4. [k \in 1..n |-> s[k][name]] \in Seq(T) BY <1>3
<1> QED BY <1>1, <1>2, <1>4 DEF Range

LEMMA ColumnRange ==
    ASSUME NEW s, NEW name
    PROVE  Range(Column(s, name)) = {s[n][name] : n \in DOMAIN s}
BY DEF Column, Range

LEMMA ColumnRangeAppend ==
    ASSUME NEW B, NEW s \in Seq(B), NEW m \in B, NEW name
    PROVE  Range(Column(Append(s, m), name)) = Range(Column(s, name)) \cup {m[name]}
<1>1. PICK n \in Nat : n = Len(s) /\ DOMAIN s = 1..n BY LenProperties
<1>2. PICK a \in Seq(B) : a = Append(s, m) BY AppendProperties
<1>3. DOMAIN a = 1..(n + 1) /\ a[n + 1] = m /\ \A k \in 1..n : a[k] = s[k]
  BY <1>1, <1>2, AppendProperties
<1>4. \A k \in 1..(n + 1) : k \in 1..n \/ k = n + 1 OBVIOUS
<1>5. \A k \in 1..n : k \in 1..(n + 1) OBVIOUS
<1>6. n + 1 \in 1..(n + 1) OBVIOUS
<1>7. {a[k][name] : k \in 1..(n + 1)} = {s[k][name] : k \in 1..n} \cup {m[name]}
  BY <1>3, <1>4, <1>5, <1>6
<1>8. Range(Column(s, name)) = {s[k][name] : k \in 1..n} BY <1>1, ColumnRange
<1>9. Range(Column(a, name)) = {a[k][name] : k \in 1..(n + 1)} BY <1>3, ColumnRange
<1> QED BY <1>2, <1>7, <1>8, <1>9

LEMMA AddsNothing == Adds(NewAccumulator, <<>>, <<>>)
<1>1. Range(Column(<<>>, "depth")) = {}
  <2>1. DOMAIN <<>> = {} OBVIOUS
  <2> QED BY <2>1, ColumnRange
<1>2. Len(<<>>) = 0 OBVIOUS
<1> QED BY <1>1, <1>2, ColumnNone, TotalNone DEF Adds, NewAccumulator, Fields

LEMMA AddsRequest ==
    ASSUME NEW acc, NEW r \in Seq(MetricRecord), NEW t, NEW m \in MetricRecord, Adds(acc, r, t)
    PROVE  Adds(AddRequest(acc, m), Append(r, m), t)
<1>1. \A name \in NumberColumns : Total(Column(Append(r, m), name)) = Total(Column(r, name)) + m[name]
  <2> SUFFICES ASSUME NEW name \in NumberColumns
               PROVE  Total(Column(Append(r, m), name)) = Total(Column(r, name)) + m[name]
    OBVIOUS
  <2>1. \A x \in MetricRecord : x[name] \in Int
    BY DEF NumberColumns, MetricRecord
  <2>2. Column(r, name) \in Seq(Int) BY <2>1, ColumnType
  <2>3. m[name] \in Int BY <2>1
  <2>4. Column(Append(r, m), name) = Append(Column(r, name), m[name]) BY ColumnAppend
  <2> QED BY <2>2, <2>3, <2>4, TotalAppend
<1>2. Column(Append(r, m), "ttft") = Append(Column(r, "ttft"), m.ttft) BY ColumnAppend
<1>3. Len(Append(r, m)) = Len(r) + 1 BY AppendProperties
<1>4. /\ Total(Column(Append(r, m), "prompt")) = Total(Column(r, "prompt")) + m.prompt
      /\ Total(Column(Append(r, m), "hbm")) = Total(Column(r, "hbm")) + m.hbm
      /\ Total(Column(Append(r, m), "ddr")) = Total(Column(r, "ddr")) + m.ddr
      /\ Total(Column(Append(r, m), "miss")) = Total(Column(r, "miss")) + m.miss
  BY <1>1 DEF NumberColumns
<1>5. PICK new : new = AddRequest(acc, m) OBVIOUS
<1>6. /\ new.requests = acc.requests + 1 /\ new.iterations = acc.iterations
      /\ new.prompt = acc.prompt + m.prompt /\ new.hbm = acc.hbm + m.hbm
      /\ new.ddr = acc.ddr + m.ddr /\ new.miss = acc.miss + m.miss
      /\ new.ttfts = Append(acc.ttfts, m.ttft) /\ new.waits = acc.waits
      /\ new.depth = acc.depth /\ new = [f \in Fields |-> new[f]]
  BY <1>5 DEF Adds, AddRequest, Fields
<1> QED BY <1>2, <1>3, <1>4, <1>5, <1>6 DEF Adds

LEMMA AddsIteration ==
    ASSUME NEW acc, NEW r, NEW t \in Seq(IterationRecord), NEW m \in IterationRecord, Adds(acc, r, t)
    PROVE  Adds(AddIteration(acc, m), r, Append(t, m))
<1>1. Total(Column(Append(t, m), "waits")) = Total(Column(t, "waits")) + m.waits
  <2>1. \A x \in IterationRecord : x["waits"] \in Int BY DEF IterationRecord
  <2>2. Column(t, "waits") \in Seq(Int) BY <2>1, ColumnType
  <2>3. Column(Append(t, m), "waits") = Append(Column(t, "waits"), m["waits"]) BY ColumnAppend
  <2> QED BY <2>1, <2>2, <2>3, TotalAppend
<1>2. Len(Append(t, m)) = Len(t) + 1 BY AppendProperties
<1>3. PICK D : D = {0} \cup Range(Column(t, "depth")) OBVIOUS
<1>4. Range(Column(Append(t, m), "depth")) = Range(Column(t, "depth")) \cup {m.depth}
  BY ColumnRangeAppend
<1>5. {0} \cup Range(Column(Append(t, m), "depth")) = D \cup {m.depth} BY <1>3, <1>4
<1>6. D \subseteq Int /\ m.depth \in Int
  <2>1. \A x \in IterationRecord : x["depth"] \in Int BY DEF IterationRecord
  <2>2. Range(Column(t, "depth")) = {t[n]["depth"] : n \in DOMAIN t} BY ColumnRange
  <2>3. \A n \in DOMAIN t : t[n] \in IterationRecord BY LenProperties, ElementOfSeq
  <2> QED BY <1>3, <2>1, <2>2, <2>3
<1>7. acc.depth \in D /\ \A d \in D : acc.depth >= d BY <1>3 DEF Adds
<1>8. PICK x : x = Max({acc.depth, m.depth}) OBVIOUS
<1>9. x \in {acc.depth, m.depth} /\ x >= acc.depth /\ x >= m.depth
  <2>1. PICK a \in Int, b \in Int : a = acc.depth /\ b = m.depth BY <1>6, <1>7
  <2>2. \E y \in {a, b} : \A z \in {a, b} : y >= z
    <3>1. CASE a >= b BY <3>1
    <3>2. CASE ~(a >= b)
      <4>1. b >= a /\ b >= b BY <3>2
      <4> QED BY <4>1
    <3> QED BY <3>1, <3>2
  <2>3. x = CHOOSE y \in {a, b} : \A z \in {a, b} : y >= z BY <1>8, <2>1 DEF Max
  <2>4. x \in {a, b} /\ \A z \in {a, b} : x >= z BY <2>2, <2>3
  <2> QED BY <2>1, <2>4
<1>10. x \in D \cup {m.depth} /\ \A d \in D \cup {m.depth} : x >= d
  <2>1. x \in Int /\ acc.depth \in Int BY <1>6, <1>7, <1>9
  <2>2. ASSUME NEW d \in D PROVE x >= d
    <3>1. d \in Int /\ acc.depth >= d BY <1>6, <1>7
    <3> QED BY <1>9, <2>1, <3>1
  <2> QED BY <1>7, <1>9, <2>2
<1>11. PICK new : new = AddIteration(acc, m) OBVIOUS
<1>12. /\ new.requests = acc.requests /\ new.iterations = acc.iterations + 1
       /\ new.prompt = acc.prompt /\ new.hbm = acc.hbm /\ new.ddr = acc.ddr /\ new.miss = acc.miss
       /\ new.ttfts = acc.ttfts /\ new.waits = acc.waits + m.waits
       /\ new.depth = x /\ new = [f \in Fields |-> new[f]]
  BY <1>8, <1>11 DEF Adds, AddIteration, Fields
<1> QED BY <1>1, <1>2, <1>5, <1>10, <1>11, <1>12 DEF Adds

\* A list after another, which grows by one item after the other.
Then(p, q) == p \o q

UpTo(p, q, n) == SubSeq(p \o q, 1, Len(p) + n)

LEMMA UpToGrows ==
    ASSUME NEW B, NEW p \in Seq(B), NEW q \in Seq(B)
    PROVE  /\ UpTo(p, q, 0) = p
           /\ UpTo(p, q, Len(q)) = Then(p, q)
           /\ \A n \in Nat : n + 1 <= Len(q) => UpTo(p, q, n + 1) = Append(UpTo(p, q, n), q[n + 1])
<1>1. PICK a \in Nat, b \in Nat : a = Len(p) /\ b = Len(q) BY LenProperties
<1>p. /\ p \o q \in Seq(B) /\ Len(p \o q) = Len(p) + Len(q)
      /\ \A k \in 1..Len(p) : (p \o q)[k] = p[k]
      /\ \A k \in 1..Len(q) : (p \o q)[Len(p) + k] = q[k]
  OBVIOUS
<1>q. PICK c : c = p \o q OBVIOUS
<1>2. /\ c \in Seq(B) /\ Len(c) = a + b
      /\ \A k \in 1..a : c[k] = p[k]
      /\ \A k \in 1..b : c[a + k] = q[k]
  BY <1>1, <1>p, <1>q
<1>3. ASSUME NEW n \in Nat, n <= a + b
      PROVE  /\ SubSeq(c, 1, n) \in Seq(B) /\ Len(SubSeq(c, 1, n)) = n
             /\ \A k \in 1..n : SubSeq(c, 1, n)[k] = c[k]
  <2>1. SubSeq(c, 1, n) = [k \in 1..n |-> c[k]] BY <1>2, <1>3
  <2>2. \A k \in 1..n : c[k] \in B
    <3>1. \A k \in 1..n : k \in 1..Len(c) BY <1>2, <1>3
    <3> QED BY <1>2, <3>1, ElementOfSeq
  <2> QED BY <2>1, <2>2
<1>4. SubSeq(c, 1, a) = p
  <2>1. a <= a + b OBVIOUS
  <2>2. PICK s \in Seq(B) : s = SubSeq(c, 1, a) /\ Len(s) = a /\ \A k \in 1..a : s[k] = c[k]
    BY <1>3, <2>1
  <2>3. \A k \in 1..a : s[k] = p[k] BY <1>2, <2>2
  <2> QED BY <1>1, <2>2, <2>3, SeqEqual
<1>5. ASSUME NEW n \in Nat, n + 1 <= b
      PROVE  SubSeq(c, 1, a + (n + 1)) = Append(SubSeq(c, 1, a + n), q[n + 1])
  <2>1. a + n \in Nat /\ a + (n + 1) \in Nat /\ a + n <= a + b /\ a + (n + 1) <= a + b
        /\ a + (n + 1) = (a + n) + 1 /\ n + 1 \in 1..b
    BY <1>5
  <2>2. PICK s \in Seq(B) : /\ s = SubSeq(c, 1, a + (n + 1)) /\ Len(s) = (a + n) + 1
                            /\ \A k \in 1..((a + n) + 1) : s[k] = c[k]
    BY <1>3, <2>1
  <2>3. PICK u \in Seq(B) : /\ u = SubSeq(c, 1, a + n) /\ Len(u) = a + n
                            /\ \A k \in 1..(a + n) : u[k] = c[k]
    BY <1>3, <2>1
  <2>4. q[n + 1] \in B BY <1>1, <2>1, ElementOfSeq
  <2>v. PICK v : v = Append(u, q[n + 1]) OBVIOUS
  <2>5. /\ v \in Seq(B) /\ Len(v) = (a + n) + 1
        /\ v[(a + n) + 1] = q[n + 1] /\ \A k \in 1..(a + n) : v[k] = u[k]
    BY <2>3, <2>4, <2>v, AppendProperties
  <2>6. \A k \in 1..((a + n) + 1) : s[k] = v[k]
    <3>1. c[(a + n) + 1] = q[n + 1] BY <1>2, <2>1
    <3>2. \A k \in 1..((a + n) + 1) : k \in 1..(a + n) \/ k = (a + n) + 1 BY <2>1
    <3> QED BY <2>2, <2>3, <2>5, <3>1, <3>2
  <2> QED BY <2>2, <2>3, <2>5, <2>v, <2>6, SeqEqual
<1>6. SubSeq(c, 1, a + b) = c BY <1>2, SubSeqFull
<1>7. UpTo(p, q, 0) = p BY <1>1, <1>q, <1>4 DEF UpTo
<1>8. UpTo(p, q, Len(q)) = Then(p, q) BY <1>1, <1>q, <1>6 DEF UpTo, Then
<1>9. ASSUME NEW n \in Nat, n + 1 <= Len(q) PROVE UpTo(p, q, n + 1) = Append(UpTo(p, q, n), q[n + 1])
  BY <1>1, <1>5, <1>9, <1>q DEF UpTo
<1> QED BY <1>7, <1>8, <1>9

LEMMA UpToStep ==
    ASSUME NEW B, NEW p \in Seq(B), NEW q \in Seq(B), NEW n \in Nat, n + 1 <= Len(q)
    PROVE  UpTo(p, q, n + 1) = Append(UpTo(p, q, n), q[n + 1])
BY UpToGrows

\* One more request metric.
LEMMA OneRequest ==
    ASSUME NEW agg, NEW r \in Seq(MetricRecord), NEW t \in Seq(IterationRecord),
           NEW m \in MetricRecord, m.instance # 0, Aggregates(agg, r, t)
    PROVE  Aggregates(OnRequest(agg, m), Append(r, m), t)
<1>1. PICK i : i = m.instance /\ i # 0 OBVIOUS
<1>2. PICK new : new = OnRequest(agg, m) OBVIOUS
<1> DEFINE old == [s \in DOMAIN agg \cup {i} |-> IF s \in DOMAIN agg THEN agg[s] ELSE NewAccumulator]
<1>3. /\ DOMAIN new = DOMAIN agg \cup {i}
      /\ new[0] = AddRequest(old[0], m) /\ new[i] = AddRequest(old[i], m)
      /\ \A s \in DOMAIN new \ {0, i} : new[s] = old[s]
  <2>1. 0 \in DOMAIN agg BY DEF Aggregates
  <2> QED BY <1>1, <1>2, <2>1 DEF OnRequest, WithInstance
<1>4. /\ Adds(old[0], r, t)
      /\ \A s \in (DOMAIN agg \cup {i}) \ {0} : Adds(old[s], Of(r, s), Of(t, s))
  <2>1. Adds(agg[0], r, t) /\ 0 \in DOMAIN agg BY DEF Aggregates
  <2>2. \A s \in DOMAIN agg \ {0} : Adds(agg[s], Of(r, s), Of(t, s)) BY DEF Aggregates
  <2>3. CASE i \in DOMAIN agg BY <2>1, <2>2, <2>3
  <2>4. CASE i \notin DOMAIN agg
    <3>1. i \notin Range(Column(r, "instance")) /\ i \notin Range(Column(t, "instance"))
      BY <2>4 DEF Aggregates
    <3>2. /\ \A n \in DOMAIN r : r[n].instance # i
          /\ \A n \in DOMAIN t : t[n].instance # i
      BY <3>1, ColumnRange
    <3>3. Of(r, i) = <<>> /\ Of(t, i) = <<>> BY <3>2, OfMembers
    <3>4. Adds(old[i], Of(r, i), Of(t, i)) BY <2>4, <3>3, AddsNothing
    <3>5. \A s \in DOMAIN agg : old[s] = agg[s] OBVIOUS
    <3> HIDE DEF old
    <3> QED BY <2>1, <2>2, <3>4, <3>5
  <2> QED BY <2>3, <2>4
<1> HIDE DEF old
<1>5. Range(Column(Append(r, m), "instance")) = Range(Column(r, "instance")) \cup {i}
  BY <1>1, ColumnRangeAppend
<1>6. DOMAIN new = {0} \cup Range(Column(Append(r, m), "instance"))
                      \cup Range(Column(t, "instance"))
  BY <1>3, <1>5 DEF Aggregates
<1>7. Adds(new[0], Append(r, m), t) BY <1>3, <1>4, AddsRequest
<1>8. ASSUME NEW s \in DOMAIN new \ {0} PROVE Adds(new[s], Of(Append(r, m), s), Of(t, s))
  <2>1. Adds(old[s], Of(r, s), Of(t, s)) BY <1>3, <1>4
  <2>2. Of(Append(r, m), s) = IF i = s THEN Append(Of(r, s), m) ELSE Of(r, s)
    BY <1>1, OfAppend
  <2>3. Of(r, s) \in Seq(MetricRecord) BY OfMembers
  <2>4. CASE s = i
    <3>1. Adds(AddRequest(old[s], m), Append(Of(r, s), m), Of(t, s))
      BY <2>1, <2>3, AddsRequest
    <3> QED BY <1>3, <2>2, <2>4, <3>1
  <2>5. CASE s # i BY <1>3, <2>1, <2>2, <2>5
  <2> QED BY <2>4, <2>5
<1> QED BY <1>2, <1>6, <1>7, <1>8 DEF Aggregates

\* And many: the recursive function of OnRequests exists, and its last value is
\* the aggregator of all of them.
LEMMA ManyRequests ==
    ASSUME NEW agg, NEW r \in Seq(MetricRecord), NEW t \in Seq(IterationRecord),
           NEW ms \in Seq(MetricRecord), \A k \in DOMAIN ms : ms[k].instance # 0,
           Aggregates(agg, r, t)
    PROVE  Aggregates(OnRequests(agg, ms), Then(r, ms), t)
<1>1. PICK l \in Nat : l = Len(ms) /\ DOMAIN ms = 1..l BY LenProperties
<1> DEFINE IsRun(f, n) ==
               f = [k \in 0..n |-> IF k = 0 THEN agg ELSE OnRequest(f[k - 1], ms[k])]
           Runs == {n \in Nat : \E f : IsRun(f, n)}
<1>2. 0 \in Runs
  <2>1. [k \in 0..0 |-> agg] = [k \in 0..0 |-> IF k = 0 THEN agg
                                 ELSE OnRequest([j \in 0..0 |-> agg][k - 1], ms[k])]
    OBVIOUS
  <2> QED BY <2>1
<1>3. ASSUME NEW n \in Nat, n \in Runs PROVE n + 1 \in Runs
  <2>1. PICK f : IsRun(f, n) BY <1>3
  <2>2. \A k \in 0..n : f[k] = IF k = 0 THEN agg ELSE OnRequest(f[k - 1], ms[k]) BY <2>1
  <2> DEFINE g == [k \in 0..(n + 1) |-> IF k = n + 1 THEN OnRequest(f[n], ms[n + 1]) ELSE f[k]]
  <2>3. \A k \in 0..(n + 1) : g[k] = IF k = 0 THEN agg ELSE OnRequest(g[k - 1], ms[k])
    <3> SUFFICES ASSUME NEW k \in 0..(n + 1)
                 PROVE  g[k] = IF k = 0 THEN agg ELSE OnRequest(g[k - 1], ms[k])
      OBVIOUS
    <3>1. CASE k = n + 1
      <4>1. k - 1 = n /\ n \in 0..(n + 1) /\ n # n + 1 /\ k # 0 BY <3>1
      <4>2. g[k] = OnRequest(f[n], ms[n + 1]) /\ g[n] = f[n] BY <3>1, <4>1
      <4> HIDE DEF g
      <4> QED BY <3>1, <4>1, <4>2
    <3>2. CASE k # n + 1
      <4>1. k \in 0..n BY <3>2
      <4>2. k # 0 => k - 1 \in 0..(n + 1) /\ k - 1 # n + 1 BY <3>2
      <4>3. g[k] = f[k] /\ (k # 0 => g[k - 1] = f[k - 1]) BY <3>2, <4>2
      <4> HIDE DEF g
      <4> QED BY <2>2, <4>1, <4>3
    <3> QED BY <3>1, <3>2
  <2>4. g = [k \in 0..(n + 1) |-> g[k]] OBVIOUS
  <2> HIDE DEF g
  <2>5. IsRun(g, n + 1) BY <2>3, <2>4
  <2> HIDE DEF IsRun
  <2> QED BY <2>5
<1>4. l \in Runs
  <2> HIDE DEF Runs
  <2> QED BY <1>2, <1>3, SetInduction
<1>5. PICK f : f = CHOOSE g : IsRun(g, l) OBVIOUS
<1>6. IsRun(f, l)
  <2> HIDE DEF IsRun
  <2> QED BY <1>4, <1>5
<1>7. OnRequests(agg, ms) = f[l] BY <1>1, <1>5 DEF OnRequests
<1>8. \A k \in 0..l : f[k] = IF k = 0 THEN agg ELSE OnRequest(f[k - 1], ms[k]) BY <1>6
<1> HIDE DEF IsRun
<1> DEFINE upTo(n) == UpTo(r, ms, n)
           Good == {n \in Nat : n <= l => upTo(n) \in Seq(MetricRecord) /\ Aggregates(f[n], upTo(n), t)}
<1>10. 0 \in Good
  <2>2. upTo(0) = r BY UpToGrows
  <2>3. f[0] = agg BY <1>8
  <2> HIDE DEF upTo
  <2> QED BY <2>2, <2>3
<1>11. ASSUME NEW n \in Nat, n \in Good PROVE n + 1 \in Good
  <2> SUFFICES ASSUME n + 1 <= l
               PROVE  upTo(n + 1) \in Seq(MetricRecord) /\ Aggregates(f[n + 1], upTo(n + 1), t)
    OBVIOUS
  <2>1. upTo(n) \in Seq(MetricRecord) /\ Aggregates(f[n], upTo(n), t) BY <1>11
  <2>2. upTo(n + 1) = Append(upTo(n), ms[n + 1]) BY <1>1, UpToStep
  <2>3. n + 1 \in 1..l /\ n + 1 \in 0..l /\ (n + 1) - 1 = n /\ n + 1 # 0 BY <1>1
  <2>4. ms[n + 1] \in MetricRecord /\ ms[n + 1].instance # 0 BY <1>1, <2>3, ElementOfSeq
  <2>5. f[n + 1] = OnRequest(f[n], ms[n + 1]) BY <1>8, <2>3
  <2> HIDE DEF upTo
  <2>6. Append(upTo(n), ms[n + 1]) \in Seq(MetricRecord) BY <2>1, <2>4, AppendProperties
  <2> QED BY <2>1, <2>2, <2>4, <2>5, <2>6, OneRequest
<1> HIDE DEF Good, upTo
<1>12. l \in Good BY <1>10, <1>11, SetInduction
<1>13. UpTo(r, ms, l) = Then(r, ms) BY <1>1, UpToGrows
<1> QED BY <1>7, <1>12, <1>13 DEF Good, upTo


\* One more iteration metric.
LEMMA OneIteration ==
    ASSUME NEW agg, NEW r \in Seq(MetricRecord), NEW t \in Seq(IterationRecord),
           NEW m \in IterationRecord, m.instance # 0, Aggregates(agg, r, t)
    PROVE  Aggregates(OnIteration(agg, m), r, Append(t, m))
<1>1. PICK i : i = m.instance /\ i # 0 OBVIOUS
<1>2. PICK new : new = OnIteration(agg, m) OBVIOUS
<1> DEFINE old == [s \in DOMAIN agg \cup {i} |-> IF s \in DOMAIN agg THEN agg[s] ELSE NewAccumulator]
<1>3. /\ DOMAIN new = DOMAIN agg \cup {i}
      /\ new[0] = AddIteration(old[0], m) /\ new[i] = AddIteration(old[i], m)
      /\ \A s \in DOMAIN new \ {0, i} : new[s] = old[s]
  <2>1. 0 \in DOMAIN agg BY DEF Aggregates
  <2> QED BY <1>1, <1>2, <2>1 DEF OnIteration, WithInstance
<1>4. /\ Adds(old[0], r, t)
      /\ \A s \in (DOMAIN agg \cup {i}) \ {0} : Adds(old[s], Of(r, s), Of(t, s))
  <2>1. Adds(agg[0], r, t) /\ 0 \in DOMAIN agg BY DEF Aggregates
  <2>2. \A s \in DOMAIN agg \ {0} : Adds(agg[s], Of(r, s), Of(t, s)) BY DEF Aggregates
  <2>3. CASE i \in DOMAIN agg BY <2>1, <2>2, <2>3
  <2>4. CASE i \notin DOMAIN agg
    <3>1. i \notin Range(Column(r, "instance")) /\ i \notin Range(Column(t, "instance"))
      BY <2>4 DEF Aggregates
    <3>2. /\ \A n \in DOMAIN r : r[n].instance # i
          /\ \A n \in DOMAIN t : t[n].instance # i
      BY <3>1, ColumnRange
    <3>3. Of(r, i) = <<>> /\ Of(t, i) = <<>> BY <3>2, OfMembers
    <3>4. Adds(old[i], Of(r, i), Of(t, i)) BY <2>4, <3>3, AddsNothing
    <3>5. \A s \in DOMAIN agg : old[s] = agg[s] OBVIOUS
    <3> HIDE DEF old
    <3> QED BY <2>1, <2>2, <3>4, <3>5
  <2> QED BY <2>3, <2>4
<1> HIDE DEF old
<1>5. Range(Column(Append(t, m), "instance")) = Range(Column(t, "instance")) \cup {i}
  BY <1>1, ColumnRangeAppend
<1>6. DOMAIN new = {0} \cup Range(Column(r, "instance"))
                      \cup Range(Column(Append(t, m), "instance"))
  BY <1>3, <1>5 DEF Aggregates
<1>7. Adds(new[0], r, Append(t, m)) BY <1>3, <1>4, AddsIteration
<1>8. ASSUME NEW s \in DOMAIN new \ {0} PROVE Adds(new[s], Of(r, s), Of(Append(t, m), s))
  <2>1. Adds(old[s], Of(r, s), Of(t, s)) BY <1>3, <1>4
  <2>2. Of(Append(t, m), s) = IF i = s THEN Append(Of(t, s), m) ELSE Of(t, s)
    BY <1>1, OfAppend
  <2>3. Of(t, s) \in Seq(IterationRecord) BY OfMembers
  <2>4. CASE s = i
    <3>1. Adds(AddIteration(old[s], m), Of(r, s), Append(Of(t, s), m))
      BY <2>1, <2>3, AddsIteration
    <3> QED BY <1>3, <2>2, <2>4, <3>1
  <2>5. CASE s # i BY <1>3, <2>1, <2>2, <2>5
  <2> QED BY <2>4, <2>5
<1> QED BY <1>2, <1>6, <1>7, <1>8 DEF Aggregates

\* And many: the recursive function of OnIterations exists, and its last value is
\* the aggregator of all of them.
LEMMA ManyIterations ==
    ASSUME NEW agg, NEW r \in Seq(MetricRecord), NEW t \in Seq(IterationRecord),
           NEW ms \in Seq(IterationRecord), \A k \in DOMAIN ms : ms[k].instance # 0,
           Aggregates(agg, r, t)
    PROVE  Aggregates(OnIterations(agg, ms), r, Then(t, ms))
<1>1. PICK l \in Nat : l = Len(ms) /\ DOMAIN ms = 1..l BY LenProperties
<1> DEFINE IsRun(f, n) ==
               f = [k \in 0..n |-> IF k = 0 THEN agg ELSE OnIteration(f[k - 1], ms[k])]
           Runs == {n \in Nat : \E f : IsRun(f, n)}
<1>2. 0 \in Runs
  <2>1. [k \in 0..0 |-> agg] = [k \in 0..0 |-> IF k = 0 THEN agg
                                 ELSE OnIteration([j \in 0..0 |-> agg][k - 1], ms[k])]
    OBVIOUS
  <2> QED BY <2>1
<1>3. ASSUME NEW n \in Nat, n \in Runs PROVE n + 1 \in Runs
  <2>1. PICK f : IsRun(f, n) BY <1>3
  <2>2. \A k \in 0..n : f[k] = IF k = 0 THEN agg ELSE OnIteration(f[k - 1], ms[k]) BY <2>1
  <2> DEFINE g == [k \in 0..(n + 1) |-> IF k = n + 1 THEN OnIteration(f[n], ms[n + 1]) ELSE f[k]]
  <2>3. \A k \in 0..(n + 1) : g[k] = IF k = 0 THEN agg ELSE OnIteration(g[k - 1], ms[k])
    <3> SUFFICES ASSUME NEW k \in 0..(n + 1)
                 PROVE  g[k] = IF k = 0 THEN agg ELSE OnIteration(g[k - 1], ms[k])
      OBVIOUS
    <3>1. CASE k = n + 1
      <4>1. k - 1 = n /\ n \in 0..(n + 1) /\ n # n + 1 /\ k # 0 BY <3>1
      <4>2. g[k] = OnIteration(f[n], ms[n + 1]) /\ g[n] = f[n] BY <3>1, <4>1
      <4> HIDE DEF g
      <4> QED BY <3>1, <4>1, <4>2
    <3>2. CASE k # n + 1
      <4>1. k \in 0..n BY <3>2
      <4>2. k # 0 => k - 1 \in 0..(n + 1) /\ k - 1 # n + 1 BY <3>2
      <4>3. g[k] = f[k] /\ (k # 0 => g[k - 1] = f[k - 1]) BY <3>2, <4>2
      <4> HIDE DEF g
      <4> QED BY <2>2, <4>1, <4>3
    <3> QED BY <3>1, <3>2
  <2>4. g = [k \in 0..(n + 1) |-> g[k]] OBVIOUS
  <2> HIDE DEF g
  <2>5. IsRun(g, n + 1) BY <2>3, <2>4
  <2> HIDE DEF IsRun
  <2> QED BY <2>5
<1>4. l \in Runs
  <2> HIDE DEF Runs
  <2> QED BY <1>2, <1>3, SetInduction
<1>5. PICK f : f = CHOOSE g : IsRun(g, l) OBVIOUS
<1>6. IsRun(f, l)
  <2> HIDE DEF IsRun
  <2> QED BY <1>4, <1>5
<1>7. OnIterations(agg, ms) = f[l] BY <1>1, <1>5 DEF OnIterations
<1>8. \A k \in 0..l : f[k] = IF k = 0 THEN agg ELSE OnIteration(f[k - 1], ms[k]) BY <1>6
<1> HIDE DEF IsRun
<1> DEFINE upTo(n) == UpTo(t, ms, n)
           Good == {n \in Nat : n <= l => upTo(n) \in Seq(IterationRecord) /\ Aggregates(f[n], r, upTo(n))}
<1>10. 0 \in Good
  <2>2. upTo(0) = t BY UpToGrows
  <2>3. f[0] = agg BY <1>8
  <2> HIDE DEF upTo
  <2> QED BY <2>2, <2>3
<1>11. ASSUME NEW n \in Nat, n \in Good PROVE n + 1 \in Good
  <2> SUFFICES ASSUME n + 1 <= l
               PROVE  upTo(n + 1) \in Seq(IterationRecord) /\ Aggregates(f[n + 1], r, upTo(n + 1))
    OBVIOUS
  <2>1. upTo(n) \in Seq(IterationRecord) /\ Aggregates(f[n], r, upTo(n)) BY <1>11
  <2>2. upTo(n + 1) = Append(upTo(n), ms[n + 1]) BY <1>1, UpToStep
  <2>3. n + 1 \in 1..l /\ n + 1 \in 0..l /\ (n + 1) - 1 = n /\ n + 1 # 0 BY <1>1
  <2>4. ms[n + 1] \in IterationRecord /\ ms[n + 1].instance # 0 BY <1>1, <2>3, ElementOfSeq
  <2>5. f[n + 1] = OnIteration(f[n], ms[n + 1]) BY <1>8, <2>3
  <2> HIDE DEF upTo
  <2>6. Append(upTo(n), ms[n + 1]) \in Seq(IterationRecord) BY <2>1, <2>4, AppendProperties
  <2> QED BY <2>1, <2>2, <2>4, <2>5, <2>6, OneIteration
<1> HIDE DEF Good, upTo
<1>12. l \in Good BY <1>10, <1>11, SetInduction
<1>13. UpTo(t, ms, l) = Then(t, ms) BY <1>1, UpToGrows
<1> QED BY <1>7, <1>12, <1>13 DEF Good, upTo

\* Nothing was reported to a new aggregator.
LEMMA AggregatesNothing == Aggregates(NewAggregator, <<>>, <<>>)
<1>1. Range(Column(<<>>, "instance")) = {}
  <2>1. DOMAIN <<>> = {} OBVIOUS
  <2> QED BY <2>1, ColumnRange
<1>2. DOMAIN NewAggregator = {0} /\ NewAggregator[0] = NewAccumulator BY DEF NewAggregator
<1> QED BY <1>1, <1>2, AddsNothing DEF Aggregates

\* An accumulator makes the row that is made of what it has added up.
LEMMA SameRow ==
    ASSUME NEW acc, NEW r, NEW t \in Seq(IterationRecord), Adds(acc, r, t), NEW c, NEW i
    PROVE  AccumulatorRow(acc, c, i) = AggregateRow(r, t, c, i)
<1> DEFINE D == {0} \cup Range(Column(t, "depth"))
<1>1. acc.depth \in D /\ \A d \in D : acc.depth >= d BY DEF Adds
<1>2. D \subseteq Int
  <2>1. \A x \in IterationRecord : x["depth"] \in Int BY DEF IterationRecord
  <2>2. Range(Column(t, "depth")) = {t[n]["depth"] : n \in DOMAIN t} BY ColumnRange
  <2>3. \A n \in DOMAIN t : t[n] \in IterationRecord BY LenProperties, ElementOfSeq
  <2> QED BY <2>1, <2>2, <2>3
<1>3. Max(D) = acc.depth
  <2> HIDE DEF D
  <2>1. PICK x : x = Max(D) OBVIOUS
  <2>2. x \in D /\ \A d \in D : x >= d BY <1>1, <2>1 DEF Max
  <2>3. x >= acc.depth /\ acc.depth >= x /\ x \in Int /\ acc.depth \in Int BY <1>1, <1>2, <2>2
  <2> QED BY <2>1, <2>3
<1> QED BY <1>3 DEF Adds, AccumulatorRow, AggregateRow

\* The rows of an aggregator are those of the lists of what it was given.
LEMMA SameRows ==
    ASSUME NEW agg, NEW r \in Seq(MetricRecord), NEW t \in Seq(IterationRecord), NEW c,
           \A n \in DOMAIN r : r[n].instance # 0, Aggregates(agg, r, t)
    PROVE  /\ StreamingRows(agg, c) = InMemoryRows(r, t, c)
           /\ StreamingRows(agg, c)[0].requests = Len(r)
<1> DEFINE shown == {j \in DOMAIN agg : j = 0 \/ agg[j].requests > 0}
           scopes == {0} \cup Range(Column(r, "instance"))
<1>1. 0 \in DOMAIN agg /\ Adds(agg[0], r, t) BY DEF Aggregates
<1>2. \A j \in DOMAIN agg \ {0} : Adds(agg[j], Of(r, j), Of(t, j)) BY DEF Aggregates
<1>3. \A j \in DOMAIN agg \ {0} : agg[j].requests > 0 <=> j \in Range(Column(r, "instance"))
  <2> SUFFICES ASSUME NEW j \in DOMAIN agg \ {0}
               PROVE  agg[j].requests > 0 <=> j \in Range(Column(r, "instance"))
    OBVIOUS
  <2>1. agg[j].requests = Len(Of(r, j)) BY <1>2 DEF Adds
  <2>2. Len(Of(r, j)) > 0 <=> \E n \in DOMAIN r : r[n].instance = j BY OfMembers
  <2>3. j \in Range(Column(r, "instance")) <=> \E n \in DOMAIN r : r[n].instance = j BY ColumnRange
  <2> QED BY <2>1, <2>2, <2>3
<1>4. scopes \subseteq DOMAIN agg BY DEF Aggregates
<1>5. shown = scopes BY <1>1, <1>3, <1>4
<1>6. \A j \in scopes : AccumulatorRow(agg[j], c, j) =
                          IF j = 0 THEN AggregateRow(r, t, c, j)
                          ELSE AggregateRow(Of(r, j), Of(t, j), c, j)
  <2> SUFFICES ASSUME NEW j \in scopes
               PROVE  AccumulatorRow(agg[j], c, j) =
                          IF j = 0 THEN AggregateRow(r, t, c, j)
                          ELSE AggregateRow(Of(r, j), Of(t, j), c, j)
    OBVIOUS
  <2>1. CASE j = 0 BY <1>1, <2>1, SameRow
  <2>2. CASE j # 0
    <3>1. Adds(agg[j], Of(r, j), Of(t, j)) BY <1>2, <1>4, <2>2
    <3>2. Of(t, j) \in Seq(IterationRecord) BY OfMembers
    <3> QED BY <2>2, <3>1, <3>2, SameRow
  <2> QED BY <2>1, <2>2
<1>7. StreamingRows(agg, c) = [j \in shown |-> AccumulatorRow(agg[j], c, j)] BY DEF StreamingRows
<1>8. InMemoryRows(r, t, c) = [j \in scopes |-> IF j = 0 THEN AggregateRow(r, t, c, j)
                                               ELSE AggregateRow(Of(r, j), Of(t, j), c, j)]
  BY DEF InMemoryRows
<1>9. 0 \in scopes OBVIOUS
<1> HIDE DEF shown, scopes
<1>10. StreamingRows(agg, c) = InMemoryRows(r, t, c) BY <1>5, <1>6, <1>7, <1>8
<1>11. StreamingRows(agg, c)[0] = AggregateRow(r, t, c, 0) BY <1>8, <1>9, <1>10
<1> QED BY <1>10, <1>11 DEF AggregateRow, Row

\* The aggregator has added up what the sink was given, and the rows of every
\* capacity that is done are those of the lists, over all accepted requests.
RowsInv ==
    /\ iterations \in Seq(IterationRecord)
    /\ Aggregates(aggregator, reported, iterations)
    /\ \E V : rows \in Seq(V)
    /\ rows = inMemory
    /\ \A n \in DOMAIN rows : rows[n][0].requests = accepted
    /\ sweep = "build" => rows = <<>>

LEMMA InitRows ==
    ASSUME Init
    PROVE  RowsInv
<1>1. /\ iterations = <<>> /\ aggregator = NewAggregator /\ reported = <<>>
      /\ rows = <<>> /\ inMemory = <<>>
  BY DEF Init, ReplayInit
<1>2. iterations \in Seq(IterationRecord) BY <1>1
<1>3. rows \in Seq({}) BY <1>1
<1>4. \A n \in DOMAIN rows : FALSE BY <1>1
<1> QED BY <1>1, <1>2, <1>3, <1>4, AggregatesNothing DEF RowsInv

\* What is reported is added up.
LEMMA EmitAdds ==
    ASSUME RowsInv, ReportInv, NEW ms \in Seq(MetricRecord), NEW its \in Seq(IterationRecord),
           \A k \in DOMAIN ms : ms[k].instance # 0, \A k \in DOMAIN its : its[k].instance # 0,
           NEW sts, Emit(ms, sts, its)
    PROVE  /\ iterations' \in Seq(IterationRecord)
           /\ Aggregates(aggregator', reported', iterations')
<1>1. /\ reported' = Then(reported, ms) /\ iterations' = Then(iterations, its)
      /\ aggregator' = OnIterations(OnRequests(aggregator, ms), its)
  BY DEF Emit, Then
<1>2. /\ reported \in Seq(MetricRecord) /\ iterations \in Seq(IterationRecord)
      /\ Aggregates(aggregator, reported, iterations)
  BY DEF RowsInv, ReportInv, ReportedOnce
<1>3. Aggregates(OnRequests(aggregator, ms), Then(reported, ms), iterations)
  BY <1>2, ManyRequests
<1>4. Then(reported, ms) \in Seq(MetricRecord) BY <1>2 DEF Then
<1>5. Then(iterations, its) \in Seq(IterationRecord) BY <1>2 DEF Then
<1>6. Aggregates(OnIterations(OnRequests(aggregator, ms), its), Then(reported, ms),
                 Then(iterations, its))
  BY <1>2, <1>3, <1>4, ManyIterations
<1> QED BY <1>1, <1>5, <1>6

LEMMA RowsSame ==
    ASSUME RowsInv, iterations' \in Seq(IterationRecord),
           Aggregates(aggregator', reported', iterations'),
           UNCHANGED <<rows, inMemory, accepted>>, sweep' = "build" => sweep = "build"
    PROVE  RowsInv'
BY DEF RowsInv

LEMMA ReplayAdds ==
    ASSUME FullInv, RowsInv, Replay
    PROVE  RowsInv'
<1>1. /\ UNCHANGED <<sweep, rows, inMemory, accepted>> /\ ReplayNext /\ sweep = "replay"
  BY DEF Replay, buildVars, sweepVars
<1>2. /\ SweepInv /\ StageInv /\ LiveInv /\ ReportInv BY DEF FullInv
<1>3. \A i \in Instances : i # 0 BY InstancesAssumption
<1>4. SUFFICES /\ iterations' \in Seq(IterationRecord)
               /\ Aggregates(aggregator', reported', iterations')
  BY <1>1, RowsSame
<1>5. CASE UNCHANGED <<aggregator, reported, iterations>> BY <1>5 DEF RowsInv
<1>6. CASE ReportFrontier
  <2>1. stage \in LiveStages /\ Emit(metrics, states, <<>>)
    BY <1>6 DEF ReportFrontier, LiveStages
  <2>2. current \in Instances BY <1>2, <2>1 DEF SweepInv, ReadsOwnShard
  <2>3. /\ metrics \in Seq(MetricRecord)
        /\ \A k \in DOMAIN metrics : metrics[k].instance = current
    BY <1>2 DEF LiveInv, PlacesOf, EntriesOf
  <2>4. \A k \in DOMAIN metrics : metrics[k].instance # 0 BY <1>3, <2>2, <2>3
  <2>5. PICK its \in Seq(IterationRecord) : its = <<>> /\ \A k \in DOMAIN its : FALSE
    <3>1. <<>> \in Seq(IterationRecord) /\ DOMAIN <<>> = {} OBVIOUS
    <3> QED BY <3>1
  <2>6. Emit(metrics, states, its) BY <2>1, <2>5
  <2>7. \A k \in DOMAIN its : its[k].instance # 0 BY <2>5
  <2> QED BY <1>2, <2>3, <2>4, <2>6, <2>7, EmitAdds
<1>7. CASE Schedule
  <2>1. stage = "schedule" BY <1>7 DEF Schedule
  <2>2. current \in Instances /\ metrics = <<>>
    BY <1>2, <2>1 DEF StageInv, SweepInv
  <2>3. PICK b \in Batches, d \in Durations : Iterate(b[1], b[2], now + d) BY <1>7 DEF Schedule
  <2>4. PICK r \in 0..Len(running), k \in 0..QueueLen(waiting) : r = b[1] /\ k = b[2]
    <3>1. b[1] \in 0..Len(running) /\ b[2] \in 0..QueueLen(waiting) BY DEF Batches
    <3> QED BY <3>1
  <2>5. \A j \in 1..k : LookedUp(At(waiting, j)) BY <2>4 DEF Batches
  <2>6. PICK finish \in Nat : finish = now + d
    <3>1. now + d \in Nat BY <1>2, ReplayAssumption DEF LiveInv
    <3> QED BY <3>1
  <2> DEFINE q   == SubSeq(Contents(waiting), k + 1, Len(Contents(waiting)))
             ms  == ResultsOf(r, k, finish)
             sts == Advanced(BatchOf(r, k))
             its == <<IterationMetric(r + k, finish)>>
  <2>7. Emit(ms, sts, its)
    <3>1. Iterate(r, k, finish) BY <2>3, <2>4, <2>6
    <3> QED BY <3>1 DEF Iterate, ResultsOf, FinishedOf, BatchOf, Admitted
  <2>8. /\ PlacesOf(q, RunningOf(r, k), ms, sts)
        /\ EntriesOf(RunningOf(r, k), ms, sts, lookups, current)
    BY <1>2, <2>2, <2>5, IterateParts
  <2>9. IterationMetric(r + k, finish) \in IterationRecord
        /\ IterationMetric(r + k, finish).instance = current
    <3>1. QueueLen(waiting) \in Nat
      <4>1. waiting \in Queues(Nat) BY <1>2 DEF LiveInv
      <4>2. QueueLen(waiting) = Len(Contents(waiting)) /\ Contents(waiting) \in Seq(Nat)
        BY <4>1, ContentsProperties
      <4> QED BY <4>2
    <3>2. running \in Seq(Nat) /\ current \in Nat BY <1>2 DEF LiveInv, PlacesOf
    <3>3. Len(running) \in Nat BY <3>2
    <3>4. r \in Nat /\ k \in Nat BY <3>1, <3>3
    <3> QED BY <3>1, <3>2, <3>3, <3>4 DEF IterationMetric, IterationRecord
  <2>10. its \in Seq(IterationRecord) /\ \A n \in DOMAIN its : its[n].instance # 0
    <3>1. PICK x \in IterationRecord : x = IterationMetric(r + k, finish) /\ x.instance # 0
      BY <1>3, <2>2, <2>9
    <3>2. <<x>> \in Seq(IterationRecord) /\ \A n \in DOMAIN <<x>> : <<x>>[n] = x OBVIOUS
    <3> QED BY <3>1, <3>2
  <2> HIDE DEF q, ms, sts, its
  <2>11. ms \in Seq(MetricRecord) /\ \A n \in DOMAIN ms : ms[n].instance # 0
    BY <1>3, <2>2, <2>8 DEF PlacesOf, EntriesOf
  <2> QED BY <1>2, <2>7, <2>10, <2>11, EmitAdds
<1> QED BY <1>1, <1>5, <1>6, <1>7 DEF ReplayNext, Arrive, ArrivalsDone, Scan, FrontierDone

LEMMA RowsStep ==
    ASSUME FullInv, ExactlyOnce', RowsInv, [Next]_vars
    PROVE  RowsInv'
<1>1. CASE Build
  <2>1. UNCHANGED <<replayVars, sweepVars>> /\ sweep = "build"
    BY <1>1, BuildStepReads DEF Build, FullInv, SweepInv, BuildFirst
  <2>2. UNCHANGED <<aggregator, reported, iterations, rows, inMemory, sweep>>
    BY <2>1 DEF replayVars, sweepVars
  <2>3. rows' = <<>> BY <2>1, <2>2 DEF RowsInv
  <2>4. \A n \in DOMAIN rows' : FALSE BY <2>3
  <2> QED BY <2>2, <2>3, <2>4 DEF RowsInv
<1>2. CASE BeginCapacity
  <2>1. /\ aggregator' = NewAggregator /\ reported' = <<>> /\ iterations' = <<>>
        /\ sweep' = "replay" /\ UNCHANGED <<rows, inMemory, accepted>>
    BY <1>2 DEF BeginCapacity, buildVars
  <2>2. iterations' \in Seq(IterationRecord) BY <2>1
  <2>3. Aggregates(aggregator', reported', iterations') BY <2>1, AggregatesNothing
  <2> QED BY <2>1, <2>2, <2>3, RowsSame
<1>3. CASE Replay BY <1>3, ReplayAdds
<1>4. CASE BeginShard \/ EndShard \/ UNCHANGED vars
  <2>1. /\ UNCHANGED <<aggregator, reported, iterations, rows, inMemory, accepted>>
        /\ sweep' = "build" => sweep = "build"
    BY <1>4 DEF BeginShard, EndShard, vars, buildVars, replayVars, sweepVars
  <2> QED BY <2>1 DEF RowsInv
<1>5. CASE EndCapacity
  <2> DEFINE x == StreamingRows(aggregator, Capacities[round])
             y == InMemoryRows(reported, iterations, Capacities[round])
  <2>1. /\ rows' = Append(rows, x) /\ inMemory' = Append(inMemory, y)
        /\ sweep' \in {"rows", "done"}
        /\ UNCHANGED <<aggregator, reported, iterations, accepted>>
    BY <1>5 DEF EndCapacity, buildVars, replayVars
  <2>2. Len(reported) = accepted BY <2>1 DEF ExactlyOnce
  <2>3. /\ reported \in Seq(MetricRecord) /\ iterations \in Seq(IterationRecord)
        /\ Aggregates(aggregator, reported, iterations)
        /\ \A k \in DOMAIN reported : reported[k].instance # 0
    BY InstancesAssumption DEF FullInv, ReportInv, ReportedOnce, RowsInv
  <2>4. x = y /\ x[0].requests = accepted BY <2>2, <2>3, SameRows
  <2> HIDE DEF x, y
  <2>5. PICK V : rows \in Seq(V) BY DEF RowsInv
  <2>6. PICK W : W = V \cup {x} OBVIOUS
  <2>7. rows \in Seq(W) /\ x \in W BY <2>5, <2>6
  <2>8. PICK l \in Nat : l = Len(rows) /\ DOMAIN rows = 1..l BY <2>7, LenProperties
  <2>9. /\ rows' \in Seq(W) /\ Len(rows') = l + 1 /\ rows'[l + 1] = x
        /\ \A n \in 1..l : rows'[n] = rows[n]
    BY <2>1, <2>7, <2>8, AppendProperties
  <2>10. \A n \in DOMAIN rows' : rows'[n][0].requests = accepted'
    <3>1. \A n \in 1..l : rows[n][0].requests = accepted BY <2>8 DEF RowsInv
    <3>2. DOMAIN rows' = 1..(l + 1) BY <2>9, LenProperties
    <3>3. \A n \in 1..(l + 1) : n \in 1..l \/ n = l + 1 BY <2>8
    <3> QED BY <2>1, <2>4, <2>9, <3>1, <3>2, <3>3
  <2>11. rows' = inMemory' BY <2>1, <2>4 DEF RowsInv
  <2>12. iterations' \in Seq(IterationRecord) /\ Aggregates(aggregator', reported', iterations')
    BY <2>1, <2>3
  <2> QED BY <2>1, <2>9, <2>10, <2>11, <2>12 DEF RowsInv
<1> QED BY <1>1, <1>2, <1>3, <1>4, <1>5 DEF Next

\* The rows a sweep makes of one metric after the other, in accumulators that
\* forget the metrics, are those of experiment/sweep.py, which has the lists of
\* all metrics of a capacity, and they are over every accepted request.
THEOREM RowsAgree == Spec => []RowsAsInMemory
<1>1. Init => RowsInv BY InitRows
<1>2. FullInv /\ ExactlyOnce' /\ RowsInv /\ [Next]_vars => RowsInv' BY RowsStep
<1>3. RowsInv => RowsAsInMemory BY DEF RowsInv, RowsAsInMemory
<1> QED BY <1>1, <1>2, <1>3, SweepInvariance, EveryRecordOnce, PTL DEF Spec

=========================================================================
