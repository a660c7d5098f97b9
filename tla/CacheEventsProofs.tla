------------------------- MODULE CacheEventsProofs -------------------------
(***************************************************************************)
(* Proofs about CacheEvents: the merged stream of events, followed through *)
(* the two lists and the sink, tells what each tier holds at each event,   *)
(* and the statistics are those of what the sink has kept.                 *)
(***************************************************************************)
EXTENDS CacheEvents, PrefixCacheProofs

Blocks == UNION {Resident(ks) : ks \in Paths}

EventSet == [type : Kinds, tier : {"hbm", "ddr"}, key : Blocks, instance : Nat,
             hbmUsed : Nat, ddrUsed : Nat]

-----------------------------------------------------------------------------
(* Replaying a stream.                                                       *)

\* g holds the blocks after the prefixes of s.
IsReplayRun(g, s, tier, i) ==
    g = [n \in 0..Len(s) |-> IF n = 0 THEN {} ELSE AfterEvent(g[n - 1], s[n], tier, i)]

LEMMA AfterEventBlocks ==
    ASSUME NEW S \in SUBSET Blocks, NEW e \in EventSet, NEW tier, NEW i
    PROVE  AfterEvent(S, e, tier, i) \in SUBSET Blocks
<1>1. e.key \in Blocks BY DEF EventSet
<1> QED BY <1>1 DEF AfterEvent

\* The recursive function of Replayed exists.
LEMMA ReplayRuns ==
    ASSUME NEW s \in Seq(EventSet), NEW tier, NEW i
    PROVE  \E g : Replayed(s, tier, i) = g[Len(s)] /\ IsReplayRun(g, s, tier, i)
<1> DEFINE A == SUBSET Blocks
           base == {}
           step == [p \in A \X EventSet |-> AfterEvent(p[1], p[2], tier, i)]
<1>1. IsFoldStep(step, A, EventSet) /\ base \in A
  BY AfterEventBlocks DEF IsFoldStep
<1>2. PICK f : IsFoldOf(f, A, s, base, step)
  <2> HIDE DEF A, base, step
  <2> QED BY <1>1, FoldExists
<1>3. IsReplayRun(f, s, tier, i)
  <2>1. ASSUME NEW n \in 0..Len(s)
        PROVE  f[n] = IF n = 0 THEN {} ELSE AfterEvent(f[n - 1], s[n], tier, i)
    <3>1. CASE n = 0 BY <1>2, <3>1 DEF IsFoldOf
    <3>2. CASE n # 0
      <4>1. n \in 1..Len(s) /\ s[n] \in EventSet /\ f[n - 1] \in A
        BY <1>2, <3>2 DEF IsFoldOf
      <4>2. f[n] = step[<<f[n - 1], s[n]>>] BY <1>2, <4>1 DEF IsFoldOf
      <4> QED BY <3>2, <4>1, <4>2
    <3> QED BY <3>1, <3>2
  <2>2. f \in [0..Len(s) -> A] BY <1>2 DEF IsFoldOf
  <2> QED BY <2>1, <2>2 DEF IsReplayRun
<1>4. IsReplayRun(CHOOSE g : IsReplayRun(g, s, tier, i), s, tier, i)
  BY <1>3
<1>5. Replayed(s, tier, i) = (CHOOSE g : IsReplayRun(g, s, tier, i))[Len(s)]
  BY DEF Replayed, IsReplayRun
<1> QED BY <1>4, <1>5

LEMMA ReplayedNone == \A tier, i : Replayed(<<>>, tier, i) = {}
<1> SUFFICES ASSUME NEW tier, NEW i PROVE Replayed(<<>>, tier, i) = {}
  OBVIOUS
<1>1. PICK s \in Seq(EventSet) : s = <<>>
  <2>1. <<>> \in Seq(EventSet) OBVIOUS
  <2> QED BY <2>1
<1>2. PICK g : Replayed(s, tier, i) = g[Len(s)] /\ IsReplayRun(g, s, tier, i) BY ReplayRuns
<1>3. Len(s) = 0 /\ 0 \in 0..Len(s) BY <1>1
<1> QED BY <1>1, <1>2, <1>3 DEF IsReplayRun

LEMMA ReplayedAppend ==
    ASSUME NEW s \in Seq(EventSet), NEW e \in EventSet, NEW tier, NEW i
    PROVE  Replayed(Append(s, e), tier, i) = AfterEvent(Replayed(s, tier, i), e, tier, i)
<1>1. PICK n \in Nat : n = Len(s) OBVIOUS
<1>2. PICK a \in Seq(EventSet) : a = Append(s, e) BY AppendProperties
<1>3. Len(a) = n + 1 /\ a[n + 1] = e /\ \A j \in 1..n : a[j] = s[j]
  BY <1>1, <1>2, AppendProperties
<1>4. PICK g : /\ Replayed(s, tier, i) = g[n]
               /\ g = [m \in 0..n |-> IF m = 0 THEN {} ELSE AfterEvent(g[m - 1], s[m], tier, i)]
  <2>1. PICK g : Replayed(s, tier, i) = g[Len(s)] /\ IsReplayRun(g, s, tier, i) BY ReplayRuns
  <2> QED BY <1>1, <2>1 DEF IsReplayRun
<1>5. PICK h : /\ Replayed(a, tier, i) = h[n + 1]
               /\ h = [m \in 0..(n + 1) |->
                          IF m = 0 THEN {} ELSE AfterEvent(h[m - 1], a[m], tier, i)]
  <2>1. PICK h : Replayed(a, tier, i) = h[Len(a)] /\ IsReplayRun(h, a, tier, i) BY ReplayRuns
  <2> QED BY <1>3, <2>1 DEF IsReplayRun
<1> DEFINE Good == {m \in Nat : m <= n => h[m] = g[m]}
<1>6. 0 \in Good BY <1>4, <1>5
<1>7. ASSUME NEW m \in Nat, m \in Good PROVE m + 1 \in Good
  <2> SUFFICES ASSUME m + 1 <= n PROVE h[m + 1] = g[m + 1]
    OBVIOUS
  <2>1. m + 1 \in 0..n /\ m + 1 \in 0..(n + 1) /\ m + 1 # 0 /\ (m + 1) - 1 = m
        /\ m + 1 \in 1..n
    OBVIOUS
  <2>2. h[m] = g[m] /\ a[m + 1] = s[m + 1] BY <1>3, <1>7, <2>1
  <2>3. g[m + 1] = AfterEvent(g[m], s[m + 1], tier, i) BY <1>4, <2>1
  <2>4. h[m + 1] = AfterEvent(h[m], a[m + 1], tier, i) BY <1>5, <2>1
  <2> QED BY <2>2, <2>3, <2>4
<1>8. h[n] = g[n]
  <2>1. \A m \in Nat : m \in Good
    <3> HIDE DEF Good
    <3> QED BY <1>6, <1>7, SetInduction
  <2> QED BY <2>1
<1>9. h[n + 1] = AfterEvent(h[n], e, tier, i)
  <2>1. n + 1 \in 0..(n + 1) /\ n + 1 # 0 /\ (n + 1) - 1 = n OBVIOUS
  <2> QED BY <1>3, <1>5, <2>1
<1> QED BY <1>2, <1>4, <1>5, <1>8, <1>9

\* Event e of instance i says how full a tier is: every event does of HBM, those
\* of DDR do of DDR.
Claims(e, i, tier) == e.instance = i /\ (tier = "hbm" \/ e.tier = tier)
Used(e, tier) == IF tier = "hbm" THEN e.hbmUsed ELSE e.ddrUsed

\* The events of s account for the blocks S of a tier of instance i, and for its
\* occupancy at each event that claims it.
Explains(s, i, tier, S) ==
    /\ Replayed(s, tier, i) = S
    /\ \A n \in DOMAIN s :
           Claims(s[n], i, tier) =>
               Cardinality(Replayed(SubSeq(s, 1, n), tier, i)) = Used(s[n], tier)

LEMMA PrefixesOfAppend ==
    ASSUME NEW B, NEW s \in Seq(B), NEW e \in B
    PROVE  /\ DOMAIN Append(s, e) = 1..(Len(s) + 1) /\ Append(s, e)[Len(s) + 1] = e
           /\ \A n \in 1..Len(s) : /\ Append(s, e)[n] = s[n]
                                   /\ SubSeq(Append(s, e), 1, n) = SubSeq(s, 1, n)
           /\ SubSeq(Append(s, e), 1, Len(s) + 1) = Append(s, e)
<1>1. PICK m \in Nat : m = Len(s) OBVIOUS
<1>2. PICK a \in Seq(B) : a = Append(s, e) BY AppendProperties
<1>3. /\ Len(a) = m + 1 /\ DOMAIN a = 1..(m + 1) /\ a[m + 1] = e
      /\ \A n \in 1..m : a[n] = s[n]
  BY <1>1, <1>2, AppendProperties
<1>4. ASSUME NEW n \in 1..m PROVE SubSeq(a, 1, n) = SubSeq(s, 1, n)
  <2>1. /\ SubSeq(a, 1, n) \in Seq(B) /\ Len(SubSeq(a, 1, n)) = n
        /\ \A j \in 1..n : SubSeq(a, 1, n)[j] = a[j]
    BY <1>3
  <2>2. /\ SubSeq(s, 1, n) \in Seq(B) /\ Len(SubSeq(s, 1, n)) = n
        /\ \A j \in 1..n : SubSeq(s, 1, n)[j] = s[j]
    BY <1>1
  <2>3. \A j \in 1..n : SubSeq(a, 1, n)[j] = SubSeq(s, 1, n)[j] BY <1>3, <2>1, <2>2
  <2> QED BY <2>1, <2>2, <2>3, SeqEqual
<1>5. SubSeq(a, 1, m + 1) = a
  <2>1. /\ SubSeq(a, 1, m + 1) \in Seq(B) /\ Len(SubSeq(a, 1, m + 1)) = m + 1
        /\ \A j \in 1..(m + 1) : SubSeq(a, 1, m + 1)[j] = a[j]
    BY <1>3
  <2> QED BY <1>3, <2>1, SeqEqual
<1> QED BY <1>1, <1>2, <1>3, <1>4, <1>5

LEMMA ExplainsAppend ==
    ASSUME NEW s \in Seq(EventSet), NEW e \in EventSet, NEW tier, NEW i, NEW S,
           Explains(s, i, tier, S),
           Claims(e, i, tier) => Cardinality(AfterEvent(S, e, tier, i)) = Used(e, tier)
    PROVE  Explains(Append(s, e), i, tier, AfterEvent(S, e, tier, i))
<1>1. PICK m \in Nat : m = Len(s) OBVIOUS
<1>2. PICK a \in Seq(EventSet) : a = Append(s, e) BY AppendProperties
<1>3. /\ DOMAIN a = 1..(m + 1) /\ a[m + 1] = e /\ SubSeq(a, 1, m + 1) = a
      /\ \A n \in 1..m : a[n] = s[n] /\ SubSeq(a, 1, n) = SubSeq(s, 1, n)
  BY <1>1, <1>2, PrefixesOfAppend
<1>4. Replayed(a, tier, i) = AfterEvent(S, e, tier, i)
  BY <1>2, ReplayedAppend DEF Explains
<1>5. DOMAIN s = 1..m BY <1>1
<1>6. ASSUME NEW n \in DOMAIN a, Claims(a[n], i, tier)
      PROVE  Cardinality(Replayed(SubSeq(a, 1, n), tier, i)) = Used(a[n], tier)
  <2>1. CASE n = m + 1 BY <1>3, <1>4, <1>6, <2>1
  <2>2. CASE n \in 1..m
    <3>1. Cardinality(Replayed(SubSeq(s, 1, n), tier, i)) = Used(s[n], tier)
      BY <1>3, <1>5, <1>6, <2>2 DEF Explains
    <3> QED BY <1>3, <2>2, <3>1
  <2> QED BY <1>3, <2>1, <2>2
<1> QED BY <1>2, <1>4, <1>6 DEF Explains

\* An event that leaves the blocks of a tier, and says their number if it claims
\* to.
Quiet(e, i, tier, S) ==
    /\ AfterEvent(S, e, tier, i) = S
    /\ Claims(e, i, tier) => Cardinality(S) = Used(e, tier)

LEMMA ExplainsQuiet ==
    ASSUME NEW s \in Seq(EventSet), NEW t \in Seq(EventSet), NEW tier, NEW i, NEW S,
           Explains(s, i, tier, S), \A n \in DOMAIN t : Quiet(t[n], i, tier, S)
    PROVE  Explains(s \o t, i, tier, S)
<1> DEFINE Good == {n \in Nat : \A u \in Seq(EventSet) :
                        Len(u) = n /\ (\A m \in DOMAIN u : Quiet(u[m], i, tier, S)) =>
                            Explains(s \o u, i, tier, S)}
<1>1. 0 \in Good
  <2> SUFFICES ASSUME NEW u \in Seq(EventSet), Len(u) = 0 PROVE Explains(s \o u, i, tier, S)
    OBVIOUS
  <2>1. u = <<>> /\ s \o <<>> = s BY EmptySeq, ConcatEmptySeq
  <2> QED BY <2>1
<1>2. ASSUME NEW n \in Nat, n \in Good PROVE n + 1 \in Good
  <2> SUFFICES ASSUME NEW u \in Seq(EventSet), Len(u) = n + 1,
                      \A m \in DOMAIN u : Quiet(u[m], i, tier, S)
               PROVE  Explains(s \o u, i, tier, S)
    OBVIOUS
  <2>0. PICK p \in Seq(EventSet), e \in EventSet : Len(p) = n /\ EndsWith(u, p, e)
    BY FrontAndLast
  <2>1. Len(p) = n /\ u = Append(p, e) BY <2>0 DEF EndsWith
  <2>2. /\ DOMAIN u = 1..(n + 1) /\ u[n + 1] = e /\ DOMAIN p = 1..n
        /\ \A m \in 1..n : p[m] = u[m]
    BY <2>1, AppendProperties
  <2>3. Explains(s \o p, i, tier, S)
    <3>1. \A m \in DOMAIN p : Quiet(p[m], i, tier, S) BY <2>2
    <3> QED BY <1>2, <2>1, <3>1
  <2>4. Quiet(e, i, tier, S) BY <2>2
  <2>5. s \o p \in Seq(EventSet) OBVIOUS
  <2>6. Explains(Append(s \o p, e), i, tier, S)
    BY <2>3, <2>4, <2>5, ExplainsAppend DEF Quiet
  <2>7. s \o u = Append(s \o p, e) BY <2>1, AppendConcat
  <2> QED BY <2>6, <2>7
<1>3. Len(t) \in Good
  <2> HIDE DEF Good
  <2>1. \A n \in Nat : n \in Good BY <1>1, <1>2, SetInduction
  <2> QED BY <2>1
<1> QED BY <1>3

-----------------------------------------------------------------------------
(* Recency orders.                                                           *)

\* What a tier may hold.
IsTier(lru, capacity) == lru \in Seq(Blocks) /\ Distinct(lru) /\ Len(lru) <= capacity

\* Blocks that leave their place for the end stay one each.
LEMMA TouchKeeps ==
    ASSUME NEW lru \in Seq(Blocks), NEW ks \in Seq(Blocks), Distinct(lru), Distinct(ks),
           Resident(ks) \subseteq Resident(lru)
    PROVE  /\ Touch(lru, ks) \in Seq(Blocks)
           /\ Distinct(Touch(lru, ks))
           /\ Resident(Touch(lru, ks)) = Resident(lru)
           /\ Len(Touch(lru, ks)) = Len(lru)
<1>1. PICK k \in Seq(Blocks) : k = Keep(lru, Resident(lru) \ Resident(ks)) BY KeepMembers
<1>2. Resident(k) = Resident(lru) \ Resident(ks) /\ Distinct(k)
  BY <1>1, KeepMembers, DistinctKeep
<1>3. Distinct(k \o ks) BY <1>2, DistinctConcat
<1>4. PICK t \in Seq(Blocks) : t = Touch(lru, ks) /\ Resident(t) = Resident(lru)
  <2>1. /\ Touch(lru, ks) \in Seq(Blocks)
        /\ Resident(Touch(lru, ks)) = Resident(lru) \cup Resident(ks)
    BY TouchResident
  <2>2. Resident(lru) \cup Resident(ks) = Resident(lru) OBVIOUS
  <2> QED BY <2>1, <2>2
<1>5. Distinct(t) BY <1>1, <1>3, <1>4 DEF Touch
<1>6. Len(t) = Len(lru) BY <1>4, <1>5, DistinctCount
<1> QED BY <1>4, <1>5, <1>6

LEMMA LookupKeeps ==
    ASSUME NEW lru \in Seq(Blocks), NEW ks \in Seq(Blocks), Distinct(lru), Distinct(ks)
    PROVE  /\ AfterLookup(lru, ks) \in Seq(Blocks)
           /\ Distinct(AfterLookup(lru, ks))
           /\ Resident(AfterLookup(lru, ks)) = Resident(lru)
           /\ Len(AfterLookup(lru, ks)) = Len(lru)
<1>1. PICK h \in 0..Len(ks) : h = HitCount(lru, ks) BY HitCountLongest
<1>2. \A i \in 1..h : ks[i] \in Resident(lru) BY <1>1, HitCountLongest
<1>3. PICK t \in Seq(Blocks) : t = SubSeq(ks, 1, h) /\ Distinct(t) /\ Len(t) = h
                               /\ \A i \in 1..h : t[i] = ks[i]
  <2>1. /\ SubSeq(ks, 1, h) \in Seq(Blocks) /\ Distinct(SubSeq(ks, 1, h))
        /\ Len(SubSeq(ks, 1, h)) = h /\ \A i \in 1..h : SubSeq(ks, 1, h)[i] = ks[i]
    BY SplitList
  <2> QED BY <2>1
<1>4. Resident(t) \subseteq Resident(lru) BY <1>2, <1>3 DEF Resident
<1> QED BY <1>1, <1>3, <1>4, TouchKeeps DEF AfterLookup

\* A full tier without its least recently used block.
LEMMA TailKeeps ==
    ASSUME NEW lru \in Seq(Blocks), Distinct(lru), lru # <<>>
    PROVE  /\ Tail(lru) \in Seq(Blocks) /\ Head(lru) \in Blocks
           /\ Distinct(Tail(lru))
           /\ Resident(Tail(lru)) = Resident(lru) \ {Head(lru)}
           /\ Len(Tail(lru)) = Len(lru) - 1
<1>1. PICK n \in Nat : n = Len(lru) - 1
  <2>1. Len(lru) \in Nat /\ Len(lru) # 0 BY EmptySeq
  <2> QED BY <2>1
<1>2. DOMAIN lru = 1..(n + 1) /\ Len(lru) = n + 1 /\ Head(lru) = lru[1] BY <1>1
<1>0. PICK t \in Seq(Blocks) : t = Tail(lru) BY HeadTailProperties
<1>3. Len(t) = n /\ DOMAIN t = 1..n /\ \A i \in 1..n : t[i] = lru[i + 1]
  <2>1. Len(t) = n /\ \A i \in 1..n : t[i] = lru[i + 1] BY <1>0, <1>1, HeadTailProperties
  <2> QED BY <2>1
<1>4. \A i, j \in 1..(n + 1) : lru[i] = lru[j] => i = j BY <1>2 DEF Distinct
<1>5. Distinct(t)
  <2> SUFFICES ASSUME NEW i \in 1..n, NEW j \in 1..n, t[i] = t[j] PROVE i = j
    BY <1>3 DEF Distinct
  <2>1. i + 1 \in 1..(n + 1) /\ j + 1 \in 1..(n + 1) /\ lru[i + 1] = lru[j + 1] BY <1>3
  <2>2. i + 1 = j + 1 BY <1>4, <2>1
  <2> QED BY <2>2
<1>6. ASSUME NEW k PROVE k \in Resident(t) <=> k \in Resident(lru) \ {lru[1]}
  <2>1. ASSUME k \in Resident(t) PROVE k \in Resident(lru) \ {lru[1]}
    <3>1. PICK i \in 1..n : k = lru[i + 1] BY <1>3, <2>1 DEF Resident
    <3>2. i + 1 \in 1..(n + 1) /\ 1 \in 1..(n + 1) /\ i + 1 # 1 OBVIOUS
    <3> QED BY <1>2, <1>4, <3>1, <3>2 DEF Resident
  <2>2. ASSUME k \in Resident(lru), k # lru[1] PROVE k \in Resident(t)
    <3>1. PICK i \in 1..(n + 1) : k = lru[i] BY <1>2, <2>2 DEF Resident
    <3>2. i - 1 \in 1..n /\ (i - 1) + 1 = i BY <2>2, <3>1
    <3>3. t[i - 1] = k BY <1>3, <3>1, <3>2
    <3> QED BY <1>3, <3>2, <3>3 DEF Resident
  <2> QED BY <2>1, <2>2
<1>7. lru[1] \in Blocks BY <1>2
<1> QED BY <1>0, <1>1, <1>2, <1>3, <1>5, <1>6, <1>7

LEMMA AppendKeeps ==
    ASSUME NEW lru \in Seq(Blocks), Distinct(lru), NEW k \in Blocks, k \notin Resident(lru)
    PROVE  /\ Append(lru, k) \in Seq(Blocks)
           /\ Distinct(Append(lru, k))
           /\ Resident(Append(lru, k)) = Resident(lru) \cup {k}
           /\ Len(Append(lru, k)) = Len(lru) + 1
<1>1. PICK n \in Nat : n = Len(lru) OBVIOUS
<1>2. PICK w \in Seq(Blocks) : w = <<k>>
  <2>1. <<k>> \in Seq(Blocks) OBVIOUS
  <2> QED BY <2>1
<1>3. Append(lru, k) = lru \o w BY <1>2, AppendIsConcat
<1>4. Resident(w) = {k} /\ Distinct(w) BY <1>2 DEF Resident, Distinct
<1>5. Distinct(lru \o w) BY <1>4, DistinctConcat
<1>6. Resident(lru \o w) = Resident(lru) \cup {k} BY <1>4, ResidentConcat
<1>7. Append(lru, k) \in Seq(Blocks) /\ Len(Append(lru, k)) = n + 1 BY <1>1, AppendProperties
<1> QED BY <1>1, <1>3, <1>5, <1>6, <1>7

-----------------------------------------------------------------------------
(* Storing blocks in a tier.                                                 *)

\* The events a tier emits: one of the DDR tier carries what HBM uses.
OfTier(e, tier, used) ==
    /\ e \in EventSet
    /\ e.tier = tier /\ e.instance = instance
    /\ IF tier = "hbm" THEN e.ddrUsed = 0 ELSE e.hbmUsed = used

LEMMA TierEvents ==
    ASSUME NEW type \in Kinds, NEW tier \in {"hbm", "ddr"}, NEW k \in Blocks,
           NEW own \in Nat, NEW used \in Nat, instance \in Nat
    PROVE  LET e == TierEvent(type, tier, k, own, used)
           IN  OfTier(e, tier, used) /\ Used(e, tier) = own /\ e.type = type /\ e.key = k
BY DEF TierEvent, Event, OfTier, Used, EventSet

\* What is emitted while a tier that held the blocks old comes to hold S, of
\* occupancies up to bound.
Emitted(events, tier, used, bound, old, S) ==
    /\ events \in Seq(EventSet)
    /\ \A n \in DOMAIN events : OfTier(events[n], tier, used) /\ Used(events[n], tier) <= bound
    /\ \A s \in Seq(EventSet) :
           Explains(s, instance, tier, old) => Explains(s \o events, instance, tier, S)

\* One event more.
LEMMA EventDone ==
    ASSUME NEW events, NEW tier, NEW used, NEW bound \in Nat, NEW old, NEW S,
           Emitted(events, tier, used, bound, old, S),
           NEW e, OfTier(e, tier, used), NEW wider \in Nat, bound <= wider, Used(e, tier) <= wider,
           Cardinality(AfterEvent(S, e, tier, instance)) = Used(e, tier)
    PROVE  Emitted(Append(events, e), tier, used, wider, old, AfterEvent(S, e, tier, instance))
<1>0. events \in Seq(EventSet) BY DEF Emitted
<1>1. PICK n \in Nat : n = Len(events) BY <1>0
<1>2. e \in EventSet BY DEF OfTier
<1>3. PICK a \in Seq(EventSet) : a = Append(events, e) BY <1>0, <1>2, AppendProperties
<1>4. Len(a) = n + 1 /\ DOMAIN a = 1..(n + 1) /\ a[n + 1] = e /\ \A m \in 1..n : a[m] = events[m]
  BY <1>0, <1>1, <1>2, <1>3, AppendProperties
<1>5. DOMAIN events = 1..n BY <1>0, <1>1
<1>6. ASSUME NEW s \in Seq(EventSet), Explains(s, instance, tier, old)
      PROVE  Explains(s \o a, instance, tier, AfterEvent(S, e, tier, instance))
  <2>1. PICK t \in Seq(EventSet) : t = s \o events BY <1>0, ConcatProperties
  <2>2. Explains(t, instance, tier, S) BY <1>6, <2>1 DEF Emitted
  <2>3. Explains(Append(t, e), instance, tier, AfterEvent(S, e, tier, instance))
    BY <1>2, <2>2, ExplainsAppend
  <2>4. s \o a = Append(t, e) BY <1>0, <1>2, <1>3, <2>1, AppendConcat
  <2> QED BY <2>3, <2>4
<1>7. ASSUME NEW m \in 1..(n + 1) PROVE OfTier(a[m], tier, used) /\ Used(a[m], tier) <= wider
  <2>1. CASE m = n + 1 BY <1>4, <2>1
  <2>2. CASE m \in 1..n
    <3>1. OfTier(a[m], tier, used) /\ Used(a[m], tier) <= bound
      BY <1>4, <1>5, <2>2 DEF Emitted
    <3>2. a[m] \in EventSet BY <3>1 DEF OfTier
    <3>3. Used(a[m], tier) \in Nat BY <3>2 DEF Used, EventSet
    <3> QED BY <3>1, <3>3
  <2> QED BY <2>1, <2>2
<1> QED BY <1>3, <1>4, <1>6, <1>7 DEF Emitted

\* What a tier that held lru has become, and what it has emitted about that.
StoreDone(at, tier, lru, capacity, used) ==
    /\ IsTier(at.lru, capacity)
    /\ Len(lru) <= Len(at.lru)
    /\ Emitted(at.events, tier, used, Len(at.lru), Resident(lru), Resident(at.lru))
    /\ IF at.events = <<>> THEN Len(at.lru) = Len(lru)
                           ELSE Used(at.events[Len(at.events)], tier) = Len(at.lru)

LEMMA StoreBlockDone ==
    ASSUME NEW tier \in {"hbm", "ddr"}, NEW capacity \in Nat \ {0}, NEW used \in Nat,
           NEW lru \in Seq(Blocks), NEW at, StoreDone(at, tier, lru, capacity, used),
           at \in [lru : Seq(Blocks), events : Seq(EventSet)],
           NEW k \in Blocks, instance \in Nat
    PROVE  /\ StoreDone(StoreBlock(tier, capacity, used, at, k), tier, lru, capacity, used)
           /\ StoreBlock(tier, capacity, used, at, k) \in [lru : Seq(Blocks), events : Seq(EventSet)]
<1> DEFINE type   == IF tier = "hbm" THEN "materialize" ELSE "store"
           full   == Len(at.lru) >= capacity
           room   == IF full THEN Tail(at.lru) ELSE at.lru
           new    == Append(room, k)
           evict  == TierEvent("evict", tier, Head(at.lru), Len(room), used)
           insert == TierEvent(type, tier, k, Len(room) + 1, used)
           moved  == IF full THEN Append(at.events, evict) ELSE at.events
<1>0. /\ IsTier(at.lru, capacity) /\ at.lru \in Seq(Blocks) /\ Distinct(at.lru)
      /\ at.events \in Seq(EventSet) /\ Len(at.lru) \in Nat /\ Len(lru) \in Nat
      /\ Len(lru) <= Len(at.lru) /\ Len(at.lru) <= capacity
  BY DEF StoreDone, IsTier
<1>1. CASE k \in Resident(at.lru)
  <2>1. PICK w \in Seq(Blocks) : w = <<k>>
    <3>1. <<k>> \in Seq(Blocks) OBVIOUS
    <3> QED BY <3>1
  <2>2. Resident(w) = {k} /\ Distinct(w) BY <2>1 DEF Resident, Distinct
  <2>3. /\ Touch(at.lru, w) \in Seq(Blocks) /\ Distinct(Touch(at.lru, w))
        /\ Resident(Touch(at.lru, w)) = Resident(at.lru)
        /\ Len(Touch(at.lru, w)) = Len(at.lru)
    BY <1>0, <1>1, <2>2, TouchKeeps
  <2>4. StoreBlock(tier, capacity, used, at, k) = [at EXCEPT !.lru = Touch(at.lru, w)]
    BY <1>1, <2>1 DEF StoreBlock
  <2>5. [at EXCEPT !.lru = Touch(at.lru, w)] \in [lru : Seq(Blocks), events : Seq(EventSet)]
    BY <2>3
  <2>6. /\ StoreBlock(tier, capacity, used, at, k).lru = Touch(at.lru, w)
        /\ StoreBlock(tier, capacity, used, at, k).events = at.events
    BY <2>4
  <2>7. StoreDone(StoreBlock(tier, capacity, used, at, k), tier, lru, capacity, used)
    BY <1>0, <2>3, <2>6 DEF StoreDone, IsTier
  <2> QED BY <2>4, <2>5, <2>7
<1>2. CASE k \notin Resident(at.lru)
  <2>1. /\ room \in Seq(Blocks) /\ Distinct(room) /\ k \notin Resident(room)
        /\ Len(room) \in Nat /\ Len(room) + 1 <= capacity /\ Len(lru) <= Len(room) + 1
        /\ full => /\ Head(at.lru) \in Blocks /\ Len(room) = Len(at.lru) - 1
                   /\ Resident(room) = Resident(at.lru) \ {Head(at.lru)}
        /\ ~full => room = at.lru
    <3>1. CASE full
      <4>1. at.lru # <<>> BY <1>0, <3>1
      <4>2. /\ Tail(at.lru) \in Seq(Blocks) /\ Head(at.lru) \in Blocks
            /\ Distinct(Tail(at.lru)) /\ Resident(Tail(at.lru)) = Resident(at.lru) \ {Head(at.lru)}
            /\ Len(Tail(at.lru)) = Len(at.lru) - 1
        BY <1>0, <4>1, TailKeeps
      <4>3. room = Tail(at.lru) BY <3>1
      <4>4. Len(at.lru) = capacity BY <1>0, <3>1
      <4> HIDE DEF room, full
      <4> QED BY <1>0, <1>2, <3>1, <4>2, <4>3, <4>4
    <3>2. CASE ~full
      <4>1. room = at.lru BY <3>2
      <4>2. Len(at.lru) + 1 <= capacity BY <1>0, <3>2
      <4> HIDE DEF room, full
      <4> QED BY <1>0, <1>2, <3>2, <4>1, <4>2
    <3> QED BY <3>1, <3>2
  <2>2. /\ new \in Seq(Blocks) /\ Distinct(new) /\ Len(new) = Len(room) + 1
        /\ Resident(new) = Resident(room) \cup {k}
    <3> HIDE DEF room
    <3> QED BY <2>1, AppendKeeps
  <2>3. /\ OfTier(insert, tier, used) /\ Used(insert, tier) = Len(new)
        /\ Resident(new) = AfterEvent(Resident(room), insert, tier, instance)
    <3>1. type \in Kinds /\ type \in {"materialize", "store"} BY DEF Kinds
    <3>2. Len(room) + 1 \in Nat BY <2>1
    <3>3. /\ OfTier(insert, tier, used) /\ Used(insert, tier) = Len(room) + 1
          /\ insert.type = type /\ insert.key = k
      <4> HIDE DEF type, room
      <4> QED BY <3>1, <3>2, TierEvents
    <3>4. insert.tier = tier /\ insert.instance = instance BY <3>3 DEF OfTier
    <3> HIDE DEF type, room, insert, new
    <3> QED BY <2>2, <3>1, <3>3, <3>4 DEF AfterEvent
  <2>4. ASSUME full
        PROVE  /\ OfTier(evict, tier, used) /\ Used(evict, tier) = Len(room)
               /\ Resident(room) = AfterEvent(Resident(at.lru), evict, tier, instance)
    <3>1. PICK kind \in Kinds : kind = "evict" BY DEF Kinds
    <3>2. PICK oldest \in Blocks, left \in Nat : oldest = Head(at.lru) /\ left = Len(room)
      BY <2>1, <2>4
    <3>3. /\ OfTier(evict, tier, used) /\ Used(evict, tier) = Len(room)
          /\ evict.type = "evict" /\ evict.key = Head(at.lru)
      <4>1. LET e == TierEvent(kind, tier, oldest, left, used)
            IN  OfTier(e, tier, used) /\ Used(e, tier) = left /\ e.type = kind /\ e.key = oldest
        BY TierEvents
      <4> HIDE DEF room
      <4> QED BY <3>1, <3>2, <4>1
    <3>4. evict.tier = tier /\ evict.instance = instance BY <3>3 DEF OfTier
    <3>5. Resident(room) = Resident(at.lru) \ {Head(at.lru)} BY <2>1, <2>4
    <3> HIDE DEF room, evict
    <3> QED BY <3>3, <3>4, <3>5 DEF AfterEvent
  <2> HIDE DEF room, new, evict, insert, type
  <2>5. Emitted(at.events, tier, used, Len(at.lru), Resident(lru), Resident(at.lru))
    BY DEF StoreDone
  <2>6. Cardinality(Resident(room)) = Len(room) /\ Cardinality(Resident(new)) = Len(new)
    BY <2>1, <2>2, DistinctCount
  <2>7. Emitted(moved, tier, used, Len(at.lru), Resident(lru), Resident(room))
    <3>1. CASE full
      <4>1. moved = Append(at.events, evict) BY <3>1
      <4>2. Used(evict, tier) <= Len(at.lru) BY <1>0, <2>1, <2>4, <3>1
      <4> HIDE DEF moved, full
      <4> QED BY <1>0, <2>4, <2>5, <2>6, <3>1, <4>1, <4>2, EventDone
    <3>2. CASE ~full
      <4>1. moved = at.events /\ room = at.lru BY <2>1, <3>2
      <4> QED BY <2>5, <4>1
    <3> QED BY <3>1, <3>2
  <2> DEFINE all == Append(moved, insert)
  <2>8. /\ Emitted(all, tier, used, Len(new), Resident(lru), Resident(new))
        /\ all # <<>> /\ all[Len(all)] = insert
    <3>1. PICK bound \in Nat, wider \in Nat :
            bound = Len(at.lru) /\ wider = Len(new) /\ bound <= wider
      BY <1>0, <2>1, <2>2
    <3>2. PICK S : S = Resident(room) OBVIOUS
    <3>3. Resident(new) = AfterEvent(S, insert, tier, instance) BY <2>3, <3>2
    <3>4. Cardinality(AfterEvent(S, insert, tier, instance)) = Used(insert, tier)
      BY <2>3, <2>6, <3>3
    <3>5. OfTier(insert, tier, used) /\ Used(insert, tier) <= wider BY <2>3, <3>1
    <3> HIDE DEF moved, full
    <3>6. Emitted(moved, tier, used, bound, Resident(lru), S) BY <2>7, <3>1, <3>2
    <3>7. PICK e, events, old : e = insert /\ events = moved /\ old = Resident(lru) OBVIOUS
    <3>8. Emitted(events, tier, used, bound, old, S) BY <3>6, <3>7
    <3>9. OfTier(e, tier, used) /\ Used(e, tier) <= wider BY <3>5, <3>7
    <3>10. Cardinality(AfterEvent(S, e, tier, instance)) = Used(e, tier) BY <3>4, <3>7
    <3>11. Emitted(Append(events, e), tier, used, wider, old, AfterEvent(S, e, tier, instance))
      BY <3>1, <3>8, <3>9, <3>10, EventDone
    <3>12. PICK a : a = Append(events, e) OBVIOUS
    <3>13. a # <<>> /\ a[Len(a)] = e
      <4>1. events \in Seq(EventSet) /\ e \in EventSet BY <3>8, <3>9 DEF Emitted, OfTier
      <4>2. Len(a) = Len(events) + 1 /\ Len(events) \in Nat /\ a[Len(a)] = e
        BY <3>12, <4>1, AppendProperties
      <4> QED BY <4>2
    <3>14. a = all BY <3>7, <3>12
    <3>15. Emitted(a, tier, used, wider, old, AfterEvent(S, e, tier, instance)) BY <3>11, <3>12
    <3> HIDE DEF all
    <3> QED BY <3>1, <3>3, <3>7, <3>13, <3>14, <3>15
  <2>9. StoreBlock(tier, capacity, used, at, k) = [lru |-> new, events |-> all]
    <3>1. all = at.events \o (IF full THEN <<evict>> ELSE <<>>) \o <<insert>>
      <4>1. insert \in EventSet /\ moved \in Seq(EventSet) BY <2>3, <2>7 DEF OfTier, Emitted
      <4>2. all = moved \o <<insert>>
        <5> HIDE DEF moved
        <5> QED BY <4>1, AppendIsConcat
      <4>3. moved = at.events \o (IF full THEN <<evict>> ELSE <<>>)
        <5>1. CASE full
          <6>1. evict \in EventSet BY <2>4, <5>1 DEF OfTier
          <6>2. Append(at.events, evict) = at.events \o <<evict>> BY <1>0, <6>1, AppendIsConcat
          <6> HIDE DEF full
          <6> QED BY <5>1, <6>2
        <5>2. CASE ~full
          <6>1. at.events \o <<>> = at.events BY <1>0, ConcatEmptySeq
          <6> HIDE DEF full
          <6> QED BY <5>2, <6>1
        <5> QED BY <5>1, <5>2
      <4> HIDE DEF all, moved
      <4> QED BY <4>2, <4>3
    <3>2. /\ new = Append(room, k) /\ room = IF full THEN Tail(at.lru) ELSE at.lru
          /\ insert = TierEvent(type, tier, k, Len(room) + 1, used)
          /\ evict = TierEvent("evict", tier, Head(at.lru), Len(room), used)
          /\ type = IF tier = "hbm" THEN "materialize" ELSE "store"
      BY DEF new, room, insert, evict, type
    <3>3. StoreBlock(tier, capacity, used, at, k) =
            [lru |-> Append(room, k),
             events |-> at.events \o (IF full THEN <<evict>> ELSE <<>>) \o <<insert>>]
      BY <1>2 DEF StoreBlock, room, evict, insert, type
    <3> HIDE DEF all, full
    <3> QED BY <3>1, <3>2, <3>3
  <2>10. /\ StoreBlock(tier, capacity, used, at, k).lru = new
         /\ StoreBlock(tier, capacity, used, at, k).events = all
    <3> HIDE DEF all
    <3> QED BY <2>9
  <2>11. IsTier(new, capacity) /\ Len(lru) <= Len(new) BY <2>1, <2>2 DEF IsTier
  <2> HIDE DEF all
  <2>12. StoreDone(StoreBlock(tier, capacity, used, at, k), tier, lru, capacity, used)
    BY <2>3, <2>8, <2>10, <2>11 DEF StoreDone
  <2>13. [lru |-> new, events |-> all] \in [lru : Seq(Blocks), events : Seq(EventSet)]
    BY <2>2, <2>8 DEF Emitted
  <2> QED BY <2>9, <2>12, <2>13
<1> QED BY <1>1, <1>2

\* A tier that is not asked to store anything.
LEMMA NothingDone ==
    ASSUME NEW tier, NEW capacity, NEW used, NEW lru, IsTier(lru, capacity)
    PROVE  StoreDone([lru |-> lru, events |-> <<>>], tier, lru, capacity, used)
<1>1. lru \in Seq(Blocks) /\ Len(lru) \in Nat BY DEF IsTier
<1>2. \A s \in Seq(EventSet) : s \o <<>> = s BY ConcatEmptySeq
<1>3. Emitted(<<>>, tier, used, Len(lru), Resident(lru), Resident(lru))
  <2>1. DOMAIN <<>> = {} /\ <<>> \in Seq(EventSet) OBVIOUS
  <2> QED BY <1>2, <2>1 DEF Emitted
<1> DEFINE at == [lru |-> lru, events |-> <<>>]
<1>4. at.lru = lru /\ at.events = <<>> OBVIOUS
<1> HIDE DEF at
<1>5. StoreDone(at, tier, lru, capacity, used) BY <1>1, <1>3, <1>4 DEF StoreDone
<1> QED BY <1>5 DEF at

\* A call stores its blocks one after the other.
LEMMA StoredDone ==
    ASSUME NEW tier \in {"hbm", "ddr"}, NEW capacity \in Nat \ {0}, NEW used \in Nat,
           NEW lru, IsTier(lru, capacity), NEW ks \in Seq(Blocks), instance \in Nat
    PROVE  StoreDone(Stored(tier, lru, ks, capacity, used), tier, lru, capacity, used)
<1> DEFINE A == {at \in [lru : Seq(Blocks), events : Seq(EventSet)] :
                    StoreDone(at, tier, lru, capacity, used)}
           base == [lru |-> lru, events |-> <<>>]
           step == [p \in A \X Blocks |-> StoreBlock(tier, capacity, used, p[1], p[2])]
           IsRun(g) == g = [n \in 0..Len(ks) |->
                               IF n = 0 THEN base
                               ELSE StoreBlock(tier, capacity, used, g[n - 1], ks[n])]
<1>1. lru \in Seq(Blocks) /\ Len(lru) \in Nat BY DEF IsTier
<1>2. IsFoldStep(step, A, Blocks)
  <2>1. ASSUME NEW at \in A, NEW k \in Blocks
        PROVE  StoreBlock(tier, capacity, used, at, k) \in A
    BY <1>1, StoreBlockDone
  <2> HIDE DEF A
  <2> QED BY <2>1 DEF IsFoldStep
<1>3. base \in A
  <2>1. base \in [lru : Seq(Blocks), events : Seq(EventSet)] BY <1>1
  <2> QED BY <2>1, NothingDone
<1>4. PICK f : IsFoldOf(f, A, ks, base, step)
  <2> HIDE DEF A, base, step
  <2> QED BY <1>2, <1>3, FoldExists
<1>5. f \in [0..Len(ks) -> A] BY <1>4 DEF IsFoldOf
<1>6. ASSUME NEW n \in 1..Len(ks)
      PROVE  f[n] = StoreBlock(tier, capacity, used, f[n - 1], ks[n])
  <2>1. ks[n] \in Blocks /\ f[n - 1] \in A
    <3>1. n - 1 \in 0..Len(ks) OBVIOUS
    <3> HIDE DEF A
    <3> QED BY <1>5, <3>1
  <2>2. f[n] = step[<<f[n - 1], ks[n]>>] BY <1>4 DEF IsFoldOf
  <2> HIDE DEF A
  <2> QED BY <2>1, <2>2
<1>7. IsRun(f)
  <2>1. ASSUME NEW n \in 0..Len(ks)
        PROVE  f[n] = IF n = 0 THEN base ELSE StoreBlock(tier, capacity, used, f[n - 1], ks[n])
    <3>1. CASE n = 0 BY <1>4, <3>1 DEF IsFoldOf
    <3>2. CASE n # 0
      <4>1. n \in 1..Len(ks) BY <3>2
      <4> QED BY <1>6, <3>2, <4>1
    <3> QED BY <3>1, <3>2
  <2> HIDE DEF A, base
  <2> QED BY <1>5, <2>1
<1>8. PICK g : IsRun(g) /\ Stored(tier, lru, ks, capacity, used) = g[Len(ks)]
  <2>1. IsRun(CHOOSE g : IsRun(g))
    <3> HIDE DEF IsRun
    <3> QED BY <1>7
  <2>2. Stored(tier, lru, ks, capacity, used) = (CHOOSE g : IsRun(g))[Len(ks)]
    BY DEF Stored
  <2> QED BY <2>1, <2>2
<1>9. \A n \in Nat : n <= Len(ks) => g[n] \in A
  <2> DEFINE Good == {n \in Nat : n <= Len(ks) => g[n] \in A}
  <2>1. 0 \in Good
    <3>1. 0 \in 0..Len(ks) OBVIOUS
    <3>2. g[0] = base BY <1>8, <3>1
    <3> QED BY <1>3, <3>2
  <2>2. ASSUME NEW n \in Nat, n \in Good PROVE n + 1 \in Good
    <3> SUFFICES ASSUME n + 1 <= Len(ks) PROVE g[n + 1] \in A
      OBVIOUS
    <3>1. n + 1 \in 0..Len(ks) /\ n + 1 # 0 /\ (n + 1) - 1 = n /\ n + 1 \in 1..Len(ks)
      OBVIOUS
    <3>2. g[n + 1] = StoreBlock(tier, capacity, used, g[n], ks[n + 1])
      <4> HIDE DEF base
      <4> QED BY <1>8, <3>1
    <3>3. g[n] \in A /\ ks[n + 1] \in Blocks
      <4>1. g[n] \in A BY <2>2
      <4> QED BY <3>1, <4>1
    <3> QED BY <1>1, <3>2, <3>3, StoreBlockDone
  <2> HIDE DEF Good
  <2>3. \A n \in Nat : n \in Good BY <2>1, <2>2, SetInduction
  <2> QED BY <2>3 DEF Good
<1>10. g[Len(ks)] \in A
  <2>1. Len(ks) \in Nat /\ Len(ks) <= Len(ks) OBVIOUS
  <2> HIDE DEF A
  <2> QED BY <1>9, <2>1
<1> QED BY <1>8, <1>10

\* The events of a lookup say what is there, and change nothing.
LEMMA LookupEventsDone ==
    ASSUME NEW tier \in {"hbm", "ddr"}, NEW lru \in Seq(Blocks), Distinct(lru),
           NEW ks \in Seq(Blocks), NEW used \in Nat, instance \in Nat
    PROVE  LET events == LookupEvents(tier, lru, ks, used)
           IN  /\ events \in Seq(EventSet)
               /\ \A n \in DOMAIN events : /\ OfTier(events[n], tier, used)
                                           /\ Used(events[n], tier) = Len(lru)
                                           /\ Quiet(events[n], instance, tier, Resident(lru))
<1> DEFINE events == LookupEvents(tier, lru, ks, used)
           type(n) == IF n <= HitCount(lru, ks) THEN "lookup_hit" ELSE "lookup_miss"
<1>1. DOMAIN events = 1..Len(ks) /\ Len(ks) \in Nat /\ DOMAIN ks = 1..Len(ks)
  BY DEF LookupEvents
<1>2. Cardinality(Resident(lru)) = Len(lru) /\ Len(lru) \in Nat BY DistinctCount
<1>3. ASSUME NEW n \in 1..Len(ks)
      PROVE  /\ OfTier(events[n], tier, used)
             /\ Used(events[n], tier) = Len(lru)
             /\ Quiet(events[n], instance, tier, Resident(lru))
  <2>1. PICK kind \in Kinds : kind = type(n) BY DEF Kinds
  <2>2. PICK k \in Blocks, own \in Nat : k = ks[n] /\ own = Len(lru) BY <1>2
  <2>3. events[n] = TierEvent(kind, tier, k, own, used) BY <1>1, <2>1, <2>2 DEF LookupEvents
  <2>4. /\ OfTier(events[n], tier, used) /\ Used(events[n], tier) = own
        /\ events[n].type = kind
    BY <2>3, TierEvents
  <2>5. kind \notin {"materialize", "store", "evict"} BY <2>1
  <2> HIDE DEF events, type
  <2>6. AfterEvent(Resident(lru), events[n], tier, instance) = Resident(lru)
    BY <2>4, <2>5 DEF AfterEvent
  <2> QED BY <1>2, <2>2, <2>4, <2>6 DEF Quiet
<1>4. events \in Seq(EventSet)
  <2>1. \A n \in 1..Len(ks) : events[n] \in EventSet BY <1>3 DEF OfTier
  <2>2. events = [n \in 1..Len(ks) |-> events[n]] BY <1>1 DEF LookupEvents
  <2> HIDE DEF events
  <2> QED BY <1>1, <2>1, <2>2
<1> QED BY <1>1, <1>3, <1>4

\* The events of the other tier leave the blocks of a tier; those of DDR carry the
\* number of the HBM blocks.
LEMMA OtherTier ==
    ASSUME NEW e, NEW tier, NEW other, NEW used, OfTier(e, tier, used), tier # other, NEW S,
           other = "hbm" => Cardinality(S) = used
    PROVE  Quiet(e, instance, other, S)
BY DEF OfTier, Quiet, AfterEvent, Claims, Used

-----------------------------------------------------------------------------
(* What a stream tells.                                                      *)

\* p is the largest number of S, or 0.
IsPeak(p, S) == p \in Nat /\ (\A u \in S : u <= p) /\ (p = 0 \/ p \in S)

HBMUses(s) == {s[n].hbmUsed : n \in DOMAIN s}
DDRUses(s) == {s[n].ddrUsed : n \in DOMAIN s}

\* s tells of instance i, whose tiers hold h and d, and of peaks ph and pd.
Tells(s, i, h, d, ph, pd) ==
    /\ s \in Seq(EventSet)
    /\ Explains(s, i, "hbm", Resident(h))
    /\ Explains(s, i, "ddr", Resident(d))
    /\ \A n \in DOMAIN s : s[n].instance <= i
    /\ IsPeak(ph, HBMUses(s)) /\ Len(h) <= ph
    /\ IsPeak(pd, DDRUses(s)) /\ Len(d) <= pd
    /\ s # <<>> /\ s[Len(s)].instance = i => s[Len(s)].hbmUsed = Len(h)

\* c is s and then t: its members, and which is the last.
Joined(c, s, t) ==
    /\ \A n \in DOMAIN s : n \in DOMAIN c /\ c[n] = s[n]
    /\ \A n \in DOMAIN t : \E m \in DOMAIN c : c[m] = t[n]
    /\ \A n \in DOMAIN c : (n \in DOMAIN s /\ c[n] = s[n]) \/ \E m \in DOMAIN t : c[n] = t[m]
    /\ t = <<>> => c = s
    /\ t # <<>> => c # <<>> /\ c[Len(c)] = t[Len(t)]

LEMMA ConcatMembers ==
    ASSUME NEW B, NEW s \in Seq(B), NEW t \in Seq(B)
    PROVE  s \o t \in Seq(B) /\ Joined(s \o t, s, t)
<1>1. PICK a \in Nat, b \in Nat : a = Len(s) /\ b = Len(t) OBVIOUS
<1>2. PICK c \in Seq(B) : c = s \o t BY ConcatProperties
<1>3. /\ Len(c) = a + b /\ DOMAIN c = 1..(a + b) /\ DOMAIN s = 1..a /\ DOMAIN t = 1..b
      /\ \A n \in 1..a : c[n] = s[n]
      /\ \A n \in 1..b : c[a + n] = t[n]
  BY <1>1, <1>2
<1>4. \A n \in 1..a : n \in 1..(a + b) OBVIOUS
<1>5. \A n \in 1..b : a + n \in 1..(a + b) OBVIOUS
<1>6. ASSUME NEW n \in 1..(a + b), n \notin 1..a PROVE \E m \in 1..b : c[n] = t[m]
  <2>1. n - a \in 1..b /\ a + (n - a) = n BY <1>6
  <2> QED BY <1>3, <2>1
<1>7. t = <<>> => s \o t = s BY ConcatEmptySeq
<1>8. t # <<>> => b # 0 BY <1>1, EmptySeq
<1>9. b # 0 => c # <<>> /\ c[a + b] = t[b]
  <2>1. ASSUME b # 0 PROVE b \in 1..b /\ a + b # 0 BY <2>1
  <2> QED BY <1>3, <2>1
<1> QED BY <1>1, <1>2, <1>3, <1>4, <1>5, <1>6, <1>7, <1>8, <1>9 DEF Joined

LEMMA JoinedUses ==
    ASSUME NEW c, NEW s, NEW t, Joined(c, s, t)
    PROVE  /\ HBMUses(c) = HBMUses(s) \cup HBMUses(t)
           /\ DDRUses(c) = DDRUses(s) \cup DDRUses(t)
<1>1. ASSUME NEW n \in DOMAIN s PROVE s[n].hbmUsed \in HBMUses(c) /\ s[n].ddrUsed \in DDRUses(c)
  <2>1. n \in DOMAIN c /\ c[n] = s[n] BY DEF Joined
  <2> QED BY <2>1 DEF HBMUses, DDRUses
<1>2. ASSUME NEW n \in DOMAIN t PROVE t[n].hbmUsed \in HBMUses(c) /\ t[n].ddrUsed \in DDRUses(c)
  <2>1. PICK m \in DOMAIN c : c[m] = t[n] BY DEF Joined
  <2> QED BY <2>1 DEF HBMUses, DDRUses
<1>3. ASSUME NEW n \in DOMAIN c
      PROVE  /\ c[n].hbmUsed \in HBMUses(s) \cup HBMUses(t)
             /\ c[n].ddrUsed \in DDRUses(s) \cup DDRUses(t)
  <2>1. (n \in DOMAIN s /\ c[n] = s[n]) \/ \E m \in DOMAIN t : c[n] = t[m] BY DEF Joined
  <2>2. CASE n \in DOMAIN s /\ c[n] = s[n] BY <2>2 DEF HBMUses, DDRUses
  <2>3. CASE \E m \in DOMAIN t : c[n] = t[m] BY <2>3 DEF HBMUses, DDRUses
  <2> QED BY <2>1, <2>2, <2>3
<1>4. HBMUses(s) \cup HBMUses(t) \subseteq HBMUses(c) BY <1>1, <1>2 DEF HBMUses
<1>5. DDRUses(s) \cup DDRUses(t) \subseteq DDRUses(c) BY <1>1, <1>2 DEF DDRUses
<1>6. ASSUME NEW u \in HBMUses(c) PROVE u \in HBMUses(s) \cup HBMUses(t)
  <2>1. PICK n \in DOMAIN c : u = c[n].hbmUsed BY DEF HBMUses
  <2> QED BY <1>3, <2>1
<1>7. ASSUME NEW u \in DDRUses(c) PROVE u \in DDRUses(s) \cup DDRUses(t)
  <2>1. PICK n \in DOMAIN c : u = c[n].ddrUsed BY DEF DDRUses
  <2> QED BY <1>3, <2>1
<1> QED BY <1>4, <1>5, <1>6, <1>7

\* The peak of what is used when more is.
LEMMA PeakMore ==
    ASSUME NEW p, NEW S \in SUBSET Nat, IsPeak(p, S), NEW T \in SUBSET Nat, NEW l \in Nat, NEW m \in Nat,
           m <= p, m <= l, \A u \in T : u <= l, l = m \/ l \in T
    PROVE  IsPeak(Larger(p, l), S \cup T)
<1>1. p \in Nat /\ (\A u \in S : u <= p) /\ (p = 0 \/ p \in S) BY DEF IsPeak
<1>2. CASE p >= l
  <2>1. Larger(p, l) = p BY <1>1, <1>2 DEF Larger
  <2>2. \A u \in T : u <= p BY <1>1, <1>2
  <2> QED BY <1>1, <2>1, <2>2 DEF IsPeak
<1>3. CASE p < l
  <2>1. Larger(p, l) = l /\ l \in T BY <1>1, <1>3 DEF Larger
  <2>2. \A u \in S : u <= l BY <1>1, <1>3
  <2> QED BY <1>1, <2>1, <2>2 DEF IsPeak
<1> QED BY <1>1, <1>2, <1>3

\* What an instance does next is told by the events it emits.
LEMMA TellsMore ==
    ASSUME NEW s, NEW i \in Nat, NEW h \in Seq(Blocks), NEW d \in Seq(Blocks), NEW ph, NEW pd,
           Tells(s, i, h, d, ph, pd), NEW t \in Seq(EventSet),
           NEW h2 \in Seq(Blocks), NEW d2 \in Seq(Blocks), Len(h) <= Len(h2), Len(d) <= Len(d2),
           \A n \in DOMAIN t : /\ t[n].instance = i
                               /\ t[n].hbmUsed <= Len(h2) /\ t[n].ddrUsed <= Len(d2),
           IF t = <<>> THEN Len(h2) = Len(h) ELSE t[Len(t)].hbmUsed = Len(h2),
           Len(d2) = Len(d) \/ \E n \in DOMAIN t : t[n].ddrUsed = Len(d2),
           Explains(s \o t, i, "hbm", Resident(h2)), Explains(s \o t, i, "ddr", Resident(d2))
    PROVE  Tells(s \o t, i, h2, d2, Larger(ph, Len(h2)), Larger(pd, Len(d2)))
<1>0. s \in Seq(EventSet) BY DEF Tells
<1>1. PICK c \in Seq(EventSet) : c = s \o t /\ Joined(c, s, t)
  BY <1>0, ConcatMembers
<1>2. /\ \A n \in DOMAIN s : n \in DOMAIN c /\ c[n] = s[n]
      /\ \A n \in DOMAIN t : \E m \in DOMAIN c : c[m] = t[n]
      /\ \A n \in DOMAIN c : (n \in DOMAIN s /\ c[n] = s[n]) \/ \E m \in DOMAIN t : c[n] = t[m]
      /\ t = <<>> => c = s
      /\ t # <<>> => c # <<>> /\ c[Len(c)] = t[Len(t)]
  BY <1>1 DEF Joined
<1>3. HBMUses(c) = HBMUses(s) \cup HBMUses(t) BY <1>1, JoinedUses
<1>4. DDRUses(c) = DDRUses(s) \cup DDRUses(t) BY <1>1, JoinedUses
<1>5. \A q \in Seq(EventSet) : \A n \in DOMAIN q :
          q[n].hbmUsed \in Nat /\ q[n].ddrUsed \in Nat /\ q[n].instance \in Nat
  <2>1. \A q \in Seq(EventSet) : \A n \in DOMAIN q : q[n] \in EventSet OBVIOUS
  <2> QED BY <2>1 DEF EventSet
<1>6. \A q \in Seq(EventSet) : HBMUses(q) \in SUBSET Nat /\ DDRUses(q) \in SUBSET Nat
  BY <1>5 DEF HBMUses, DDRUses
<1>7. Len(h) \in Nat /\ Len(h2) \in Nat /\ Len(d) \in Nat /\ Len(d2) \in Nat OBVIOUS
<1>8. IsPeak(ph, HBMUses(s)) /\ Len(h) <= ph /\ IsPeak(pd, DDRUses(s)) /\ Len(d) <= pd
  BY DEF Tells
<1>9. IsPeak(Larger(ph, Len(h2)), HBMUses(c))
  <2>1. \A u \in HBMUses(t) : u <= Len(h2) BY DEF HBMUses
  <2>2. Len(h2) = Len(h) \/ Len(h2) \in HBMUses(t)
    <3>1. t # <<>> => Len(t) \in DOMAIN t BY EmptySeq
    <3> QED BY <3>1 DEF HBMUses
  <2>3. PICK S \in SUBSET Nat, T \in SUBSET Nat, l \in Nat, m \in Nat :
          S = HBMUses(s) /\ T = HBMUses(t) /\ l = Len(h2) /\ m = Len(h)
    BY <1>0, <1>6, <1>7
  <2>4. IsPeak(Larger(ph, l), S \cup T) BY <1>7, <1>8, <2>1, <2>2, <2>3, PeakMore
  <2> QED BY <1>3, <2>3, <2>4
<1>10. IsPeak(Larger(pd, Len(d2)), DDRUses(c))
  <2>1. \A u \in DDRUses(t) : u <= Len(d2) BY DEF DDRUses
  <2>2. Len(d2) = Len(d) \/ Len(d2) \in DDRUses(t) BY DEF DDRUses
  <2>3. PICK S \in SUBSET Nat, T \in SUBSET Nat, l \in Nat, m \in Nat :
          S = DDRUses(s) /\ T = DDRUses(t) /\ l = Len(d2) /\ m = Len(d)
    BY <1>0, <1>6, <1>7
  <2>4. IsPeak(Larger(pd, l), S \cup T) BY <1>7, <1>8, <2>1, <2>2, <2>3, PeakMore
  <2> QED BY <1>4, <2>3, <2>4
<1>11. Len(h2) <= Larger(ph, Len(h2)) /\ Len(d2) <= Larger(pd, Len(d2))
  BY <1>7, <1>8 DEF Larger, IsPeak
<1>12. ASSUME NEW n \in DOMAIN c PROVE c[n].instance <= i
  <2>1. CASE n \in DOMAIN s /\ c[n] = s[n] BY <2>1 DEF Tells
  <2>2. CASE \E m \in DOMAIN t : c[n] = t[m]
    <3>1. c[n].instance = i BY <2>2
    <3>2. i <= i OBVIOUS
    <3> QED BY <3>1, <3>2
  <2> QED BY <1>2, <2>1, <2>2
<1>13. c # <<>> /\ c[Len(c)].instance = i => c[Len(c)].hbmUsed = Len(h2)
  <2>1. CASE t = <<>>
    <3>1. c = s /\ Len(h2) = Len(h) BY <1>2, <2>1
    <3> QED BY <3>1 DEF Tells
  <2>2. CASE t # <<>> BY <1>2, <2>2
  <2> QED BY <2>1, <2>2
<1> QED BY <1>1, <1>9, <1>10, <1>11, <1>12, <1>13 DEF Tells

-----------------------------------------------------------------------------
(* The statistics.                                                           *)

\* What stats says of the events of k.
Accounts(st, k) ==
    /\ st \in [DOMAIN NoStats -> Nat]
    /\ st.total = Len(k)
    /\ \A kind \in Kinds : st[kind] = Cardinality({n \in DOMAIN k : k[n].type = kind})
    /\ IsPeak(st.peakHBM, HBMUses(k))
    /\ IsPeak(st.peakDDR, DDRUses(k))
    /\ k # <<>> => st.finalHBM = k[Len(k)].hbmUsed

LEMMA RecordFields ==
    ASSUME NEW st \in [DOMAIN NoStats -> Nat], NEW e \in EventSet
    PROVE  /\ Record(st, e) \in [DOMAIN NoStats -> Nat]
           /\ Record(st, e).total = st.total + 1
           /\ \A kind \in Kinds : Record(st, e)[kind] = IF kind = e.type THEN st[kind] + 1 ELSE st[kind]
           /\ Record(st, e).peakHBM = Larger(st.peakHBM, e.hbmUsed)
           /\ Record(st, e).peakDDR = Larger(st.peakDDR, e.ddrUsed)
           /\ Record(st, e).finalHBM = e.hbmUsed
<1>1. DOMAIN NoStats = {"total", "lookup_hit", "lookup_miss", "materialize", "evict", "store",
                        "peakHBM", "finalHBM", "peakDDR", "finalDDR"}
  BY DEF NoStats
<1>2. PICK type \in Kinds : type = e.type BY DEF EventSet
<1>3. e.hbmUsed \in Nat /\ e.ddrUsed \in Nat BY DEF EventSet
<1>4. Larger(st.peakHBM, e.hbmUsed) \in Nat /\ Larger(st.peakDDR, e.ddrUsed) \in Nat
  BY <1>1, <1>3 DEF Larger
<1>5. Record(st, e) =
        [st EXCEPT !.total = st.total + 1, ![type] = st[type] + 1,
                   !.peakHBM = Larger(st.peakHBM, e.hbmUsed), !.finalHBM = e.hbmUsed,
                   !.peakDDR = Larger(st.peakDDR, e.ddrUsed), !.finalDDR = e.ddrUsed]
  BY <1>1, <1>2 DEF Record, Kinds
<1>6. type # "total" /\ type # "peakHBM" /\ type # "peakDDR" /\ type # "finalHBM" /\ type # "finalDDR"
  BY DEF Kinds
<1>7. Record(st, e).total = st.total + 1 /\ Record(st, e).peakHBM = Larger(st.peakHBM, e.hbmUsed)
  BY <1>1, <1>5, <1>6
<1>8. /\ Record(st, e).peakDDR = Larger(st.peakDDR, e.ddrUsed)
      /\ Record(st, e).finalHBM = e.hbmUsed
  BY <1>1, <1>5, <1>6
<1>9. ASSUME NEW kind \in Kinds
       PROVE  Record(st, e)[kind] = IF kind = e.type THEN st[kind] + 1 ELSE st[kind]
  <2>1. /\ kind # "total" /\ kind # "peakHBM" /\ kind # "peakDDR" /\ kind # "finalHBM"
        /\ kind # "finalDDR" /\ kind \in DOMAIN NoStats
    BY <1>1 DEF Kinds
  <2> QED BY <1>1, <1>2, <1>5, <2>1
<1>10. Record(st, e) \in [DOMAIN NoStats -> Nat]
  <2>1. Record(st, e) = [f \in DOMAIN NoStats |-> Record(st, e)[f]] BY <1>5
  <2>2. Record(st, e).finalDDR = e.ddrUsed BY <1>1, <1>5, <1>6
  <2>3. ASSUME NEW f \in DOMAIN NoStats PROVE Record(st, e)[f] \in Nat
    <3>1. CASE f \in Kinds
      <4>1. st[f] \in Nat OBVIOUS
      <4> QED BY <1>9, <3>1, <4>1
    <3>2. CASE f \notin Kinds
      <4>1. f \in {"total", "peakHBM", "peakDDR", "finalHBM", "finalDDR"}
        BY <1>1, <3>2 DEF Kinds
      <4>2. st.total \in Nat BY <1>1
      <4> QED BY <1>3, <1>4, <1>7, <1>8, <2>2, <4>1, <4>2
    <3> QED BY <3>1, <3>2
  <2> QED BY <2>1, <2>3
<1> QED BY <1>7, <1>8, <1>9, <1>10

LEMMA RecordAccounts ==
    ASSUME NEW st, NEW k \in Seq(EventSet), Accounts(st, k), NEW e \in EventSet
    PROVE  Accounts(Record(st, e), Append(k, e))
<1>1. PICK m \in Nat : m = Len(k) OBVIOUS
<1>2. PICK a \in Seq(EventSet) : a = Append(k, e) BY AppendProperties
<1>3. Len(a) = m + 1 /\ DOMAIN a = 1..(m + 1) /\ a[m + 1] = e /\ \A n \in 1..m : a[n] = k[n]
  BY <1>1, <1>2, AppendProperties
<1>4. DOMAIN k = 1..m BY <1>1
<1>5. st \in [DOMAIN NoStats -> Nat] BY DEF Accounts
<1>6. PICK r : r = Record(st, e) OBVIOUS
<1>7. /\ r \in [DOMAIN NoStats -> Nat]
      /\ r.total = st.total + 1
      /\ \A kind \in Kinds : r[kind] = IF kind = e.type THEN st[kind] + 1 ELSE st[kind]
      /\ r.peakHBM = Larger(st.peakHBM, e.hbmUsed)
      /\ r.peakDDR = Larger(st.peakDDR, e.ddrUsed)
      /\ r.finalHBM = e.hbmUsed
  BY <1>5, <1>6, RecordFields
<1>8. ASSUME NEW kind \in Kinds
      PROVE  r[kind] = Cardinality({n \in DOMAIN a : a[n].type = kind})
  <2> DEFINE S == {n \in DOMAIN k : k[n].type = kind}
             T == {n \in DOMAIN a : a[n].type = kind}
  <2>1. IsFiniteSet(S) /\ Cardinality(S) = st[kind] /\ m + 1 \notin S
    <3>1. S \in SUBSET (1..m) BY <1>4
    <3>2. IsFiniteSet(S) BY <3>1, RestCount
    <3>3. st[kind] = Cardinality(S) BY DEF Accounts
    <3>4. m + 1 \notin S BY <1>4
    <3> QED BY <3>2, <3>3, <3>4
  <2>2. CASE e.type = kind
    <3>1. T = S \cup {m + 1} BY <1>3, <1>4, <2>2
    <3>2. Cardinality(S \cup {m + 1}) = Cardinality(S) + 1
      <4> HIDE DEF S
      <4> QED BY <2>1, FS_AddElement
    <3> QED BY <1>7, <2>1, <2>2, <3>1, <3>2
  <2>3. CASE e.type # kind
    <3>1. T = S BY <1>3, <1>4, <2>3
    <3> QED BY <1>7, <2>1, <2>3, <3>1
  <2> QED BY <2>2, <2>3
<1>9. e.hbmUsed \in Nat /\ e.ddrUsed \in Nat BY DEF EventSet
<1>10. HBMUses(a) = HBMUses(k) \cup {e.hbmUsed} /\ DDRUses(a) = DDRUses(k) \cup {e.ddrUsed}
  BY <1>3, <1>4 DEF HBMUses, DDRUses
<1>11. HBMUses(k) \in SUBSET Nat /\ DDRUses(k) \in SUBSET Nat
  <2>1. \A n \in DOMAIN k : k[n] \in EventSet BY <1>4
  <2> QED BY <2>1 DEF HBMUses, DDRUses, EventSet
<1>12. IsPeak(r.peakHBM, HBMUses(a))
  <2>1. PICK S \in SUBSET Nat, l \in Nat : S = HBMUses(k) /\ l = e.hbmUsed BY <1>9, <1>11
  <2>2. IsPeak(st.peakHBM, S) BY <2>1 DEF Accounts
  <2>3. PICK T \in SUBSET Nat : T = {l} OBVIOUS
  <2>4. 0 \in Nat /\ 0 <= st.peakHBM /\ 0 <= l /\ \A u \in T : u <= l BY <2>2, <2>3 DEF IsPeak
  <2>5. IsPeak(Larger(st.peakHBM, l), S \cup T) BY <2>2, <2>3, <2>4, PeakMore
  <2> QED BY <1>7, <1>10, <2>1, <2>3, <2>5
<1>13. IsPeak(r.peakDDR, DDRUses(a))
  <2>1. PICK S \in SUBSET Nat, l \in Nat : S = DDRUses(k) /\ l = e.ddrUsed BY <1>9, <1>11
  <2>2. IsPeak(st.peakDDR, S) BY <2>1 DEF Accounts
  <2>3. PICK T \in SUBSET Nat : T = {l} OBVIOUS
  <2>4. 0 \in Nat /\ 0 <= st.peakDDR /\ 0 <= l /\ \A u \in T : u <= l BY <2>2, <2>3 DEF IsPeak
  <2>5. IsPeak(Larger(st.peakDDR, l), S \cup T) BY <2>2, <2>3, <2>4, PeakMore
  <2> QED BY <1>7, <1>10, <2>1, <2>3, <2>5
<1>14. r.total = Len(a) BY <1>1, <1>3, <1>7 DEF Accounts
<1>15. r.finalHBM = a[Len(a)].hbmUsed BY <1>3, <1>7
<1>16. Accounts(r, a) BY <1>7, <1>8, <1>12, <1>13, <1>14, <1>15 DEF Accounts
<1> QED BY <1>2, <1>6, <1>16


\* The lists of events on their way: hidden behind a name, their order is kept.
Then(p, q) == p \o q

LEMMA Associate ==
    ASSUME NEW p \in Seq(EventSet), NEW q \in Seq(EventSet), NEW r \in Seq(EventSet)
    PROVE  Then(Then(p, q), r) = Then(p, Then(q, r)) /\ Then(p, q) \in Seq(EventSet)
<1>1. (p \o q) \o r = p \o (q \o r) BY ConcatAssociative, SMTT(30)
<1>2. p \o q \in Seq(EventSet) BY ConcatProperties
<1> QED BY <1>1, <1>2 DEF Then

\* What a call adds to the pending events is added to the stream.
LEMMA StreamGrows ==
    ASSUME NEW k \in Seq(EventSet), NEW b \in Seq(EventSet), NEW p \in Seq(EventSet),
           NEW s \in Seq(EventSet), NEW t \in Seq(EventSet)
    PROVE  /\ Then(Then(k, b), Then(Then(p, s), t)) = Then(Then(Then(k, b), p), Then(s, t))
           /\ Then(Then(k, b), p) \in Seq(EventSet)
           /\ Then(Then(p, s), t) \in Seq(EventSet)
<1>1. PICK c \in Seq(EventSet) : c = Then(k, b) BY Associate
<1>2. PICK u \in Seq(EventSet) : u = Then(s, t) BY Associate
<1>3. Then(p, s) \in Seq(EventSet) BY Associate
<1>4. Then(Then(p, s), t) = Then(p, u) /\ Then(Then(p, s), t) \in Seq(EventSet)
  BY <1>2, <1>3, Associate
<1>5. Then(Then(c, p), u) = Then(c, Then(p, u)) /\ Then(c, p) \in Seq(EventSet) BY Associate
<1> QED BY <1>1, <1>2, <1>4, <1>5
-----------------------------------------------------------------------------
(* The invariant.                                                            *)

\* Between calls only the list that take_events returns has events.
ListsInv ==
    /\ lists \in [hbm : Seq(EventSet), ddr : Seq(EventSet), merged : Seq(EventSet)]
    /\ lists.ddr = <<>>
    /\ IF Tiered THEN lists.hbm = <<>> ELSE lists.merged = <<>>

LEMMA PendingIsOutlet ==
    ASSUME ListsInv
    PROVE  pending = lists[Outlet] /\ pending \in Seq(EventSet)
<1>1. /\ lists.hbm \in Seq(EventSet) /\ lists.merged \in Seq(EventSet) /\ lists.ddr = <<>>
      /\ IF Tiered THEN lists.hbm = <<>> ELSE lists.merged = <<>>
  BY DEF ListsInv
<1>2. \A q \in Seq(EventSet) : q \o <<>> = q /\ <<>> \o q = q BY ConcatEmptySeq
<1> QED BY <1>1, <1>2 DEF pending, Outlet

\* A call adds its events to what is pending, those of HBM first.
LEMMA CallLists ==
    ASSUME ListsInv, NEW h \in Seq(EventSet), NEW d \in Seq(EventSet),
           lists' = AfterCall(lists, h, d)
    PROVE  /\ ListsInv'
           /\ pending' = pending \o h \o IF Tiered THEN d ELSE <<>>
<1>1. PICK q \in [hbm : Seq(EventSet), ddr : Seq(EventSet), merged : Seq(EventSet)] :
        q = lists
  BY DEF ListsInv
<1>2. \A e \in Seq(EventSet) : e \o <<>> = e /\ <<>> \o e = e BY ConcatEmptySeq
<1>3. \A e, f \in Seq(EventSet) : e \o f \in Seq(EventSet) BY ConcatProperties
<1>4. CASE Tiered
  <2>1. q.hbm = <<>> /\ q.ddr = <<>> /\ q.merged \in Seq(EventSet) BY <1>1, <1>4 DEF ListsInv
  <2>2. lists' = [hbm |-> <<>>, ddr |-> <<>>, merged |-> q.merged \o (<<>> \o h) \o (<<>> \o d)]
    BY <1>1, <1>4, <2>1 DEF AfterCall, Emit, DrainTier
  <2>3. PICK m \in Seq(EventSet) : m = q.merged \o h \o d BY <1>3, <2>1
  <2>4. lists' = [hbm |-> <<>>, ddr |-> <<>>, merged |-> m] BY <1>2, <2>2, <2>3
  <2>5. ListsInv'
    <3>1. <<>> \in Seq(EventSet) OBVIOUS
    <3> QED BY <1>4, <2>4, <3>1 DEF ListsInv, Tiered
  <2>6. pending' = m
    <3>1. pending' = m \o <<>> \o <<>> BY <2>4 DEF pending
    <3> QED BY <1>2, <3>1
  <2>7. pending = q.merged
    <3>1. pending = lists.merged BY <1>4, PendingIsOutlet DEF Outlet
    <3> QED BY <1>1, <3>1
  <2> QED BY <1>4, <2>3, <2>5, <2>6, <2>7
<1>5. CASE ~Tiered
  <2>1. q.merged = <<>> /\ q.ddr = <<>> /\ q.hbm \in Seq(EventSet) BY <1>1, <1>5 DEF ListsInv
  <2>2. PICK m \in Seq(EventSet) : m = q.hbm \o h BY <1>3, <2>1
  <2>3. lists' = [hbm |-> m, ddr |-> <<>>, merged |-> <<>>]
    BY <1>1, <1>5, <2>1, <2>2 DEF AfterCall, Emit
  <2>4. ListsInv'
    <3>1. <<>> \in Seq(EventSet) OBVIOUS
    <3> QED BY <1>5, <2>3, <3>1 DEF ListsInv, Tiered
  <2>5. pending' = m
    <3>1. pending' = <<>> \o m \o <<>> BY <2>3 DEF pending
    <3> QED BY <1>2, <3>1
  <2>6. pending = q.hbm
    <3>1. pending = lists.hbm BY <1>5, PendingIsOutlet DEF Outlet
    <3> QED BY <1>1, <3>1
  <2> QED BY <1>2, <1>5, <2>2, <2>4, <2>5, <2>6
<1> QED BY <1>4, <1>5

\* Draining the tiers once more finds nothing.
LEMMA GatheredAlready == ListsInv => Gathered(lists) = lists
<1> SUFFICES ASSUME ListsInv PROVE Gathered(lists) = lists
  OBVIOUS
<1>1. PICK q \in [hbm : Seq(EventSet), ddr : Seq(EventSet), merged : Seq(EventSet)] :
        q = lists
  BY DEF ListsInv
<1>2. CASE Tiered
  <2>1. q.hbm = <<>> /\ q.ddr = <<>> /\ q.merged \in Seq(EventSet) BY <1>1, <1>2 DEF ListsInv
  <2>2. q.merged \o <<>> = q.merged BY <2>1, ConcatEmptySeq
  <2>3. DrainTier(q, "hbm") = q BY <2>1, <2>2 DEF DrainTier
  <2>4. DrainTier(q, "ddr") = q BY <2>1, <2>2 DEF DrainTier
  <2> QED BY <1>1, <1>2, <2>3, <2>4 DEF Gathered
<1>3. CASE ~Tiered BY <1>3 DEF Gathered
<1> QED BY <1>2, <1>3

\* take_events returns what is pending.
LEMMA DrainLists ==
    ASSUME ListsInv, Drain
    PROVE  batch' = pending /\ pending' = <<>> /\ ListsInv'
<1>1. Gathered(lists) = lists BY GatheredAlready
<1>2. batch' = pending BY <1>1, PendingIsOutlet DEF Drain
<1>3. lists' = NoEvents
  <2>1. lists' = [lists EXCEPT ![Outlet] = <<>>] BY <1>1 DEF Drain
  <2> QED BY <2>1 DEF ListsInv, Outlet, NoEvents
<1>4. ListsInv'
  <2>1. <<>> \in Seq(EventSet) OBVIOUS
  <2> QED BY <1>3, <2>1 DEF ListsInv, NoEvents, Tiered
<1>5. pending' = <<>> BY <1>3 DEF pending, NoEvents
<1> QED BY <1>2, <1>4, <1>5

LEMMA NoListsEvents ==
    lists = NoEvents => ListsInv /\ pending = <<>>
<1>1. <<>> \in Seq(EventSet) OBVIOUS
<1> QED BY <1>1 DEF ListsInv, NoEvents, pending

LEMMA SameLists == ListsInv /\ UNCHANGED lists => ListsInv' /\ pending' = pending
BY DEF ListsInv, pending, Tiered

EventsInv ==
    /\ instance \in 1..InstanceCount /\ calls \in 0..MaxCalls
    /\ phase \in {"replay", "emit", "done", "full"}
    /\ phase # "emit" => phase = "full" \/ batch = <<>>
    /\ kept \in Seq(EventSet) /\ batch \in Seq(EventSet) /\ ListsInv
    /\ IsTier(hbm, HBMCapacity) /\ IsTier(ddr, DDRCapacity)
    /\ peaks.hbm <= HBMCapacity /\ peaks.ddr <= DDRCapacity
    /\ Tells(Stream, instance, hbm, ddr, peaks.hbm, peaks.ddr)
    /\ Accounts(stats, kept)

LEMMA PathBlocks ==
    ASSUME NEW ks \in Paths
    PROVE  ks \in Seq(Blocks) /\ Distinct(ks)
<1>1. ks \in Seq(Resident(ks)) BY PathsAssumption
<1>2. Resident(ks) \subseteq Blocks BY DEF Blocks
<1>3. ks \in Seq(Blocks) BY <1>1, <1>2
<1>4. Distinct(ks) BY PathsAssumption DEF Distinct
<1> QED BY <1>3, <1>4

LEMMA EventsInit == Init => EventsInv
<1> SUFFICES ASSUME Init PROVE EventsInv
  OBVIOUS
<1>1. /\ InstanceCount \in Nat \ {0} /\ MaxCalls \in Nat
      /\ HBMCapacity \in Nat \ {0} /\ DDRCapacity \in Nat
  BY InstancesAssumption, EventCapacitiesAssumption
<1>2. <<>> \in Seq(EventSet) /\ <<>> \in Seq(Blocks) /\ DOMAIN <<>> = {} /\ Len(<<>>) = 0
  OBVIOUS
<1>0. ListsInv /\ pending = <<>> BY NoListsEvents DEF Init
<1>3. Stream = <<>>
  <2>1. <<>> \o <<>> \o <<>> = <<>> OBVIOUS
  <2> QED BY <1>0, <2>1 DEF Stream, Init
<1>4. Resident(<<>>) = {} BY DEF Resident
<1>5. peaks.hbm = 0 /\ peaks.ddr = 0 BY DEF Init
<1>6. IsPeak(0, HBMUses(<<>>)) /\ IsPeak(0, DDRUses(<<>>)) BY <1>2 DEF IsPeak, HBMUses, DDRUses
<1>7. Distinct(<<>>) BY <1>2 DEF Distinct
<1>8. Tells(Stream, instance, hbm, ddr, peaks.hbm, peaks.ddr)
  <2>1. \A tier : Explains(<<>>, instance, tier, {}) BY <1>2, ReplayedNone DEF Explains
  <2>2. Tells(<<>>, instance, <<>>, <<>>, 0, 0) BY <1>2, <1>4, <1>6, <2>1 DEF Tells
  <2> QED BY <1>3, <1>5, <2>2 DEF Init
<1>9. Accounts(stats, kept)
  <2>1. \A kind \in Kinds : Cardinality({n \in DOMAIN <<>> : <<>>[n].type = kind}) = 0
    <3>1. \A kind : {n \in DOMAIN <<>> : <<>>[n].type = kind} = {} BY <1>2
    <3> QED BY <3>1, FS_EmptySet
  <2>2. /\ NoStats \in [DOMAIN NoStats -> Nat]
        /\ \A f \in DOMAIN NoStats : NoStats[f] = 0
    BY DEF NoStats
  <2>3. Kinds \subseteq DOMAIN NoStats BY DEF Kinds, NoStats
  <2>4. NoStats.total = 0 /\ NoStats.peakHBM = 0 /\ NoStats.peakDDR = 0 BY DEF NoStats
  <2>5. stats = NoStats /\ kept = <<>> BY DEF Init
  <2> QED BY <1>2, <1>6, <2>1, <2>2, <2>3, <2>4, <2>5 DEF Accounts
<1> QED BY <1>0, <1>1, <1>2, <1>5, <1>7, <1>8, <1>9 DEF EventsInv, Init, IsTier

\* What a call does, told by its events.
CallDone(h2, d2, ph, pd) ==
    /\ IsTier(h2, HBMCapacity) /\ IsTier(d2, DDRCapacity)
    /\ ph <= HBMCapacity /\ pd <= DDRCapacity
    /\ ListsInv'
    /\ Tells(kept \o batch \o pending', instance, h2, d2, ph, pd)

LEMMA LookupDone ==
    ASSUME EventsInv, NEW ks \in Paths, Lookup(ks)
    PROVE  CallDone(hbm', ddr', peaks.hbm, peaks.ddr)
<1>1. ks \in Seq(Blocks) /\ Distinct(ks) BY PathBlocks
<1>2. /\ hbm \in Seq(Blocks) /\ Distinct(hbm) /\ Len(hbm) \in Nat /\ Len(hbm) <= HBMCapacity
      /\ ddr \in Seq(Blocks) /\ Distinct(ddr) /\ Len(ddr) \in Nat /\ Len(ddr) <= DDRCapacity
      /\ instance \in Nat
      /\ kept \in Seq(EventSet) /\ batch \in Seq(EventSet) /\ pending \in Seq(EventSet)
  BY PendingIsOutlet DEF EventsInv, IsTier
<1>3. PICK rest \in Seq(Blocks) : rest = SubSeq(ks, HitCount(hbm, ks) + 1, Len(ks)) /\ Distinct(rest)
  <2>1. HitCount(hbm, ks) \in 0..Len(ks) BY <1>1, HitCountLongest
  <2>2. PICK r \in 0..Len(ks) : r = HitCount(hbm, ks) BY <2>1
  <2>3. SubSeq(ks, r + 1, Len(ks)) \in Seq(Blocks) /\ Distinct(SubSeq(ks, r + 1, Len(ks)))
    BY <1>1, SplitList
  <2> QED BY <2>2, <2>3
<1>4. /\ hbm' \in Seq(Blocks) /\ Distinct(hbm') /\ Resident(hbm') = Resident(hbm)
      /\ Len(hbm') = Len(hbm)
  BY <1>1, <1>2, LookupKeeps DEF Lookup
<1>5. /\ ddr' \in Seq(Blocks) /\ Distinct(ddr') /\ Resident(ddr') = Resident(ddr)
      /\ Len(ddr') = Len(ddr)
  <2>1. ddr' = AfterLookup(ddr, rest) BY <1>3 DEF Lookup
  <2> QED BY <1>2, <1>3, <2>1, LookupKeeps
<1> DEFINE a == LookupEvents("hbm", hbm, ks, 0)
           e == LookupEvents("ddr", ddr, rest, Len(hbm))
           b == IF Tiered THEN e ELSE <<>>
<1>6. /\ a \in Seq(EventSet)
      /\ \A n \in DOMAIN a : /\ OfTier(a[n], "hbm", 0) /\ Used(a[n], "hbm") = Len(hbm)
                             /\ Quiet(a[n], instance, "hbm", Resident(hbm))
  <2>1. "hbm" \in {"hbm", "ddr"} /\ 0 \in Nat OBVIOUS
  <2> QED BY <1>1, <1>2, <2>1, LookupEventsDone
<1>7. /\ b \in Seq(EventSet)
      /\ \A n \in DOMAIN b : /\ OfTier(b[n], "ddr", Len(hbm)) /\ Used(b[n], "ddr") = Len(ddr)
                             /\ Quiet(b[n], instance, "ddr", Resident(ddr))
  <2>0. e \in Seq(EventSet) /\ \A n \in DOMAIN e :
            /\ OfTier(e[n], "ddr", Len(hbm)) /\ Used(e[n], "ddr") = Len(ddr)
            /\ Quiet(e[n], instance, "ddr", Resident(ddr))
    <3>1. "ddr" \in {"hbm", "ddr"} OBVIOUS
    <3> QED BY <1>2, <1>3, <3>1, LookupEventsDone
  <2> HIDE DEF e
  <2>1. CASE Tiered
    <3>1. b = e BY <2>1
    <3> HIDE DEF b
    <3> QED BY <2>0, <3>1
  <2>2. CASE ~Tiered
    <3>1. b = <<>> /\ DOMAIN <<>> = {} /\ <<>> \in Seq(EventSet) BY <2>2
    <3> QED BY <3>1
  <2> QED BY <2>1, <2>2
<1>8. pending' = pending \o a \o b /\ ListsInv'
  <2>1. lists' = AfterCall(lists, a, e) BY <1>3 DEF Lookup
  <2>2. e \in Seq(EventSet)
    <3>1. "ddr" \in {"hbm", "ddr"} OBVIOUS
    <3> QED BY <1>2, <1>3, <3>1, LookupEventsDone
  <2>3. b = IF Tiered THEN e ELSE <<>> OBVIOUS
  <2>4. ListsInv BY DEF EventsInv
  <2> HIDE DEF a, e, b
  <2> QED BY <1>6, <2>1, <2>2, <2>3, <2>4, CallLists
<1> HIDE DEF a, b, e
<1>9. PICK t \in Seq(EventSet) : t = a \o b /\ Joined(t, a, b) BY <1>6, <1>7, ConcatMembers
<1>10. \A n \in DOMAIN t : (\E m \in DOMAIN a : t[n] = a[m]) \/ (\E m \in DOMAIN b : t[n] = b[m])
  BY <1>9 DEF Joined
<1>11. ASSUME NEW n \in DOMAIN t
       PROVE  /\ t[n].instance = instance /\ t[n].hbmUsed = Len(hbm) /\ t[n].ddrUsed <= Len(ddr)
              /\ Quiet(t[n], instance, "hbm", Resident(hbm))
              /\ Quiet(t[n], instance, "ddr", Resident(ddr))
  <2>1. ASSUME NEW m \in DOMAIN a, t[n] = a[m]
        PROVE  /\ t[n].instance = instance /\ t[n].hbmUsed = Len(hbm) /\ t[n].ddrUsed <= Len(ddr)
               /\ Quiet(t[n], instance, "hbm", Resident(hbm))
               /\ Quiet(t[n], instance, "ddr", Resident(ddr))
    <3>1. Quiet(a[m], instance, "ddr", Resident(ddr))
      <4>1. OfTier(a[m], "hbm", 0) /\ "hbm" # "ddr" /\ "ddr" # "hbm" BY <1>6
      <4> QED BY <4>1, OtherTier
    <3>2. a[m].instance = instance /\ a[m].hbmUsed = Len(hbm) /\ a[m].ddrUsed = 0
      BY <1>6 DEF OfTier, Used
    <3> QED BY <1>2, <1>6, <2>1, <3>1, <3>2
  <2>2. ASSUME NEW m \in DOMAIN b, t[n] = b[m]
        PROVE  /\ t[n].instance = instance /\ t[n].hbmUsed = Len(hbm) /\ t[n].ddrUsed <= Len(ddr)
               /\ Quiet(t[n], instance, "hbm", Resident(hbm))
               /\ Quiet(t[n], instance, "ddr", Resident(ddr))
    <3>1. Quiet(b[m], instance, "hbm", Resident(hbm))
      <4>1. OfTier(b[m], "ddr", Len(hbm)) /\ "ddr" # "hbm" BY <1>7
      <4>2. Cardinality(Resident(hbm)) = Len(hbm) BY <1>2, DistinctCount
      <4> QED BY <4>1, <4>2, OtherTier
    <3>2. b[m].instance = instance /\ b[m].hbmUsed = Len(hbm) /\ b[m].ddrUsed = Len(ddr)
      BY <1>7 DEF OfTier, Used
    <3> QED BY <1>2, <1>7, <2>2, <3>1, <3>2
  <2> QED BY <1>10, <2>1, <2>2
<1>12. PICK s \in Seq(EventSet) : /\ s = kept \o batch \o pending
                                  /\ kept \o batch \o pending' = s \o t
  <2>0. a \in Seq(EventSet) /\ b \in Seq(EventSet) BY <1>6, <1>7
  <2>1. /\ Then(Then(kept, batch), Then(Then(pending, a), b))
               = Then(Then(Then(kept, batch), pending), Then(a, b))
        /\ Then(Then(kept, batch), pending) \in Seq(EventSet)
    BY <1>2, <2>0, StreamGrows
  <2>2. /\ kept \o batch \o (pending \o a \o b) = (kept \o batch \o pending) \o (a \o b)
        /\ kept \o batch \o pending \in Seq(EventSet)
    BY <2>1 DEF Then
  <2> QED BY <1>8, <1>9, <2>2
<1>13. Tells(s, instance, hbm, ddr, peaks.hbm, peaks.ddr) BY <1>12 DEF EventsInv, Stream
<1>14. /\ Explains(s \o t, instance, "hbm", Resident(hbm'))
       /\ Explains(s \o t, instance, "ddr", Resident(ddr'))
  <2>1. Explains(s, instance, "hbm", Resident(hbm)) /\ Explains(s, instance, "ddr", Resident(ddr))
    BY <1>13 DEF Tells
  <2> QED BY <1>4, <1>5, <1>11, <2>1, ExplainsQuiet
<1>15. IF t = <<>> THEN Len(hbm') = Len(hbm) ELSE t[Len(t)].hbmUsed = Len(hbm')
  <2>1. t # <<>> => Len(t) \in DOMAIN t BY EmptySeq
  <2> QED BY <1>4, <1>11, <2>1
<1>16. Tells(s \o t, instance, hbm', ddr', Larger(peaks.hbm, Len(hbm')), Larger(peaks.ddr, Len(ddr')))
  <2>1. PICK h2 \in Seq(Blocks), d2 \in Seq(Blocks) : h2 = hbm' /\ d2 = ddr' BY <1>4, <1>5
  <2>2. Len(hbm) <= Len(h2) /\ Len(ddr) <= Len(d2) BY <1>2, <1>4, <1>5, <2>1
  <2>3. \A n \in DOMAIN t : /\ t[n].instance = instance
                            /\ t[n].hbmUsed <= Len(h2) /\ t[n].ddrUsed <= Len(d2)
    BY <1>2, <1>4, <1>5, <1>11, <2>1
  <2>4. Tells(s \o t, instance, h2, d2, Larger(peaks.hbm, Len(h2)), Larger(peaks.ddr, Len(d2)))
    BY <1>2, <1>4, <1>5, <1>13, <1>14, <1>15, <2>1, <2>2, <2>3, TellsMore
  <2> QED BY <2>1, <2>4
<1>17. Larger(peaks.hbm, Len(hbm')) = peaks.hbm /\ Larger(peaks.ddr, Len(ddr')) = peaks.ddr
  <2>1. /\ Len(hbm) <= peaks.hbm /\ peaks.hbm \in Nat /\ Len(hbm') = Len(hbm)
        /\ Len(ddr) <= peaks.ddr /\ peaks.ddr \in Nat /\ Len(ddr') = Len(ddr)
    BY <1>4, <1>5, <1>13 DEF Tells, IsPeak
  <2> QED BY <1>2, <2>1 DEF Larger
<1>19. IsTier(hbm', HBMCapacity) /\ IsTier(ddr', DDRCapacity) BY <1>2, <1>4, <1>5 DEF IsTier
<1>20. peaks.hbm <= HBMCapacity /\ peaks.ddr <= DDRCapacity BY DEF EventsInv
<1> QED BY <1>8, <1>12, <1>16, <1>17, <1>19, <1>20 DEF CallDone


LEMMA MaterializeDone ==
    ASSUME EventsInv, NEW ks \in Paths, Materialize(ks)
    PROVE  CallDone(hbm', ddr', peaks'.hbm, peaks'.ddr)
<1>1. ks \in Seq(Blocks) /\ Distinct(ks) BY PathBlocks
<1>2. /\ hbm \in Seq(Blocks) /\ ddr \in Seq(Blocks) /\ instance \in Nat
      /\ kept \in Seq(EventSet) /\ batch \in Seq(EventSet) /\ pending \in Seq(EventSet)
      /\ IsTier(hbm, HBMCapacity) /\ IsTier(ddr, DDRCapacity)
  BY PendingIsOutlet DEF EventsInv, IsTier
<1>3. HBMCapacity \in Nat \ {0} /\ DDRCapacity \in Nat BY EventCapacitiesAssumption
<1> DEFINE h == Stored("hbm", hbm, ks, HBMCapacity, 0)
           d == IF Tiered THEN Stored("ddr", ddr, ks, DDRCapacity, Len(h.lru))
                          ELSE [lru |-> ddr, events |-> <<>>]
<1>4. /\ hbm' = h.lru /\ ddr' = d.lru
      /\ lists' = AfterCall(lists, h.events, d.events)
      /\ peaks' = [hbm |-> Larger(peaks.hbm, Len(h.lru)), ddr |-> Larger(peaks.ddr, Len(d.lru))]
  BY DEF Materialize
<1>5. StoreDone(h, "hbm", hbm, HBMCapacity, 0)
  <2>1. "hbm" \in {"hbm", "ddr"} /\ 0 \in Nat OBVIOUS
  <2> QED BY <1>1, <1>2, <1>3, <2>1, StoredDone
<1>6. h.lru \in Seq(Blocks) /\ Len(h.lru) \in Nat /\ Len(h.lru) <= HBMCapacity
  BY <1>5 DEF StoreDone, IsTier
<1>7. StoreDone(d, "ddr", ddr, DDRCapacity, Len(h.lru))
  <2> HIDE DEF h
  <2>1. CASE Tiered
    <3>1. "ddr" \in {"hbm", "ddr"} /\ DDRCapacity \in Nat \ {0} BY <1>3, <2>1 DEF Tiered
    <3>2. d = Stored("ddr", ddr, ks, DDRCapacity, Len(h.lru)) BY <2>1
    <3> HIDE DEF d
    <3> QED BY <1>1, <1>2, <1>6, <3>1, <3>2, StoredDone
  <2>2. CASE ~Tiered
    <3>1. d = [lru |-> ddr, events |-> <<>>] BY <2>2
    <3> HIDE DEF d
    <3> QED BY <1>2, <3>1, NothingDone
  <2> QED BY <2>1, <2>2
<1> HIDE DEF h, d
<1>8. d.lru \in Seq(Blocks) /\ Len(d.lru) \in Nat /\ Len(d.lru) <= DDRCapacity
  BY <1>7 DEF StoreDone, IsTier
<1>9. PICK a, b : a = h.events /\ b = d.events OBVIOUS
<1>10. /\ Emitted(a, "hbm", 0, Len(h.lru), Resident(hbm), Resident(h.lru))
       /\ Emitted(b, "ddr", Len(h.lru), Len(d.lru), Resident(ddr), Resident(d.lru))
       /\ Len(hbm) <= Len(h.lru) /\ Len(ddr) <= Len(d.lru)
       /\ IF a = <<>> THEN Len(h.lru) = Len(hbm) ELSE Used(a[Len(a)], "hbm") = Len(h.lru)
       /\ IF b = <<>> THEN Len(d.lru) = Len(ddr) ELSE Used(b[Len(b)], "ddr") = Len(d.lru)
  BY <1>5, <1>7, <1>9 DEF StoreDone
<1>11. /\ a \in Seq(EventSet) /\ b \in Seq(EventSet)
       /\ pending' = pending \o a \o b /\ ListsInv'
  <2>1. a \in Seq(EventSet) /\ b \in Seq(EventSet) BY <1>10 DEF Emitted
  <2>2. b = IF Tiered THEN b ELSE <<>>
    <3>1. ~Tiered => d.events = <<>> BY DEF d
    <3> QED BY <1>9, <3>1
  <2>3. lists' = AfterCall(lists, a, b) BY <1>4, <1>9
  <2>4. ListsInv BY DEF EventsInv
  <2> QED BY <2>1, <2>2, <2>3, <2>4, CallLists
<1>12. ASSUME NEW n \in DOMAIN a
       PROVE  /\ OfTier(a[n], "hbm", 0) /\ a[n].instance = instance /\ a[n].ddrUsed = 0
              /\ a[n].hbmUsed = Used(a[n], "hbm") /\ a[n].hbmUsed <= Len(h.lru)
  BY <1>10 DEF Emitted, OfTier, Used
<1>13. ASSUME NEW n \in DOMAIN b
       PROVE  /\ OfTier(b[n], "ddr", Len(h.lru)) /\ b[n].instance = instance
              /\ b[n].hbmUsed = Len(h.lru)
              /\ b[n].ddrUsed = Used(b[n], "ddr") /\ b[n].ddrUsed <= Len(d.lru)
  BY <1>10 DEF Emitted, OfTier, Used
<1>14. PICK t \in Seq(EventSet) : t = a \o b /\ Joined(t, a, b) BY <1>11, ConcatMembers
<1>15. /\ \A n \in DOMAIN b : \E m \in DOMAIN t : t[m] = b[n]
       /\ \A n \in DOMAIN t : (n \in DOMAIN a /\ t[n] = a[n]) \/ \E m \in DOMAIN b : t[n] = b[m]
       /\ b = <<>> => t = a
       /\ b # <<>> => t # <<>> /\ t[Len(t)] = b[Len(b)]
  BY <1>14 DEF Joined
<1>16. PICK s \in Seq(EventSet) : /\ s = kept \o batch \o pending
                                  /\ kept \o batch \o pending' = s \o t
                                  /\ Then(Then(s, a), b) = Then(s, t)
                                  /\ Then(s, a) \in Seq(EventSet)
  <2>1. /\ Then(Then(kept, batch), Then(Then(pending, a), b))
               = Then(Then(Then(kept, batch), pending), Then(a, b))
        /\ Then(Then(kept, batch), pending) \in Seq(EventSet)
        /\ Then(Then(pending, a), b) \in Seq(EventSet)
    <3>1. /\ kept \in Seq(EventSet) /\ batch \in Seq(EventSet) /\ pending \in Seq(EventSet)
          /\ a \in Seq(EventSet) /\ b \in Seq(EventSet)
      BY <1>2, <1>11
    <3>2. Then(Then(pending, a), b) \in Seq(EventSet) BY <3>1, StreamGrows
    <3>3. Then(Then(kept, batch), pending) \in Seq(EventSet) BY <3>1, StreamGrows
    <3> QED BY <3>1, <3>2, <3>3, StreamGrows
  <2>2. PICK s \in Seq(EventSet) : s = Then(Then(kept, batch), pending) BY <2>1
  <2>3. Then(Then(s, a), b) = Then(s, Then(a, b)) /\ Then(s, a) \in Seq(EventSet)
    BY <1>11, Associate
  <2>4. pending' = Then(Then(pending, a), b) /\ t = Then(a, b) BY <1>11, <1>14 DEF Then
  <2>5. kept \o batch \o pending' = s \o t BY <2>1, <2>2, <2>4 DEF Then
  <2>6. s = kept \o batch \o pending BY <2>2 DEF Then
  <2> QED BY <2>1, <2>3, <2>4, <2>5, <2>6
<1>17. Tells(s, instance, hbm, ddr, peaks.hbm, peaks.ddr) BY <1>16 DEF EventsInv, Stream
<1>18. Explains(s \o t, instance, "hbm", Resident(h.lru))
  <2>1. Explains(s \o a, instance, "hbm", Resident(h.lru)) BY <1>10, <1>17 DEF Tells, Emitted
  <2>2. PICK q \in Seq(EventSet) : q = s \o a /\ q \o b = s \o t BY <1>16 DEF Then
  <2>3. \A n \in DOMAIN b : Quiet(b[n], instance, "hbm", Resident(h.lru))
    <3>1. "ddr" # "hbm" OBVIOUS
    <3>2. Cardinality(Resident(h.lru)) = Len(h.lru) BY <1>5, DistinctCount DEF StoreDone, IsTier
    <3> QED BY <1>13, <3>1, <3>2, OtherTier
  <2>4. Explains(q \o b, instance, "hbm", Resident(h.lru))
    BY <1>11, <2>1, <2>2, <2>3, ExplainsQuiet
  <2> QED BY <2>2, <2>4
<1>19. Explains(s \o t, instance, "ddr", Resident(d.lru))
  <2>1. Explains(s, instance, "ddr", Resident(ddr)) BY <1>17 DEF Tells
  <2>2. PICK q \in Seq(EventSet) : q = s \o a /\ q \o b = s \o t BY <1>16 DEF Then
  <2>3. \A n \in DOMAIN a : Quiet(a[n], instance, "ddr", Resident(ddr))
    <3>1. "hbm" # "ddr" OBVIOUS
    <3> QED BY <1>12, <3>1, OtherTier
  <2>4. Explains(s \o a, instance, "ddr", Resident(ddr))
    BY <1>11, <2>1, <2>3, ExplainsQuiet
  <2>5. Explains(q \o b, instance, "ddr", Resident(d.lru))
    BY <1>10, <2>2, <2>4 DEF Emitted
  <2> QED BY <2>2, <2>5
<1>20. ASSUME NEW n \in DOMAIN t
       PROVE  /\ t[n].instance = instance
              /\ t[n].hbmUsed <= Len(h.lru) /\ t[n].ddrUsed <= Len(d.lru)
  <2>1. CASE n \in DOMAIN a /\ t[n] = a[n] BY <1>8, <1>12, <2>1
  <2>2. CASE \E m \in DOMAIN b : t[n] = b[m]
    <3>1. Len(h.lru) <= Len(h.lru) BY <1>6
    <3> QED BY <1>13, <2>2, <3>1
  <2> QED BY <1>15, <2>1, <2>2
<1>21. /\ a # <<>> => Len(a) \in DOMAIN a
       /\ b # <<>> => Len(b) \in DOMAIN b
  BY <1>11, EmptySeq
<1>22. IF t = <<>> THEN Len(h.lru) = Len(hbm) ELSE t[Len(t)].hbmUsed = Len(h.lru)
  <2>1. CASE b # <<>> BY <1>13, <1>15, <1>21, <2>1
  <2>2. CASE b = <<>>
    <3>1. t = a BY <1>15, <2>2
    <3>2. CASE a = <<>> BY <1>10, <3>1, <3>2
    <3>3. CASE a # <<>> BY <1>10, <1>12, <1>21, <3>1, <3>3
    <3> QED BY <3>2, <3>3
  <2> QED BY <2>1, <2>2
<1>23. Len(d.lru) = Len(ddr) \/ \E n \in DOMAIN t : t[n].ddrUsed = Len(d.lru)
  <2>1. CASE b = <<>> BY <1>10, <2>1
  <2>2. CASE b # <<>>
    <3>1. Len(b) \in DOMAIN b /\ b[Len(b)].ddrUsed = Len(d.lru) BY <1>10, <1>13, <1>21, <2>2
    <3> QED BY <1>15, <3>1
  <2> QED BY <2>1, <2>2
<1>24. Tells(s \o t, instance, h.lru, d.lru,
             Larger(peaks.hbm, Len(h.lru)), Larger(peaks.ddr, Len(d.lru)))
  <2>1. PICK h2 \in Seq(Blocks), d2 \in Seq(Blocks) : h2 = h.lru /\ d2 = d.lru BY <1>6, <1>8
  <2>2. Tells(s \o t, instance, h2, d2, Larger(peaks.hbm, Len(h2)), Larger(peaks.ddr, Len(d2)))
    BY <1>2, <1>10, <1>17, <1>18, <1>19, <1>20, <1>22, <1>23, <2>1, TellsMore
  <2> QED BY <2>1, <2>2
<1>25. /\ peaks'.hbm = Larger(peaks.hbm, Len(h.lru)) /\ peaks'.hbm <= HBMCapacity
       /\ peaks'.ddr = Larger(peaks.ddr, Len(d.lru)) /\ peaks'.ddr <= DDRCapacity
  <2>1. peaks.hbm <= HBMCapacity /\ peaks.ddr <= DDRCapacity BY DEF EventsInv
  <2> QED BY <1>4, <1>6, <1>8, <2>1 DEF Larger
<1>26. IsTier(h.lru, HBMCapacity) /\ IsTier(d.lru, DDRCapacity) BY <1>5, <1>7 DEF StoreDone
<1> QED BY <1>4, <1>11, <1>16, <1>24, <1>25, <1>26 DEF CallDone

-----------------------------------------------------------------------------
(* The steps.                                                                *)

LEMMA CallStep ==
    ASSUME EventsInv, CanCall, CallDone(hbm', ddr', peaks'.hbm, peaks'.ddr), calls' = calls + 1,
           UNCHANGED <<instance, batch, kept, stats, phase>>
    PROVE  EventsInv'
<1>1. calls' \in 0..MaxCalls
  <2>1. MaxCalls \in Nat BY EventCapacitiesAssumption
  <2> QED BY <2>1 DEF EventsInv, CanCall
<1>2. Tells(Stream', instance', hbm', ddr', peaks'.hbm, peaks'.ddr) BY DEF CallDone, Stream
<1>3. Accounts(stats', kept') BY DEF EventsInv
<1> QED BY <1>1, <1>2, <1>3 DEF EventsInv, CallDone

LEMMA DrainStep == EventsInv /\ Drain => EventsInv'
<1> SUFFICES ASSUME EventsInv, Drain PROVE EventsInv'
  OBVIOUS
<1>0. ListsInv BY DEF EventsInv
<1>1. kept \in Seq(EventSet) /\ pending \in Seq(EventSet) /\ batch = <<>>
  BY <1>0, PendingIsOutlet DEF EventsInv, Drain
<1>6. batch' = pending /\ pending' = <<>> /\ ListsInv' BY <1>0, DrainLists
<1>2. Stream' = Stream
  <2>1. PICK s \in Seq(EventSet) : s = kept \o pending BY <1>1, ConcatProperties
  <2>2. s \o <<>> = s /\ kept \o <<>> = kept BY <1>1, ConcatEmptySeq
  <2> QED BY <1>1, <1>6, <2>1, <2>2 DEF Stream, Drain
<1>3. Tells(Stream', instance', hbm', ddr', peaks'.hbm, peaks'.ddr)
  BY <1>2 DEF EventsInv, Drain, caches
<1>4. Accounts(stats', kept') BY DEF EventsInv, Drain
<1> QED BY <1>1, <1>3, <1>4, <1>6 DEF EventsInv, Drain, caches

\* The event that is kept leaves its place in the stream.
LEMMA EmitStream ==
    ASSUME NEW k \in Seq(EventSet), NEW b \in Seq(EventSet), b # <<>>
    PROVE  /\ Head(b) \in EventSet /\ Tail(b) \in Seq(EventSet)
           /\ Append(k, Head(b)) \o Tail(b) = k \o b
<1>1. Head(b) \in EventSet /\ Tail(b) \in Seq(EventSet) BY HeadTailProperties
<1>2. PICK e \in EventSet, r \in Seq(EventSet) : e = Head(b) /\ r = Tail(b) BY <1>1
<1>3. PICK o \in Seq(EventSet) : o = <<e>>
  <2>1. <<e>> \in Seq(EventSet) OBVIOUS
  <2> QED BY <2>1
<1>4. b = o \o r BY <1>2, <1>3, HeadTailProperties
<1>5. Append(k, e) = k \o o BY <1>3, AppendIsConcat
<1>6. Then(Then(k, o), r) = Then(k, Then(o, r)) BY Associate
<1>7. (k \o o) \o r = k \o (o \o r) BY <1>6 DEF Then
<1>8. Append(k, e) \o r = k \o b BY <1>4, <1>5, <1>7
<1> QED BY <1>1, <1>2, <1>8

LEMMA EmitOneStep == EventsInv /\ EmitOne => EventsInv'
<1> SUFFICES ASSUME EventsInv, EmitOne PROVE EventsInv'
  OBVIOUS
<1>1. CASE MaxEvents > 0 /\ Len(kept) >= MaxEvents
  <2>1. /\ phase' = "full"
        /\ UNCHANGED <<instance, calls, hbm, ddr, lists, batch, kept, stats, peaks>>
    BY <1>1 DEF EmitOne, caches
  <2>0. ListsInv' /\ pending' = pending
    <3>1. ListsInv BY DEF EventsInv
    <3> QED BY <2>1, <3>1, SameLists
  <2>2. Tells(Stream', instance', hbm', ddr', peaks'.hbm, peaks'.ddr)
    BY <2>0, <2>1 DEF EventsInv, Stream
  <2>3. Accounts(stats', kept') BY <2>1 DEF EventsInv
  <2> QED BY <2>0, <2>1, <2>2, <2>3 DEF EventsInv
<1>2. CASE ~(MaxEvents > 0 /\ Len(kept) >= MaxEvents)
  <2>1. /\ kept' = Append(kept, Head(batch)) /\ stats' = Record(stats, Head(batch))
        /\ batch' = Tail(batch) /\ batch # <<>> /\ phase = "emit"
        /\ UNCHANGED <<instance, calls, hbm, ddr, lists, phase, peaks>>
    BY <1>2 DEF EmitOne, caches
  <2>2. kept \in Seq(EventSet) /\ batch \in Seq(EventSet) BY DEF EventsInv
  <2>3. /\ Head(batch) \in EventSet /\ batch' \in Seq(EventSet)
        /\ kept' \o batch' = kept \o batch
    BY <2>1, <2>2, EmitStream
  <2>4. PICK e \in EventSet : e = Head(batch) BY <2>3
  <2>5. kept' \in Seq(EventSet) BY <2>1, <2>2, <2>4, AppendProperties
  <2>6. Accounts(stats', kept')
    <3>1. Accounts(stats, kept) BY DEF EventsInv
    <3> QED BY <2>1, <2>2, <2>4, <3>1, RecordAccounts
  <2>0. ListsInv' /\ pending' = pending
    <3>1. ListsInv BY DEF EventsInv
    <3> QED BY <2>1, <3>1, SameLists
  <2>7. Stream' = Stream BY <2>0, <2>1, <2>3 DEF Stream
  <2>8. Tells(Stream', instance', hbm', ddr', peaks'.hbm, peaks'.ddr)
    BY <2>1, <2>7 DEF EventsInv
  <2> QED BY <2>0, <2>1, <2>3, <2>5, <2>6, <2>8 DEF EventsInv
<1> QED BY <1>1, <1>2

\* To the next instance, all that has happened is of an earlier one.
LEMMA FreshInstance ==
    ASSUME NEW s \in Seq(EventSet), NEW i \in Nat, NEW tier, \A n \in DOMAIN s : s[n].instance <= i
    PROVE  Explains(s, i + 1, tier, {})
<1>1. Explains(<<>>, i + 1, tier, {})
  <2>1. DOMAIN <<>> = {} OBVIOUS
  <2> QED BY <2>1, ReplayedNone DEF Explains
<1>2. ASSUME NEW n \in DOMAIN s PROVE Quiet(s[n], i + 1, tier, {})
  <2>1. s[n] \in EventSet OBVIOUS
  <2>2. s[n].instance \in Nat BY <2>1 DEF EventSet
  <2>3. s[n].instance # i + 1 BY <2>2
  <2> QED BY <2>3 DEF Quiet, AfterEvent, Claims
<1>3. <<>> \in Seq(EventSet) /\ <<>> \o s = s BY ConcatEmptySeq
<1>4. Explains(<<>> \o s, i + 1, tier, {}) BY <1>1, <1>2, <1>3, ExplainsQuiet
<1> QED BY <1>3, <1>4

LEMMA NextInstanceStep == EventsInv /\ NextInstance => EventsInv'
<1> SUFFICES ASSUME EventsInv, NextInstance PROVE EventsInv'
  OBVIOUS
<1>1. /\ instance \in 1..InstanceCount /\ InstanceCount \in Nat
      /\ HBMCapacity \in Nat /\ DDRCapacity \in Nat /\ MaxCalls \in Nat
  BY InstancesAssumption, EventCapacitiesAssumption DEF EventsInv
<1>0. ListsInv /\ pending = <<>>
  <2>1. ListsInv BY DEF EventsInv
  <2> QED BY <2>1, GatheredAlready, PendingIsOutlet DEF NextInstance
<1>7. ListsInv' /\ pending' = pending
  <2>1. lists' = NoEvents \/ lists' = lists BY DEF NextInstance
  <2>2. CASE lists' = NoEvents
    <3>1. <<>> \in Seq(EventSet) OBVIOUS
    <3> QED BY <1>0, <2>2, <3>1 DEF ListsInv, NoEvents, pending, Tiered
  <2>3. CASE lists' = lists BY <1>0, <2>3, SameLists
  <2> QED BY <2>1, <2>2, <2>3
<1>2. Stream' = Stream BY <1>7 DEF NextInstance, Stream
<1>3. Tells(Stream, instance, hbm, ddr, peaks.hbm, peaks.ddr) BY DEF EventsInv
<1>4. Accounts(stats', kept') BY DEF EventsInv, NextInstance
<1>5. CASE instance < InstanceCount
  <2>1. /\ instance' = instance + 1 /\ calls' = 0 /\ hbm' = <<>> /\ ddr' = <<>>
        /\ UNCHANGED <<batch, kept, stats, phase, peaks>>
    BY <1>5 DEF NextInstance
  <2>2. PICK s \in Seq(EventSet) : s = Stream BY <1>3 DEF Tells
  <2>3. PICK i \in Nat : i = instance BY <1>1
  <2>4. \A n \in DOMAIN s : s[n].instance \in Nat /\ s[n].instance <= i
    <3>1. \A n \in DOMAIN s : s[n] \in EventSet OBVIOUS
    <3>2. \A n \in DOMAIN s : s[n].instance <= i BY <1>3, <2>2, <2>3 DEF Tells
    <3> QED BY <3>1, <3>2 DEF EventSet
  <2>5. Explains(s, i + 1, "hbm", {}) /\ Explains(s, i + 1, "ddr", {})
    BY <2>4, FreshInstance
  <2>6. /\ IsPeak(peaks.hbm, HBMUses(s)) /\ IsPeak(peaks.ddr, DDRUses(s))
        /\ 0 <= peaks.hbm /\ 0 <= peaks.ddr
    BY <1>3, <2>2 DEF Tells, IsPeak
  <2>7. s # <<>> => s[Len(s)].instance # i + 1
    <3>1. s # <<>> => Len(s) \in DOMAIN s BY EmptySeq
    <3> QED BY <2>4, <3>1
  <2>8. Resident(<<>>) = {} /\ Len(<<>>) = 0 /\ <<>> \in Seq(Blocks) BY DEF Resident
  <2>9. \A n \in DOMAIN s : s[n].instance <= i + 1 BY <2>4
  <2>10. Tells(s, i + 1, <<>>, <<>>, peaks.hbm, peaks.ddr)
    BY <2>5, <2>6, <2>7, <2>8, <2>9 DEF Tells
  <2>11. Tells(Stream', instance', hbm', ddr', peaks'.hbm, peaks'.ddr)
    BY <1>2, <2>1, <2>2, <2>3, <2>10
  <2>12. IsTier(<<>>, HBMCapacity) /\ IsTier(<<>>, DDRCapacity)
    <3>1. DOMAIN <<>> = {} OBVIOUS
    <3> QED BY <1>1, <2>8, <3>1 DEF IsTier, Distinct
  <2>13. instance' \in 1..InstanceCount /\ calls' \in 0..MaxCalls BY <1>1, <1>5, <2>1
  <2> QED BY <1>4, <1>7, <2>1, <2>11, <2>12, <2>13 DEF EventsInv
<1>6. CASE ~(instance < InstanceCount)
  <2>1. /\ phase' = "done" /\ phase = "replay"
        /\ UNCHANGED <<instance, calls, hbm, ddr, lists, batch, kept, stats, peaks>>
    BY <1>6 DEF NextInstance, caches
  <2>2. Tells(Stream', instance', hbm', ddr', peaks'.hbm, peaks'.ddr) BY <1>2, <1>3, <2>1
  <2> QED BY <1>4, <1>7, <2>1, <2>2 DEF EventsInv
<1> QED BY <1>5, <1>6

LEMMA EventsStep == EventsInv /\ [Next]_vars => EventsInv'
<1> SUFFICES ASSUME EventsInv, [Next]_vars PROVE EventsInv'
  OBVIOUS
<1>1. ASSUME NEW ks \in Paths, Lookup(ks) PROVE EventsInv'
  <2>1. CallDone(hbm', ddr', peaks.hbm, peaks.ddr) BY <1>1, LookupDone
  <2>2. /\ CanCall /\ calls' = calls + 1 /\ peaks' = peaks
        /\ UNCHANGED <<instance, batch, kept, stats, phase>>
    BY <1>1 DEF Lookup
  <2>3. CallDone(hbm', ddr', peaks'.hbm, peaks'.ddr) BY <2>1, <2>2
  <2> QED BY <2>2, <2>3, CallStep
<1>2. ASSUME NEW ks \in Paths, Materialize(ks) PROVE EventsInv'
  <2>1. CallDone(hbm', ddr', peaks'.hbm, peaks'.ddr) BY <1>2, MaterializeDone
  <2>2. /\ CanCall /\ calls' = calls + 1
        /\ UNCHANGED <<instance, batch, kept, stats, phase>>
    BY <1>2 DEF Materialize
  <2> QED BY <2>1, <2>2, CallStep
<1>3. CASE Drain BY <1>3, DrainStep
<1>4. CASE EmitOne BY <1>4, EmitOneStep
<1>5. CASE EmitReturn
  <2>1. /\ phase' = "replay" /\ batch = <<>>
        /\ UNCHANGED <<instance, calls, hbm, ddr, lists, batch, kept, stats, peaks>>
    BY <1>5 DEF EmitReturn, caches
  <2>0. ListsInv' /\ pending' = pending
    <3>1. ListsInv BY DEF EventsInv
    <3> QED BY <2>1, <3>1, SameLists
  <2>2. Tells(Stream', instance', hbm', ddr', peaks'.hbm, peaks'.ddr)
    BY <2>0, <2>1 DEF EventsInv, Stream
  <2>3. Accounts(stats', kept') BY <2>1 DEF EventsInv
  <2> QED BY <2>0, <2>1, <2>2, <2>3 DEF EventsInv
<1>6. CASE NextInstance BY <1>6, NextInstanceStep
<1>7. CASE UNCHANGED vars
  <2>1. UNCHANGED <<instance, calls, hbm, ddr, lists, batch, kept, stats, phase, peaks>>
    BY <1>7 DEF vars, caches
  <2>0. ListsInv' /\ pending' = pending
    <3>1. ListsInv BY DEF EventsInv
    <3> QED BY <2>1, <3>1, SameLists
  <2>2. Tells(Stream', instance', hbm', ddr', peaks'.hbm, peaks'.ddr)
    BY <2>0, <2>1 DEF EventsInv, Stream
  <2>3. Accounts(stats', kept') BY <2>1 DEF EventsInv
  <2> QED BY <2>0, <2>1, <2>2, <2>3 DEF EventsInv
<1> QED BY <1>1, <1>2, <1>3, <1>4, <1>5, <1>6, <1>7 DEF Next

-----------------------------------------------------------------------------
(* The theorems.                                                             *)

LEMMA EventsTypes == EventsInv => TypeOK
<1> SUFFICES ASSUME EventsInv PROVE TypeOK
  OBVIOUS
<1>1. PICK s \in Seq(EventSet) : s = Stream BY DEF EventsInv, Tells
<1>2. Tells(s, instance, hbm, ddr, peaks.hbm, peaks.ddr) BY <1>1 DEF EventsInv
<1>3. /\ peaks.hbm <= HBMCapacity /\ peaks.ddr <= DDRCapacity
      /\ peaks.hbm \in Nat /\ peaks.ddr \in Nat
      /\ HBMCapacity \in Nat /\ DDRCapacity \in Nat
  BY <1>2, EventCapacitiesAssumption DEF EventsInv, Tells, IsPeak
<1>4. ASSUME NEW e \in Resident(s)
      PROVE  e.hbmUsed \in 0..HBMCapacity /\ e.ddrUsed \in 0..DDRCapacity
  <2>1. PICK n \in DOMAIN s : e = s[n] BY DEF Resident
  <2>2. e \in EventSet BY <2>1
  <2>3. e.hbmUsed \in Nat /\ e.ddrUsed \in Nat BY <2>2 DEF EventSet
  <2>4. e.hbmUsed \in HBMUses(s) /\ e.ddrUsed \in DDRUses(s) BY <2>1 DEF HBMUses, DDRUses
  <2>5. e.hbmUsed <= peaks.hbm /\ e.ddrUsed <= peaks.ddr BY <1>2, <2>4 DEF Tells, IsPeak
  <2> QED BY <1>3, <2>3, <2>5
<1>5. stats \in [DOMAIN NoStats -> Nat] BY DEF EventsInv, Accounts
<1> QED BY <1>1, <1>4, <1>5 DEF EventsInv, TypeOK

LEMMA EventsExplain == EventsInv => StreamExplainsResidency
<1> SUFFICES ASSUME EventsInv PROVE StreamExplainsResidency
  OBVIOUS
<1>1. PICK s \in Seq(EventSet) : s = Stream BY DEF EventsInv, Tells
<1>2. Tells(s, instance, hbm, ddr, peaks.hbm, peaks.ddr) BY <1>1 DEF EventsInv
<1>3. /\ Explains(s, instance, "hbm", Resident(hbm))
      /\ Explains(s, instance, "ddr", Resident(ddr))
  BY <1>2 DEF Tells
<1>4. ASSUME NEW n \in DOMAIN s, s[n].instance = instance
      PROVE  /\ s[n].hbmUsed = Cardinality(Replayed(SubSeq(s, 1, n), "hbm", instance))
             /\ s[n].tier = "ddr" =>
                    s[n].ddrUsed = Cardinality(Replayed(SubSeq(s, 1, n), "ddr", instance))
  <2>1. s[n].hbmUsed = Cardinality(Replayed(SubSeq(s, 1, n), "hbm", instance))
    BY <1>3, <1>4 DEF Explains, Claims, Used
  <2>2. ASSUME s[n].tier = "ddr"
        PROVE  s[n].ddrUsed = Cardinality(Replayed(SubSeq(s, 1, n), "ddr", instance))
    <3>1. "ddr" # "hbm" OBVIOUS
    <3> QED BY <1>3, <1>4, <2>2, <3>1 DEF Explains, Claims, Used
  <2> QED BY <2>1, <2>2
<1>5. /\ Replayed(s, "hbm", instance) = Resident(hbm)
      /\ Replayed(s, "ddr", instance) = Resident(ddr)
  BY <1>3 DEF Explains
<1> QED BY <1>1, <1>4, <1>5 DEF StreamExplainsResidency

\* A set has one largest number.
LEMMA OnePeak ==
    ASSUME NEW S \in SUBSET Nat, NEW p, NEW q, IsPeak(p, S), IsPeak(q, S)
    PROVE  p = q
BY DEF IsPeak

LEMMA EventsStats == EventsInv => StatsAreOfKeptEvents
<1> SUFFICES ASSUME EventsInv PROVE StatsAreOfKeptEvents
  OBVIOUS
<1>1. Accounts(stats, kept) /\ kept \in Seq(EventSet) BY DEF EventsInv
<1>2. ASSUME pending = <<>>, batch = <<>>
      PROVE  /\ stats.peakHBM = peaks.hbm
             /\ stats.peakDDR = peaks.ddr
             /\ kept # <<>> /\ kept[Len(kept)].instance = instance => stats.finalHBM = Len(hbm)
  <2>1. Stream = kept
    <3>1. kept \o <<>> = kept BY <1>1, ConcatEmptySeq
    <3> QED BY <1>2, <3>1 DEF Stream
  <2>2. Tells(kept, instance, hbm, ddr, peaks.hbm, peaks.ddr) BY <2>1 DEF EventsInv
  <2>3. HBMUses(kept) \in SUBSET Nat /\ DDRUses(kept) \in SUBSET Nat
    <3>1. \A n \in DOMAIN kept : kept[n] \in EventSet BY <1>1
    <3> QED BY <3>1 DEF HBMUses, DDRUses, EventSet
  <2>4. stats.peakHBM = peaks.hbm BY <1>1, <2>2, <2>3, OnePeak DEF Tells, Accounts
  <2>5. stats.peakDDR = peaks.ddr BY <1>1, <2>2, <2>3, OnePeak DEF Tells, Accounts
  <2>6. kept # <<>> /\ kept[Len(kept)].instance = instance => stats.finalHBM = Len(hbm)
    BY <1>1, <2>2 DEF Tells, Accounts
  <2> QED BY <2>4, <2>5, <2>6
<1>3. /\ stats.total = Len(kept)
      /\ \A k \in Kinds : stats[k] = Cardinality({n \in DOMAIN kept : kept[n].type = k})
  BY <1>1 DEF Accounts
<1> QED BY <1>2, <1>3 DEF StatsAreOfKeptEvents

\* At any time the stream, what is kept of it included, tells of the tiers, and
\* the statistics of what is kept (cache/tiered.py, cache/event_sink.py).
THEOREM EventsInvariance == Spec => []EventsInv
BY EventsInit, EventsStep, PTL DEF Spec

\* Every event claims occupancies within the capacities of its tiers, and every
\* statistic is a number (cache/events.py, report/cache_events.py).
THEOREM EventsTypeCorrect == Spec => []TypeOK
BY EventsInvariance, EventsTypes, PTL

\* No event is lost, repeated or put out of order between a tier and the sink:
\* replaying the stream gives the blocks of both tiers and, at each event, the
\* occupancy it claims (cache/tiered.py, _drain_cache_events of the replay).
THEOREM StreamIsFaithful == Spec => []StreamExplainsResidency
BY EventsInvariance, EventsExplain, PTL

\* The statistics are those of the kept events up to the one a full sink refuses,
\* and of the true occupancies once all events are in (report/cache_events.py).
THEOREM StatsAreFaithful == Spec => []StatsAreOfKeptEvents
BY EventsInvariance, EventsStats, PTL
=========================================================================
