------------------------ MODULE BatchReplayProofs ------------------------
(***************************************************************************)
(* Proofs about BatchReplay, for any number of requests, any prompts, any  *)
(* arrival times and durations, any capacities and any scheduler limits:   *)
(* type correctness, the accounting of cached tokens and KV loads, the     *)
(* limits of a batch, the requests that are prepared for an iteration, the *)
(* visibility of cached blocks, and the frontier: what is looked up, when, *)
(* and what that makes of the times of a request.                          *)
(***************************************************************************)
EXTENDS BatchReplay, PrefixCacheProofs

-----------------------------------------------------------------------------
(* The accounting of cached tokens.                                          *)

LEMMA ProductMonotonic ==
    ASSUME NEW a \in Int, NEW b \in Int, NEW k \in Nat, a <= b
    PROVE  a * k <= b * k
OBVIOUS

LEMMA DivisionBounds ==
    ASSUME NEW n \in Nat, NEW k \in Nat \ {0}
    PROVE  (n \div k) \in Nat /\ (n \div k) * k <= n /\ n < (n \div k) * k + k
OBVIOUS

LEMMA MultipleOfBlock ==
    ASSUME NEW n \in Nat
    PROVE  (n * BlockSize) % BlockSize = 0 /\ (n * BlockSize) \div BlockSize = n
BY BlockSizeAssumption

\* What CHOOSE picks in FullPrefix exists, and its blocks fit the limit.
LEMMA FullPrefixLongest ==
    ASSUME NEW sizes \in Seq(Int), NEW limit \in Nat
    PROVE  /\ FullPrefix(sizes, limit) \in 0..Len(sizes)
           /\ \A i \in 1..FullPrefix(sizes, limit) : Fits(sizes, limit, i)
           /\ FullPrefix(sizes, limit) < Len(sizes)
                => ~Fits(sizes, limit, FullPrefix(sizes, limit) + 1)
           /\ FullPrefix(sizes, limit) * BlockSize <= limit
<1> DEFINE good == {i \in 1..Len(sizes) : Fits(sizes, limit, i)}
           Longest(n) == /\ \A i \in 1..n : Fits(sizes, limit, i)
                         /\ n < Len(sizes) => ~Fits(sizes, limit, n + 1)
<1>1. PICK n \in 0..Len(sizes) : /\ \A i \in 1..n : i \in good
                                 /\ n < Len(sizes) => n + 1 \notin good
  <2>1. Len(sizes) \in Nat OBVIOUS
  <2> HIDE DEF good
  <2> QED BY <2>1, FirstFailure
<1>2. Longest(n) BY <1>1
<1>3. FullPrefix(sizes, limit) = CHOOSE m \in 0..Len(sizes) : Longest(m) BY DEF FullPrefix
<1>4. FullPrefix(sizes, limit) \in 0..Len(sizes) /\ Longest(FullPrefix(sizes, limit))
  <2> HIDE DEF Longest
  <2> QED BY <1>2, <1>3
<1>5. FullPrefix(sizes, limit) * BlockSize <= limit
  <2>1. PICK m \in Nat : m = FullPrefix(sizes, limit) BY <1>4
  <2>2. m # 0 => Fits(sizes, limit, m) BY <1>4, <2>1
  <2>3. m # 0 => m * BlockSize <= limit BY <2>2 DEF Fits
  <2>4. 0 * BlockSize <= limit BY BlockSizeAssumption
  <2> QED BY <2>1, <2>3, <2>4
<1> QED BY <1>4, <1>5

\* A prompt is cut into just as many blocks as its tokens need.
LEMMA BlockCountBounds ==
    ASSUME NEW n \in Nat
    PROVE  /\ BlockCount(n) \in Nat
           /\ n <= BlockCount(n) * BlockSize
           /\ \A k \in Nat : n <= k * BlockSize => BlockCount(n) <= k
           /\ n = 0 => BlockCount(n) = 0
<1> USE BlockSizeAssumption
<1>1. PICK m \in Nat : m = n + BlockSize - 1 OBVIOUS
<1>2. PICK c \in Nat : c = m \div BlockSize BY DivisionBounds
<1>3. c * BlockSize <= m /\ m < c * BlockSize + BlockSize BY <1>2, DivisionBounds
<1>4. BlockCount(n) = c BY <1>1, <1>2 DEF BlockCount
<1>5. ASSUME NEW k \in Nat, n <= k * BlockSize PROVE c <= k
  <2> SUFFICES ASSUME k + 1 <= c PROVE FALSE
    OBVIOUS
  <2>1. (k + 1) * BlockSize <= c * BlockSize BY ProductMonotonic
  <2>2. (k + 1) * BlockSize = k * BlockSize + BlockSize OBVIOUS
  <2> QED BY <1>1, <1>3, <1>5, <2>1, <2>2
<1>6. n <= c * BlockSize BY <1>1, <1>3
<1>7. n = 0 => c <= 0
  <2>1. 0 <= 0 * BlockSize OBVIOUS
  <2> QED BY <1>5, <2>1
<1> QED BY <1>4, <1>5, <1>6, <1>7

LEMMA BlockTokensType ==
    ASSUME NEW n \in Nat
    PROVE  BlockTokens(n) \in Seq(Int) /\ Len(BlockTokens(n)) = BlockCount(n)
<1>1. BlockCount(n) \in Nat BY BlockCountBounds
<1>2. \A i \in 1..BlockCount(n) : MinOf(BlockSize, n - (i - 1) * BlockSize) \in Int
  BY <1>1, BlockSizeAssumption DEF MinOf
<1> QED BY <1>1, <1>2 DEF BlockTokens

\* A request is credited whole blocks among those its lookup hit, and never
\* more tokens than may be skipped.
LEMMA AccountBounds ==
    ASSUME NEW n \in Nat, NEW hs \in Seq(Int), NEW ds \in Seq(Int)
    PROVE  \E h \in 0..Len(hs), d \in 0..Len(ds) :
               /\ Account(n, hs, ds).hbm = h * BlockSize
               /\ Account(n, hs, ds).ddr = d * BlockSize
               /\ h * BlockSize + d * BlockSize <= MaxCacheHitLength(n)
<1> USE BlockSizeAssumption
<1> DEFINE most      == MaxCacheHitLength(n)
           all       == hs \o ds
           matchable == FullPrefix(all, most)
           matched   == MinOf(matchable, most \div BlockSize)
           left      == MaxOf(matched - DropBlocks, 0)
           cap       == left * BlockSize
           h         == FullPrefix(hs, cap)
           rest      == cap - h * BlockSize
           d         == FullPrefix(ds, rest)
<1>1. /\ Account(n, hs, ds).hbm = h * BlockSize
      /\ Account(n, hs, ds).ddr = d * BlockSize
  BY DEF Account
<1>2. most \in Nat
  BY DropBlocksAssumption DEF MaxCacheHitLength, MaxOf
<1>3. all \in Seq(Int)
  BY ConcatProperties
<1> HIDE DEF most, all
<1>4. matchable \in Nat
  <2>1. matchable \in 0..Len(all) BY <1>2, <1>3, FullPrefixLongest
  <2>2. Len(all) \in Nat BY <1>3
  <2> QED BY <2>1, <2>2
<1>5. most \div BlockSize \in Nat /\ (most \div BlockSize) * BlockSize <= most
  BY <1>2, DivisionBounds
<1> HIDE DEF matchable
<1>6. matched \in Nat /\ matched <= most \div BlockSize
  BY <1>4, <1>5 DEF MinOf
<1> HIDE DEF matched
<1>7. left \in Nat /\ left <= matched
  BY <1>6, DropBlocksAssumption DEF MaxOf
<1> HIDE DEF left
<1>8. cap \in Nat /\ cap <= most
  <2>1. left * BlockSize <= (most \div BlockSize) * BlockSize
    <3>1. /\ left \in Int /\ most \div BlockSize \in Int /\ BlockSize \in Nat
          /\ left <= most \div BlockSize
      BY <1>5, <1>6, <1>7
    <3> QED BY <3>1, ProductMonotonic
  <2>2. left * BlockSize \in Nat BY <1>7
  <2> QED BY <1>2, <1>5, <2>1, <2>2
<1> HIDE DEF cap
<1>9. h \in 0..Len(hs) /\ h * BlockSize <= cap
  BY <1>8, FullPrefixLongest
<1> HIDE DEF h
<1>10. h * BlockSize \in Nat /\ rest \in Nat
  BY <1>8, <1>9
<1>11. d \in 0..Len(ds) /\ d * BlockSize <= rest
  <2> HIDE DEF rest
  <2> QED BY <1>10, FullPrefixLongest
<1> HIDE DEF d
<1>12. h * BlockSize + d * BlockSize <= most
  <2>1. d * BlockSize \in Nat BY <1>11
  <2> QED BY <1>2, <1>8, <1>10, <1>11, <2>1
<1> QED BY <1>1, <1>9, <1>11, <1>12 DEF most

-----------------------------------------------------------------------------
(* Lemmas about the operators of the replay.                                 *)

LEMMA PromptType ==
    ASSUME TypeOK, NEW r \in Requests
    PROVE  /\ Tokens(r) \in Nat
           /\ Blocks(r) \in Seq(BlockKeys)
           /\ Len(Blocks(r)) = BlockCount(Tokens(r))
           /\ Remaining(r) \in Int
BY PromptsAssumption DEF TypeOK, Tokens, Blocks, Remaining

LEMMA ChunkLimitType == ChunkLimit \in Nat \ {0} /\ ChunkLimit <= MaxBatchedTokens
BY SchedulerAssumption DEF ChunkLimit, MinOf

\* planned_prefill_tokens stays within the budget, the chunk limit and the
\* tokens that are left; it is zero only for want of budget, or of a budget
\* that takes a whole prompt when chunking is off.
LEMMA PlannedBounds ==
    ASSUME TypeOK, NEW r \in Requests, NEW t \in Nat
    PROVE  /\ Planned(r, t) \in Nat
           /\ Planned(r, t) <= t
           /\ Planned(r, t) <= ChunkLimit
           /\ Planned(r, t) > 0 => Planned(r, t) <= Remaining(r)
           /\ Planned(r, t) = 0 /\ t > 0 /\ Remaining(r) > 0 => ~Chunked /\ Remaining(r) > t
           /\ Planned(r, t) > 0 /\ ~Chunked /\ t <= MaxBatchedTokens
                => Planned(r, t) = Remaining(r)
BY PromptType, ChunkLimitType, SchedulerAssumption DEF Planned, MinOf, ChunkLimit

\* What _ensure_lookup finds and records, whatever CHOOSE picked on the way.
LEMMA LookupOutcome ==
    ASSUME TypeOK, NEW r \in Requests, EnsureLookup(r)
    PROVE  \E h, d, ch, cd \in Nat :
               /\ h + d <= Len(Blocks(r))
               /\ ch <= h /\ cd <= d
               /\ ch * BlockSize + cd * BlockSize <= MaxCacheHitLength(Tokens(r))
               /\ \A i \in 1..(h + d) : Blocks(r)[i] \in Resident(hbm) \cup Resident(ddr)
               /\ rawHits' = [rawHits EXCEPT ![r] = h + d]
               /\ ddrHit' = [ddrHit EXCEPT ![r] = cd * BlockSize]
               /\ cached' = [cached EXCEPT ![r] = ch * BlockSize + cd * BlockSize]
               /\ computed' = [computed EXCEPT ![r] = ch * BlockSize + cd * BlockSize]
               /\ owes' = [owes EXCEPT ![r] = cd * BlockSize]
               /\ hbm' \in Seq(BlockKeys) /\ Resident(hbm') = Resident(hbm)
               /\ ddr' \in Seq(BlockKeys) /\ Resident(ddr') = Resident(ddr)
<1> DEFINE sizes == BlockTokens(Tokens(r))
           h     == HitCount(hbm, Blocks(r))
           rest  == SubSeq(Blocks(r), h + 1, Len(Blocks(r)))
           d     == HitCount(ddr, rest)
           hs    == SubSeq(sizes, 1, h)
           ds    == SubSeq(sizes, h + 1, h + d)
           acc   == Account(Tokens(r), hs, ds)
<1>1. /\ hbm' = AfterLookup(hbm, Blocks(r))
      /\ ddr' = AfterLookup(ddr, rest)
      /\ rawHits' = [rawHits EXCEPT ![r] = h + d]
      /\ ddrHit' = [ddrHit EXCEPT ![r] = acc.ddr]
      /\ cached' = [cached EXCEPT ![r] = acc.hbm + acc.ddr]
      /\ computed' = [computed EXCEPT ![r] = acc.hbm + acc.ddr]
      /\ owes' = [owes EXCEPT ![r] = acc.ddr]
  BY DEF EnsureLookup
<1>2. /\ hbm \in Seq(BlockKeys) /\ ddr \in Seq(BlockKeys)
      /\ Tokens(r) \in Nat /\ Blocks(r) \in Seq(BlockKeys)
      /\ Len(Blocks(r)) = BlockCount(Tokens(r)) /\ Len(Blocks(r)) \in Nat
  <2>1. /\ Tokens(r) \in Nat /\ Blocks(r) \in Seq(BlockKeys)
        /\ Len(Blocks(r)) = BlockCount(Tokens(r))
    BY PromptType
  <2>2. Len(Blocks(r)) \in Nat BY <2>1, LenProperties
  <2> QED BY <2>1, <2>2 DEF TypeOK
<1>3. sizes \in Seq(Int) /\ Len(sizes) = Len(Blocks(r))
  BY <1>2, BlockTokensType
<1>4. h \in 0..Len(Blocks(r)) /\ \A i \in 1..h : Blocks(r)[i] \in Resident(hbm)
  BY <1>2, HitCountLongest
<1> HIDE DEF h, sizes
<1>5. /\ rest \in Seq(BlockKeys)
      /\ Len(rest) = Len(Blocks(r)) - h
      /\ \A i \in 1..Len(rest) : rest[i] = Blocks(r)[h + i]
  <2>1. \A i \in (h + 1)..Len(Blocks(r)) : Blocks(r)[i] \in BlockKeys
    BY <1>2, <1>4
  <2>2. h + 1 \in Int /\ Len(Blocks(r)) \in Int BY <1>2, <1>4
  <2>3. rest \in Seq(BlockKeys) BY <2>1, <2>2, SubSeqProperties
  <2>4. Len(rest) = IF h + 1 <= Len(Blocks(r)) THEN Len(Blocks(r)) - (h + 1) + 1 ELSE 0
    BY <2>1, <2>2, SubSeqProperties
  <2>5. \A i \in 1..(Len(Blocks(r)) - (h + 1) + 1) : rest[i] = Blocks(r)[(h + 1) + i - 1]
    BY <2>1, <2>2, SubSeqProperties
  <2>6. Len(rest) = Len(Blocks(r)) - h BY <1>2, <1>4, <2>4
  <2>7. \A i \in 1..Len(rest) : rest[i] = Blocks(r)[h + i]
    <3> SUFFICES ASSUME NEW i \in 1..Len(rest) PROVE rest[i] = Blocks(r)[h + i]
      OBVIOUS
    <3>1. i \in 1..(Len(Blocks(r)) - (h + 1) + 1) /\ (h + 1) + i - 1 = h + i
      BY <1>2, <1>4, <2>6
    <3> QED BY <2>5, <3>1
  <2> QED BY <2>3, <2>6, <2>7
<1> HIDE DEF rest
<1>6. d \in 0..Len(rest) /\ \A i \in 1..d : rest[i] \in Resident(ddr)
  BY <1>5, HitCountLongest
<1> HIDE DEF d
<1>7. h + d <= Len(Blocks(r)) /\ h \in Nat /\ d \in Nat
  BY <1>2, <1>4, <1>5, <1>6
<1>8. \A i \in 1..(h + d) : Blocks(r)[i] \in Resident(hbm) \cup Resident(ddr)
  <2> SUFFICES ASSUME NEW i \in 1..(h + d)
               PROVE  Blocks(r)[i] \in Resident(hbm) \cup Resident(ddr)
    OBVIOUS
  <2>1. CASE i <= h BY <1>4, <1>7, <2>1
  <2>2. CASE i > h
    <3>1. i - h \in 1..d /\ i - h \in 1..Len(rest) /\ h + (i - h) = i
      BY <1>6, <1>7, <2>2
    <3> QED BY <1>5, <1>6, <3>1
  <2> QED BY <1>7, <2>1, <2>2
<1>9. hs \in Seq(Int) /\ Len(hs) = h
  <2>1. \A i \in 1..h : sizes[i] \in Int BY <1>3, <1>7
  <2>2. hs \in Seq(Int) /\ Len(hs) = IF 1 <= h THEN h - 1 + 1 ELSE 0
    BY <1>7, <2>1, SubSeqProperties
  <2> QED BY <1>7, <2>2
<1>10. ds \in Seq(Int) /\ Len(ds) = d
  <2>1. \A i \in (h + 1)..(h + d) : sizes[i] \in Int BY <1>3, <1>7
  <2>2. h + 1 \in Int /\ h + d \in Int BY <1>7
  <2>3. ds \in Seq(Int) /\ Len(ds) = IF h + 1 <= h + d THEN (h + d) - (h + 1) + 1 ELSE 0
    BY <2>1, <2>2, SubSeqProperties
  <2> QED BY <1>7, <2>3
<1> HIDE DEF hs, ds
<1>11. PICK ch \in 0..Len(hs), cd \in 0..Len(ds) :
           /\ acc.hbm = ch * BlockSize
           /\ acc.ddr = cd * BlockSize
           /\ ch * BlockSize + cd * BlockSize <= MaxCacheHitLength(Tokens(r))
  BY <1>2, <1>9, <1>10, AccountBounds
<1>12. ch \in Nat /\ cd \in Nat /\ ch <= h /\ cd <= d
  BY <1>7, <1>9, <1>10
<1> HIDE DEF acc
<1>13. hbm' \in Seq(BlockKeys) /\ Resident(hbm') = Resident(hbm)
  BY <1>1, <1>2, LookupResident
<1>14. ddr' \in Seq(BlockKeys) /\ Resident(ddr') = Resident(ddr)
  BY <1>1, <1>2, <1>5, LookupResident
<1> QED
  BY <1>1, <1>7, <1>8, <1>11, <1>12, <1>13, <1>14

LEMMA InOrderMembers ==
    ASSUME TypeOK, NEW r \in Requests, NEW S
    PROVE  /\ InOrder(r, S) \in Seq(Nat)
           /\ Resident(InOrder(r, S)) = S \cap (1..Len(Blocks(r)))
<1>1. PICK n \in Nat : n = Len(Blocks(r))
  <2>1. Len(Blocks(r)) \in Nat BY PromptType, LenProperties
  <2> QED BY <2>1
<1>2. PICK q : q = [i \in 1..n |-> i] /\ q \in Seq(Nat)
  <2>1. [i \in 1..n |-> i] \in Seq(Nat) OBVIOUS
  <2> QED BY <2>1
<1>3. Resident(q) = 1..n BY <1>2 DEF Resident
<1>4. InOrder(r, S) = Keep(q, S) BY <1>1, <1>2 DEF InOrder
<1>5. Keep(q, S) \in Seq(Nat) /\ Resident(Keep(q, S)) = Resident(q) \cap S
  BY <1>2, KeepMembers
<1> QED BY <1>1, <1>3, <1>4, <1>5

\* Whatever the policy stores for a slice are misses of the request, and none
\* of them ends beyond the tokens the slice leaves computed.
LEMMA MaterializedMembers ==
    ASSUME TypeOK, NEW r \in Requests, NEW low \in Int, NEW high \in Int
    PROVE  LET is == Materialized(r, low, high)
           IN  /\ is \in Seq(Nat)
               /\ \A i \in Resident(is) : /\ i \in MissIndices(r)
                                          /\ EndToken(r, i) <= high
               /\ KeysOf(r, is) \in Seq(BlockKeys)
               /\ Resident(KeysOf(r, is)) = {Blocks(r)[i] : i \in Resident(is)}
<1> DEFINE is      == Materialized(r, low, high)
           already == {stored[r][j] : j \in DOMAIN stored[r]}
           chunk   == IF Progressive THEN NewlyComplete(r, low, high, already) ELSE {}
           rest    == IF high # Tokens(r) THEN {}
                      ELSE IF Progressive
                           THEN NewlyComplete(r, -1, Tokens(r), already \cup chunk)
                           ELSE MissIndices(r)
<1>1. is = InOrder(r, chunk) \o InOrder(r, rest) BY DEF Materialized
<1>2. Tokens(r) \in Nat /\ Blocks(r) \in Seq(BlockKeys) /\ rawHits[r] \in Nat
  BY PromptType DEF TypeOK
<1>3. \A i \in MissIndices(r) : i \in 1..Len(Blocks(r)) /\ EndToken(r, i) <= Tokens(r)
  BY <1>2, BlockSizeAssumption DEF MissIndices, EndToken, MinOf
<1>4. \A i \in chunk : i \in MissIndices(r) /\ EndToken(r, i) <= high
  BY DEF NewlyComplete
<1>5. \A i \in rest : i \in MissIndices(r) /\ EndToken(r, i) <= high
  BY <1>3 DEF NewlyComplete
<1> HIDE DEF chunk, rest
<1>6. PICK s1 \in Seq(Nat), s2 \in Seq(Nat) :
          /\ s1 = InOrder(r, chunk) /\ Resident(s1) \subseteq chunk
          /\ s2 = InOrder(r, rest) /\ Resident(s2) \subseteq rest
  BY InOrderMembers
<1>7. s1 \o s2 \in Seq(Nat) /\ Resident(s1 \o s2) = Resident(s1) \cup Resident(s2)
  BY ConcatProperties, ResidentConcat
<1>8. \A i \in Resident(is) : /\ i \in MissIndices(r)
                             /\ EndToken(r, i) <= high
  BY <1>1, <1>4, <1>5, <1>6, <1>7
<1>9. PICK t \in Seq(Nat) : t = is BY <1>1, <1>6, <1>7
<1>10. /\ KeysOf(r, is) = [j \in 1..Len(t) |-> Blocks(r)[t[j]]]
       /\ DOMAIN t = 1..Len(t) /\ Len(t) \in Nat
  BY <1>9 DEF KeysOf
<1>11. \A j \in 1..Len(t) : t[j] \in Resident(is) BY <1>9, <1>10 DEF Resident
<1>12. \A j \in 1..Len(t) : Blocks(r)[t[j]] \in BlockKeys
  BY <1>2, <1>3, <1>8, <1>11
<1>13. KeysOf(r, is) \in Seq(BlockKeys)
  <2> DEFINE ks == [j \in 1..Len(t) |-> Blocks(r)[t[j]]]
  <2>1. ks \in Seq(BlockKeys) BY <1>10, <1>12
  <2> QED BY <1>10, <2>1
<1>14. Resident(KeysOf(r, is)) = {Blocks(r)[i] : i \in Resident(is)}
  <2> DEFINE ks == [j \in 1..Len(t) |-> Blocks(r)[t[j]]]
  <2>0. DOMAIN ks = 1..Len(t) /\ \A j \in 1..Len(t) : ks[j] = Blocks(r)[t[j]] OBVIOUS
  <2>1. Resident(ks) = {Blocks(r)[t[j]] : j \in 1..Len(t)}
    BY <2>0 DEF Resident
  <2>2. Resident(is) = {t[j] : j \in 1..Len(t)} BY <1>9, <1>10 DEF Resident
  <2>3. KeysOf(r, is) = ks BY <1>10
  <2>4. {Blocks(r)[i] : i \in Resident(is)} = {Blocks(r)[t[j]] : j \in 1..Len(t)}
    BY <2>2
  <2> HIDE DEF ks, is
  <2> QED BY <2>1, <2>3, <2>4
<1> QED BY <1>8, <1>9, <1>13, <1>14

-----------------------------------------------------------------------------
(* Type correctness.                                                         *)

\* While the frontier walks the running requests it has slices left: this is
\* what keeps its count within MaxSeqs.
SlotsLeft == phase = "planRunning" => slots < MaxSeqs

TypeInv == TypeOK /\ SlotsLeft

LEMMA TypeInit == Init => TypeInv
<1> SUFFICES ASSUME Init PROVE TypeInv
  OBVIOUS
<1>1. hbm \in Seq(BlockKeys) /\ ddr \in Seq(BlockKeys) BY DEF Init
<1>2. waiting \in Seq(Requests) /\ running \in Seq(Requests) BY DEF Init
<1>3. slices \in Seq(Slices) BY DEF Init
<1>4. stored \in [Requests -> Seq(Nat)] BY DEF Init
<1>5. tok \in 0..MaxBatchedTokens /\ slots \in 0..MaxSeqs /\ idx \in Nat \ {0}
  BY SchedulerAssumption DEF Init
<1>6. /\ phase \in Phases /\ SlotsLeft
      /\ arrived \in 0..N /\ now \in Nat /\ finishMs \in Nat
  BY RequestsAssumption DEF Init, Phases, SlotsLeft
<1>7. /\ rawHits \in [Requests -> Nat] /\ ddrHit \in [Requests -> Nat]
      /\ cached \in [Requests -> Nat] /\ computed \in [Requests -> Nat]
      /\ owes \in [Requests -> Nat] /\ loaded \in [Requests -> Nat]
      /\ firstAt \in [Requests -> Nat \cup {Unset}]
      /\ finishAt \in [Requests -> Nat \cup {Unset}]
      /\ lookupAt \in [Requests -> Nat \cup {Unset}]
      /\ status \in [Requests -> {"pending", "waiting", "running", "finished"}]
      /\ looked \in [Requests -> BOOLEAN]
      /\ prompt \in [Requests -> Prompts] /\ start \in [Requests -> 0..MaxStart]
  BY DEF Init
<1> QED BY <1>1, <1>2, <1>3, <1>4, <1>5, <1>6, <1>7 DEF TypeInv, TypeOK

\* Leaving out one position of a sequence.
LEMMA WithoutType ==
    ASSUME NEW S, NEW q \in Seq(S), NEW i \in 1..Len(q)
    PROVE  /\ SubSeq(q, 1, i - 1) \o SubSeq(q, i + 1, Len(q)) \in Seq(S)
           /\ Len(SubSeq(q, 1, i - 1) \o SubSeq(q, i + 1, Len(q))) = Len(q) - 1
           /\ \A j \in 1..(Len(q) - 1) :
                  (SubSeq(q, 1, i - 1) \o SubSeq(q, i + 1, Len(q)))[j]
                      = IF j < i THEN q[j] ELSE q[j + 1]
<1> DEFINE n == Len(q)
           a == SubSeq(q, 1, i - 1)
           b == SubSeq(q, i + 1, n)
<1>1. n \in Nat /\ i \in Nat /\ 1 <= i /\ i <= n /\ \A j \in 1..n : q[j] \in S
  OBVIOUS
<1> HIDE DEF n
<1>2. a \in Seq(S) /\ Len(a) = i - 1 /\ \A j \in 1..(i - 1) : a[j] = q[j]
  <2>1. \A j \in 1..(i - 1) : q[j] \in S BY <1>1
  <2>2. 1 \in Int /\ i - 1 \in Int BY <1>1
  <2>3. /\ a \in Seq(S)
        /\ Len(a) = IF 1 <= i - 1 THEN (i - 1) - 1 + 1 ELSE 0
        /\ \A j \in 1..((i - 1) - 1 + 1) : a[j] = q[1 + j - 1]
    BY <2>1, <2>2, SubSeqProperties
  <2> HIDE DEF a
  <2>4. Len(a) = i - 1 BY <1>1, <2>3
  <2>5. \A j \in 1..(i - 1) : a[j] = q[j] BY <1>1, <2>3
  <2> QED BY <2>3, <2>4, <2>5
<1>3. b \in Seq(S) /\ Len(b) = n - i /\ \A j \in 1..(n - i) : b[j] = q[i + j]
  <2>1. \A j \in (i + 1)..n : q[j] \in S BY <1>1
  <2>2. i + 1 \in Int /\ n \in Int BY <1>1
  <2>3. /\ b \in Seq(S)
        /\ Len(b) = IF i + 1 <= n THEN n - (i + 1) + 1 ELSE 0
        /\ \A j \in 1..(n - (i + 1) + 1) : b[j] = q[(i + 1) + j - 1]
    BY <2>1, <2>2, SubSeqProperties
  <2> HIDE DEF b
  <2>4. Len(b) = n - i BY <1>1, <2>3
  <2>5. \A j \in 1..(n - i) : b[j] = q[i + j]
    <3> SUFFICES ASSUME NEW j \in 1..(n - i) PROVE b[j] = q[i + j]
      OBVIOUS
    <3>1. j \in 1..(n - (i + 1) + 1) /\ (i + 1) + j - 1 = i + j BY <1>1
    <3> QED BY <2>3, <3>1
  <2> QED BY <2>3, <2>4, <2>5
<1> HIDE DEF a, b
<1>4. /\ a \o b \in Seq(S) /\ Len(a \o b) = Len(a) + Len(b)
      /\ \A j \in 1..(Len(a) + Len(b)) : (a \o b)[j] = IF j <= Len(a) THEN a[j]
                                                       ELSE b[j - Len(a)]
  BY <1>2, <1>3, ConcatProperties
<1>5. Len(a \o b) = n - 1 BY <1>1, <1>2, <1>3, <1>4
<1>6. ASSUME NEW j \in 1..(n - 1) PROVE (a \o b)[j] = IF j < i THEN q[j] ELSE q[j + 1]
  <2>1. (a \o b)[j] = IF j <= i - 1 THEN a[j] ELSE b[j - (i - 1)]
    BY <1>1, <1>2, <1>3, <1>4
  <2>2. CASE j < i
    <3>1. j \in 1..(i - 1) /\ j <= i - 1 BY <1>1, <2>2
    <3> QED BY <1>2, <2>1, <2>2, <3>1
  <2>3. CASE ~(j < i)
    <3>1. j - (i - 1) \in 1..(n - i) /\ i + (j - (i - 1)) = j + 1 /\ ~(j <= i - 1)
      BY <1>1, <2>3
    <3> QED BY <1>3, <2>1, <2>3, <3>1
  <2> QED BY <2>2, <2>3
<1> QED BY <1>4, <1>5, <1>6 DEF a, b, n

LEMMA LookupTypeStep ==
    ASSUME TypeInv, NEW r \in Requests, EnsureLookup(r)
    PROVE  TypeInv'
<1> USE DEF TypeInv
<1>1. PICK h \in Nat, d \in Nat, ch \in Nat, cd \in Nat :
          /\ rawHits' = [rawHits EXCEPT ![r] = h + d]
          /\ ddrHit' = [ddrHit EXCEPT ![r] = cd * BlockSize]
          /\ cached' = [cached EXCEPT ![r] = ch * BlockSize + cd * BlockSize]
          /\ computed' = [computed EXCEPT ![r] = ch * BlockSize + cd * BlockSize]
          /\ owes' = [owes EXCEPT ![r] = cd * BlockSize]
          /\ hbm' \in Seq(BlockKeys) /\ ddr' \in Seq(BlockKeys)
  BY LookupOutcome
<1>2. ch * BlockSize \in Nat /\ cd * BlockSize \in Nat
      /\ ch * BlockSize + cd * BlockSize \in Nat /\ h + d \in Nat
  BY BlockSizeAssumption
<1>3. rawHits' \in [Requests -> Nat] BY <1>1, <1>2 DEF TypeOK
<1>4. ddrHit' \in [Requests -> Nat] BY <1>1, <1>2 DEF TypeOK
<1>5. cached' \in [Requests -> Nat] /\ computed' \in [Requests -> Nat]
  BY <1>1, <1>2 DEF TypeOK
<1>6. owes' \in [Requests -> Nat] BY <1>1, <1>2 DEF TypeOK
<1>7. /\ looked' \in [Requests -> BOOLEAN]
      /\ lookupAt' \in [Requests -> Nat \cup {Unset}]
  BY DEF EnsureLookup, TypeOK
<1>8. UNCHANGED <<inputs, queues, now, status, finishAt, stored, firstAt, phase,
                  budget, loaded>>
  BY DEF EnsureLookup
<1> QED BY <1>1, <1>3, <1>4, <1>5, <1>6, <1>7, <1>8
        DEF TypeOK, SlotsLeft, inputs, queues, budget

LEMMA ApplyTypeStep ==
    ASSUME TypeInv, ApplySlice
    PROVE  TypeInv'
<1> USE DEF TypeInv
<1>1. slices[idx] \in Slices
  <2>1. /\ slices \in Seq(Slices)
        /\ idx \in Nat \ {0} /\ idx <= Len(slices)
    BY DEF ApplySlice, TypeOK
  <2> QED BY <2>1
<1>2. PICK r \in Requests, low \in Nat, high \in Nat, is \in Seq(Nat) :
          /\ r = slices[idx].req
          /\ low = slices[idx].before
          /\ high = slices[idx].before + slices[idx].tokens
          /\ is = Materialized(r, low, high)
          /\ KeysOf(r, is) \in Seq(BlockKeys)
  <2>1. /\ slices[idx].req \in Requests
        /\ slices[idx].before \in Nat /\ slices[idx].before \in Int
        /\ slices[idx].before + slices[idx].tokens \in Nat
        /\ slices[idx].before + slices[idx].tokens \in Int
    BY <1>1 DEF Slices
  <2>2. /\ Materialized(slices[idx].req, slices[idx].before,
                        slices[idx].before + slices[idx].tokens) \in Seq(Nat)
        /\ KeysOf(slices[idx].req,
                  Materialized(slices[idx].req, slices[idx].before,
                               slices[idx].before + slices[idx].tokens)) \in Seq(BlockKeys)
    BY <2>1, MaterializedMembers
  <2> QED BY <2>1, <2>2
<1>3. /\ computed' = [computed EXCEPT ![r] = high]
      /\ stored' = [stored EXCEPT ![r] = @ \o is]
      /\ hbm' = AfterStore(hbm, KeysOf(r, is), HBMCapacity)
      /\ ddr' = AfterStore(ddr, KeysOf(r, is), DDRCapacity)
      /\ \/ /\ status' = [status EXCEPT ![r] = "finished"]
            /\ finishAt' = [finishAt EXCEPT ![r] = finishMs]
         \/ UNCHANGED <<status, finishAt>>
  BY <1>2 DEF ApplySlice
<1>4. hbm' \in Seq(BlockKeys) /\ ddr' \in Seq(BlockKeys)
  BY <1>2, <1>3, StoreResident, CapacitiesAssumption DEF TypeOK
<1>5. stored' \in [Requests -> Seq(Nat)] BY <1>3, ConcatProperties DEF TypeOK
<1>6. /\ computed' \in [Requests -> Nat] /\ finishMs \in Nat
      /\ status' \in [Requests -> {"pending", "waiting", "running", "finished"}]
      /\ finishAt' \in [Requests -> Nat \cup {Unset}]
  <2>1. /\ computed \in [Requests -> Nat] /\ finishMs \in Nat
        /\ status \in [Requests -> {"pending", "waiting", "running", "finished"}]
        /\ finishAt \in [Requests -> Nat \cup {Unset}]
    BY DEF TypeOK
  <2> QED BY <1>3, <2>1
<1>7. idx' \in Nat \ {0} BY DEF ApplySlice, TypeOK
<1>8. UNCHANGED <<inputs, queues, now, lookups, owes, firstAt, phase, tok, slots,
                  slices, finishMs, loaded>>
  BY DEF ApplySlice
<1> QED BY <1>4, <1>5, <1>6, <1>7, <1>8
        DEF TypeOK, SlotsLeft, inputs, queues, lookups

LEMMA TypeStep == TypeInv /\ [Next]_vars => TypeInv'
<1> SUFFICES ASSUME TypeInv, [Next]_vars PROVE TypeInv'
  OBVIOUS
<1> USE DEF TypeInv, SlotsLeft
<1> USE RequestsAssumption, SchedulerAssumption
<1>t. /\ tok \in Nat /\ tok <= MaxBatchedTokens
      /\ slots \in Nat /\ slots <= MaxSeqs
      /\ idx \in Nat /\ idx # 0 /\ now \in Nat /\ arrived \in 0..N
      /\ waiting \in Seq(Requests) /\ running \in Seq(Requests)
      /\ slices \in Seq(Slices)
  BY DEF TypeOK
<1>1. CASE Arrive
  <2>1. arrived + 1 \in Requests /\ arrived' \in 0..N
    BY <1>1 DEF Arrive, Due, TypeOK, Requests
  <2>2. waiting' \in Seq(Requests) BY <1>1, <2>1 DEF Arrive, TypeOK
  <2>3. status' \in [Requests -> {"pending", "waiting", "running", "finished"}]
    BY <1>1 DEF Arrive, TypeOK
  <2> QED BY <1>1, <2>1, <2>2, <2>3
          DEF Arrive, TypeOK, inputs, lookups, progress, caches, budget
<1>2. CASE JumpToArrival
  <2>1. now' \in Nat BY <1>2 DEF JumpToArrival, TypeOK, Requests
  <2> QED BY <1>2, <2>1
          DEF JumpToArrival, TypeOK, inputs, queues, lookups, progress, caches, budget
<1>3. CASE BeginFrontier
  BY <1>3 DEF BeginFrontier, TypeOK, Phases, inputs, queues, lookups, progress, caches
<1>4. CASE PlanRunning
  <2>1. running[idx] \in Requests BY <1>4 DEF PlanRunning, TypeOK
  <2>0. tok \in Nat BY DEF TypeOK
  <2>2. PICK t \in Nat : t = Planned(running[idx], tok) /\ t <= tok
    BY <2>0, <2>1, PlannedBounds
  <2>3. tok' \in 0..MaxBatchedTokens /\ idx' \in Nat \ {0}
    BY <1>t, <1>4, <2>2 DEF PlanRunning
  <2>4. phase' \in Phases /\ slots' \in 0..MaxSeqs /\ SlotsLeft'
    <3>1. \E used \in {0, 1} :
             /\ slots' = slots + used
             /\ phase' = "planRunning" \/ phase' = "planned"
             /\ phase' = "planRunning" => used = 0 \/ slots + 1 < MaxSeqs
      BY <1>t, <1>4, <2>2 DEF PlanRunning
    <3>2. slots < MaxSeqs BY <1>4 DEF PlanRunning
    <3> QED BY <1>t, <3>1, <3>2 DEF Phases
  <2> QED BY <1>4, <2>3, <2>4
          DEF PlanRunning, TypeOK, inputs, queues, lookups, progress, caches
<1>5. CASE PlanRunningDone
  BY <1>5 DEF PlanRunningDone, TypeOK, Phases, inputs, queues, lookups, progress, caches
<1>6. CASE LookupWaiting
  <2>1. waiting[idx] \in Requests BY <1>6 DEF LookupWaiting, PlanningWaiting, TypeOK
  <2>2. EnsureLookup(waiting[idx]) BY <1>6 DEF LookupWaiting
  <2> QED BY <1>6, <2>1, <2>2, LookupTypeStep
<1>7. CASE FinishZeroMiss
  <2>1. waiting[idx] \in Requests /\ idx \in 1..Len(waiting)
    <3>1. waiting \in Seq(Requests) /\ idx \in Nat \ {0} /\ idx <= Len(waiting)
      BY <1>7 DEF FinishZeroMiss, PlanningWaiting, TypeOK
    <3> QED BY <3>1
  <2>2. waiting' \in Seq(Requests)
    BY <1>7, <2>1, WithoutType DEF FinishZeroMiss, TypeOK
  <2>3. /\ status' \in [Requests -> {"pending", "waiting", "running", "finished"}]
        /\ firstAt' \in [Requests -> Nat \cup {Unset}]
        /\ finishAt' \in [Requests -> Nat \cup {Unset}]
    BY <1>7 DEF FinishZeroMiss, TypeOK
  <2> QED BY <1>7, <2>2, <2>3
          DEF FinishZeroMiss, PlanningWaiting, TypeOK, inputs, lookups, caches, budget
<1>8. CASE PlanWaiting
  <2>1. waiting[idx] \in Requests BY <1>8 DEF PlanWaiting, PlanningWaiting, TypeOK
  <2>0. tok \in Nat BY DEF TypeOK
  <2>2. PICK t \in Nat : t = Planned(waiting[idx], tok) /\ t <= tok
    BY <2>0, <2>1, PlannedBounds
  <2>3. /\ tok' \in 0..MaxBatchedTokens /\ idx' \in Nat \ {0}
        /\ phase' \in Phases /\ slots' \in 0..MaxSeqs /\ SlotsLeft'
    <3>1. slots < MaxSeqs /\ phase = "planWaiting" BY <1>8 DEF PlanWaiting, PlanningWaiting
    <3>2. \/ tok' = tok - t /\ slots' = slots + 1 /\ idx' = idx + 1 /\ phase' = phase
          \/ phase' = "planned" /\ UNCHANGED <<tok, slots, idx>>
      BY <1>8, <2>2 DEF PlanWaiting
    <3> QED BY <1>t, <2>2, <3>1, <3>2 DEF Phases
  <2> QED BY <1>8, <2>3
          DEF PlanWaiting, TypeOK, inputs, queues, lookups, progress, caches
<1>9. CASE PlanWaitingDone
  BY <1>9 DEF PlanWaitingDone, TypeOK, Phases, inputs, queues, lookups, progress,
              caches, budget
<1>10. CASE NothingLeft
  <2>1. now' \in Nat
    <3>1. CASE arrived < N
      <4>1. start[arrived + 1] \in Nat
        <5>1. arrived + 1 \in Requests BY <1>t, <3>1 DEF Requests
        <5>2. start \in [Requests -> 0..MaxStart] BY DEF TypeOK
        <5> QED BY <5>1, <5>2
      <4>2. now' = MaxOf(now, start[arrived + 1]) BY <1>10, <3>1 DEF NothingLeft
      <4> QED BY <1>t, <4>1, <4>2 DEF MaxOf
    <3>2. CASE ~(arrived < N) BY <1>t, <1>10, <3>2 DEF NothingLeft
    <3> QED BY <3>1, <3>2
  <2> QED BY <1>10, <2>1
          DEF NothingLeft, TypeOK, Phases, inputs, queues, lookups, progress, caches, budget
<1>11. CASE BeginSchedule
  <2>1. slices' \in Seq(Slices)
    BY <1>11 DEF BeginSchedule
  <2> QED BY <1>11, <2>1
          DEF BeginSchedule, TypeOK, Phases, inputs, queues, lookups, progress, caches
<1>12. CASE ScheduleRunning
  <2>1. running[idx] \in Requests BY <1>12 DEF ScheduleRunning, TypeOK
  <2>0. tok \in Nat BY DEF TypeOK
  <2>2. PICK r \in Requests, t \in Nat : /\ r = running[idx]
                                        /\ t = Planned(r, tok) /\ t <= tok
    <3>1. Planned(running[idx], tok) \in Nat /\ Planned(running[idx], tok) <= tok
      BY <2>0, <2>1, PlannedBounds
    <3> QED BY <2>1, <3>1
  <2>3. tok' \in 0..MaxBatchedTokens /\ idx' \in Nat \ {0}
    BY <1>t, <1>12, <2>2 DEF ScheduleRunning
  <2>4. SliceFor(r, t) \in Slices
    BY DEF SliceFor, Slices, TypeOK
  <2>5. slices' \in Seq(Slices)
    <3>1. slices' = slices \/ slices' = Append(slices, SliceFor(r, t))
      BY <1>12, <2>2 DEF ScheduleRunning
    <3> HIDE DEF SliceFor
    <3> QED BY <1>t, <2>4, <3>1
  <2>6. owes' \in [Requests -> Nat] /\ loaded' \in [Requests -> Nat]
    <3>1. \/ UNCHANGED <<owes, loaded>>
          \/ /\ owes' = [owes EXCEPT ![r] = 0]
             /\ loaded' = [loaded EXCEPT ![r] = @ + owes[r]]
      BY <1>12, <2>2 DEF ScheduleRunning, ConsumeLoad
    <3>2. owes \in [Requests -> Nat] /\ loaded \in [Requests -> Nat] BY DEF TypeOK
    <3> QED BY <3>1, <3>2
  <2> QED BY <1>12, <2>3, <2>5, <2>6
          DEF ScheduleRunning, TypeOK, Phases, inputs, queues, lookups, progress, caches
<1>13. CASE ScheduleRunningDone
  BY <1>13 DEF ScheduleRunningDone, TypeOK, Phases, inputs, queues, lookups, progress,
               caches, budget
<1>14. CASE AdmitWaiting
  <2>1. /\ Head(waiting) \in Requests /\ Tail(waiting) \in Seq(Requests)
    BY <1>14 DEF AdmitWaiting, CanAdmit, TypeOK
  <2>0. tok \in Nat BY DEF TypeOK
  <2>2. PICK r \in Requests, t \in Nat : /\ r = Head(waiting)
                                        /\ t = Planned(r, tok) /\ t <= tok
    <3>1. Planned(Head(waiting), tok) \in Nat /\ Planned(Head(waiting), tok) <= tok
      BY <2>0, <2>1, PlannedBounds
    <3> QED BY <2>1, <3>1
  <2>3. tok' \in 0..MaxBatchedTokens
    BY <1>t, <1>14, <2>2 DEF AdmitWaiting
  <2>4. SliceFor(r, t) \in Slices
    BY DEF SliceFor, Slices, TypeOK
  <2>5. slices' \in Seq(Slices)
    <3>1. slices' = Append(slices, SliceFor(r, t))
      BY <1>14, <2>2 DEF AdmitWaiting
    <3> QED BY <1>t, <2>4, <3>1
  <2>6. owes' \in [Requests -> Nat] /\ loaded' \in [Requests -> Nat]
    <3>1. /\ owes' = [owes EXCEPT ![r] = 0]
          /\ loaded' = [loaded EXCEPT ![r] = @ + owes[r]]
      BY <1>14, <2>2 DEF AdmitWaiting, ConsumeLoad
    <3>2. owes \in [Requests -> Nat] /\ loaded \in [Requests -> Nat] BY DEF TypeOK
    <3> QED BY <3>1, <3>2
  <2>7. waiting' \in Seq(Requests) /\ running' \in Seq(Requests)
    BY <1>14, <2>1 DEF AdmitWaiting, TypeOK
  <2>8. /\ status' \in [Requests -> {"pending", "waiting", "running", "finished"}]
        /\ firstAt' \in [Requests -> Nat \cup {Unset}]
    BY <1>14 DEF AdmitWaiting, TypeOK
  <2> QED BY <1>14, <2>3, <2>5, <2>6, <2>7, <2>8
          DEF AdmitWaiting, TypeOK, Phases, inputs, lookups, progress, caches
<1>15. CASE ScheduleDone
  BY <1>15 DEF ScheduleDone, TypeOK, Phases, inputs, queues, lookups, progress, caches, budget
<1>16. CASE Estimate
  <2>1. finishMs' \in Nat BY <1>16, DurationsAssumption DEF Estimate, TypeOK
  <2> QED BY <1>16, <2>1
          DEF Estimate, TypeOK, Phases, inputs, queues, lookups, progress, caches
<1>17. CASE ApplySlice
  BY <1>17, ApplyTypeStep
<1>18. CASE EndIteration
  <2>1. running' \in Seq(Requests)
    BY <1>18, KeepMembers DEF EndIteration, Unfinished, TypeOK
  <2>2. slices' \in Seq(Slices)
    BY <1>18 DEF EndIteration
  <2>3. /\ now' \in Nat /\ phase' \in Phases \ {"planRunning"} /\ finishMs' \in Nat
        /\ tok' \in 0..MaxBatchedTokens /\ slots' \in 0..MaxSeqs /\ idx' \in Nat \ {0}
    BY <1>18 DEF EndIteration, Phases, TypeOK
  <2>4. UNCHANGED <<inputs, arrived, waiting, status, lookups, progress, owes, firstAt,
                    caches, loaded>>
    BY <1>18 DEF EndIteration
  <2> QED BY <2>1, <2>2, <2>3, <2>4 DEF TypeOK, inputs, lookups, progress, caches
<1>19. CASE UNCHANGED vars
  BY <1>19 DEF vars, TypeOK, inputs, queues, lookups, progress, caches, budget
<1> QED
  BY <1>1, <1>2, <1>3, <1>4, <1>5, <1>6, <1>7, <1>8, <1>9, <1>10, <1>11, <1>12, <1>13,
     <1>14, <1>15, <1>16, <1>17, <1>18, <1>19 DEF Next, Step, Terminated

\* Type correctness of the replay, with the frontier's count within MaxSeqs.
THEOREM TypeCorrect == Spec => []TypeOK
<1>1. TypeInv /\ [Next]_vars => TypeInv' BY TypeStep
<1>2. Spec => []TypeInv BY <1>1, TypeInit, PTL DEF Spec
<1> QED BY <1>2, PTL DEF TypeInv

-----------------------------------------------------------------------------
(* Which steps leave which variables alone.                                  *)

LEMMA InputsFrame ==
    ASSUME [Next]_vars
    PROVE  /\ prompt' = prompt
           /\ \A r \in Requests : Tokens(r)' = Tokens(r) /\ Blocks(r)' = Blocks(r)
BY DEF Next, Step, Terminated, vars, Tokens, Blocks,
       inputs, queues, progress, lookups, caches, budget,
       Arrive, JumpToArrival, BeginFrontier, PlanRunning, PlanRunningDone,
       LookupWaiting, EnsureLookup, FinishZeroMiss, PlanWaiting, PlanWaitingDone,
       NothingLeft, BeginSchedule, ScheduleRunning, ScheduleRunningDone,
       AdmitWaiting, ScheduleDone, Estimate, ApplySlice, EndIteration

LEMMA CreditFrame ==
    ASSUME [Next]_vars, ~LookupWaiting, ~ApplySlice
    PROVE  UNCHANGED <<looked, rawHits, ddrHit, cached, computed, stored, hbm, ddr>>
BY DEF Next, Step, Terminated, vars, inputs, queues, progress, lookups, caches, budget,
       Arrive, JumpToArrival, BeginFrontier, PlanRunning, PlanRunningDone,
       FinishZeroMiss, PlanWaiting, PlanWaitingDone,
       NothingLeft, BeginSchedule, ScheduleRunning, ScheduleRunningDone,
       AdmitWaiting, ScheduleDone, Estimate, EndIteration

LEMMA StatusFrame ==
    ASSUME [Next]_vars, ~Arrive, ~FinishZeroMiss, ~AdmitWaiting
    PROVE  /\ ~ApplySlice => status' = status
           /\ UNCHANGED <<arrived, waiting, firstAt>>
           /\ ~EndIteration => running' = running
BY DEF Next, Step, Terminated, vars, inputs, queues, progress, lookups, caches, budget,
       JumpToArrival, BeginFrontier, PlanRunning, PlanRunningDone,
       LookupWaiting, EnsureLookup, PlanWaiting, PlanWaitingDone,
       NothingLeft, BeginSchedule, ScheduleRunning, ScheduleRunningDone,
       ScheduleDone, Estimate, ApplySlice, EndIteration

LEMMA LoadFrame ==
    ASSUME [Next]_vars, ~LookupWaiting, ~ScheduleRunning, ~AdmitWaiting
    PROVE  UNCHANGED <<owes, loaded>>
BY DEF Next, Step, Terminated, vars, inputs, queues, progress, lookups, caches, budget,
       Arrive, JumpToArrival, BeginFrontier, PlanRunning, PlanRunningDone,
       FinishZeroMiss, PlanWaiting, PlanWaitingDone,
       NothingLeft, BeginSchedule, ScheduleRunningDone,
       ScheduleDone, Estimate, ApplySlice, EndIteration

\* Outside the scheduler and the application of its slices, no step touches the
\* slices of the batch or enters these phases.
Scheduling == phase \in {"schedRunning", "schedWaiting", "estimate", "apply"}

LEMMA SchedulingFrame ==
    ASSUME [Next]_vars, ~BeginSchedule, ~ScheduleRunning, ~ScheduleRunningDone,
           ~AdmitWaiting, ~ScheduleDone, ~Estimate, ~ApplySlice, ~EndIteration
    PROVE  /\ slices' = slices
           /\ \/ ~Scheduling /\ ~Scheduling'
              \/ UNCHANGED vars
BY DEF Next, Step, Terminated, vars, inputs, queues, progress, lookups, caches, budget,
       Arrive, JumpToArrival, BeginFrontier, PlanRunning, PlanRunningDone,
       LookupWaiting, EnsureLookup, PlanningWaiting, FinishZeroMiss, PlanWaiting,
       PlanWaitingDone, NothingLeft, Scheduling

-----------------------------------------------------------------------------
(* scheduled_prefill_tokens of a batch.                                      *)

LEMMA TotalRecursion ==
    ASSUME NEW q \in Seq(Slices)
    PROVE  \E g : /\ ScheduledTokens(q) = g[Len(q)]
                  /\ g = [n \in 0..Len(q) |->
                             IF n = 0 THEN 0 ELSE g[n - 1] + q[n].tokens]
<1> DEFINE step == [x \in Nat \X Slices |-> x[1] + x[2].tokens]
           Eq(g) == g = [n \in 0..Len(q) |->
                             IF n = 0 THEN 0 ELSE g[n - 1] + q[n].tokens]
<1>1. IsFoldStep(step, Nat, Slices)
  BY DEF IsFoldStep, Slices
<1>2. PICK f : IsFoldOf(f, Nat, q, 0, step)
  <2> HIDE DEF step
  <2> QED BY <1>1, FoldExists
<1>3. Eq(f)
  <2>1. ASSUME NEW n \in 0..Len(q)
        PROVE  f[n] = IF n = 0 THEN 0 ELSE f[n - 1] + q[n].tokens
    <3>1. CASE n = 0 BY <1>2, <3>1 DEF IsFoldOf
    <3>2. CASE n # 0
      <4>1. n \in 1..Len(q) /\ q[n] \in Slices /\ f[n - 1] \in Nat
        BY <1>2, <3>2 DEF IsFoldOf
      <4>2. f[n] = step[<<f[n - 1], q[n]>>] BY <1>2, <4>1 DEF IsFoldOf
      <4> QED BY <3>2, <4>1, <4>2
    <3> QED BY <3>1, <3>2
  <2>2. f \in [0..Len(q) -> Nat] BY <1>2 DEF IsFoldOf
  <2> QED BY <2>1, <2>2
<1>4. Eq(CHOOSE g : Eq(g))
  <2> HIDE DEF Eq
  <2> QED BY <1>3
<1>5. ScheduledTokens(q) = (CHOOSE g : Eq(g))[Len(q)]
  BY DEF ScheduledTokens
<1> QED BY <1>4, <1>5

\* An empty batch has no tokens, and a slice adds its own.
LEMMA TotalOfEmpty == ScheduledTokens(<<>>) = 0
<1> DEFINE none == <<>>
<1>1. none \in Seq(Slices) /\ Len(none) = 0 OBVIOUS
<1> HIDE DEF none
<1>2. PICK g : /\ ScheduledTokens(none) = g[Len(none)]
               /\ g = [n \in 0..Len(none) |->
                           IF n = 0 THEN 0 ELSE g[n - 1] + none[n].tokens]
  BY <1>1, TotalRecursion
<1>3. g[0] = 0 BY <1>1, <1>2
<1> QED BY <1>1, <1>2, <1>3 DEF none

LEMMA TotalOfAppend ==
    ASSUME NEW q \in Seq(Slices), NEW sl \in Slices
    PROVE  /\ ScheduledTokens(q) \in Nat
           /\ ScheduledTokens(Append(q, sl)) = ScheduledTokens(q) + sl.tokens
<1> DEFINE a == Append(q, sl)
           m == Len(q)
<1>2. /\ a \in Seq(Slices) /\ Len(a) = m + 1 /\ m \in Nat
      /\ a[m + 1] = sl /\ \A i \in 1..m : a[i] = q[i] /\ q[i] \in Slices
  OBVIOUS
<1> HIDE DEF a
<1>3. PICK g : /\ ScheduledTokens(q) = g[m]
               /\ g = [n \in 0..m |-> IF n = 0 THEN 0 ELSE g[n - 1] + q[n].tokens]
  BY TotalRecursion
<1>4. PICK f : /\ ScheduledTokens(a) = f[m + 1]
               /\ f = [n \in 0..(m + 1) |-> IF n = 0 THEN 0 ELSE f[n - 1] + a[n].tokens]
  BY <1>2, TotalRecursion
<1> HIDE DEF m
<1> DEFINE S == {n \in Nat : n <= m => g[n] = f[n] /\ g[n] \in Nat}
<1>5. 0 \in S BY <1>2, <1>3, <1>4
<1>6. ASSUME NEW n \in Nat, n \in S PROVE n + 1 \in S
  <2> SUFFICES ASSUME n + 1 <= m PROVE g[n + 1] = f[n + 1] /\ g[n + 1] \in Nat
    OBVIOUS
  <2>1. g[n] = f[n] /\ g[n] \in Nat BY <1>2, <1>6
  <2>2. n + 1 \in 1..m /\ a[n + 1] = q[n + 1] /\ q[n + 1].tokens \in Nat
    BY <1>2 DEF Slices
  <2>3. g[n + 1] = g[n] + q[n + 1].tokens
    <3>1. n + 1 \in 0..m /\ n + 1 # 0 /\ (n + 1) - 1 = n BY <2>2
    <3> QED BY <1>3, <3>1
  <2>4. f[n + 1] = f[n] + a[n + 1].tokens
    <3>1. n + 1 \in 0..(m + 1) /\ n + 1 # 0 /\ (n + 1) - 1 = n BY <1>2, <2>2
    <3> QED BY <1>4, <3>1
  <2> QED BY <2>1, <2>2, <2>3, <2>4
<1>7. m \in S
  <2> HIDE DEF S
  <2>1. \A n \in Nat : n \in S BY <1>5, <1>6, SetInduction
  <2> QED BY <1>2, <2>1
<1>8. f[m + 1] = f[m] + sl.tokens
  <2>1. m + 1 \in 0..(m + 1) /\ m + 1 # 0 /\ (m + 1) - 1 = m BY <1>2
  <2> QED BY <1>2, <1>4, <2>1
<1> QED BY <1>2, <1>3, <1>4, <1>7, <1>8 DEF a

-----------------------------------------------------------------------------
(* The inductive invariant of the batches, part by part.                     *)

\* What a request was credited with: whole blocks among its hits, and less than
\* its prompt when the last token is kept.  Its progress starts from there.
Credit(r) ==
    /\ ddrHit[r] <= cached[r]
    /\ cached[r] <= computed[r]
    /\ computed[r] <= Tokens(r)
    /\ rawHits[r] <= Len(Blocks(r))
    /\ cached[r] <= rawHits[r] * BlockSize
    /\ cached[r] % BlockSize = 0
    /\ KeptTokens = 1 /\ Tokens(r) > 0 => cached[r] < Tokens(r)
    /\ ~looked[r] => rawHits[r] = 0 /\ cached[r] = 0 /\ computed[r] = 0 /\ stored[r] = <<>>

\* The life of a request: it is looked up while it waits, computes and is
\* charged its load from its first slice on, and finishes with its last token.
Lifecycle(r) ==
    /\ status[r] = "pending" <=> r > arrived
    /\ status[r] = "pending" => ~looked[r]
    /\ status[r] \in {"pending", "waiting"} => firstAt[r] = Unset /\ computed[r] = cached[r]
    /\ status[r] \in {"running", "finished"} => /\ looked[r]
                                                /\ firstAt[r] # Unset
                                                /\ owes[r] = 0
    /\ status[r] = "finished" => computed[r] = Tokens(r)

\* The waiting queue holds the waiting requests in the order of arrival.
QueueInv ==
    /\ \A i, j \in DOMAIN waiting : i < j => waiting[i] < waiting[j]
    /\ \A i \in DOMAIN waiting : status[waiting[i]] = "waiting"
    /\ \A r \in Requests : status[r] = "waiting" => \E i \in DOMAIN waiting : waiting[i] = r

\* Nobody is twice in the running list; finished requests are only there until
\* the end of the iteration that finished them.
RunningInv ==
    /\ \A i, j \in DOMAIN running : running[i] = running[j] => i = j
    /\ \A i \in DOMAIN running :
           \/ status[running[i]] = "running"
           \/ phase = "apply" /\ status[running[i]] = "finished"

\* A slice of the batch that has not been applied yet.
Unapplied(i) == phase = "apply" => i >= idx

\* Every slice is of a running request, of its own, and continues it where it is.
SliceInv ==
    /\ ~Scheduling => slices = <<>>
    /\ \A i, j \in DOMAIN slices : slices[i].req = slices[j].req => i = j
    /\ \A i \in DOMAIN slices :
           /\ \E k \in DOMAIN running : /\ slices[i].req = running[k]
                                        /\ phase = "schedRunning" => k < idx
           /\ Unapplied(i) => /\ status[slices[i].req] = "running"
                              /\ slices[i].before = computed[slices[i].req]

\* The limits of a batch; the budget that is left adds up with what was given.
LimitsInv ==
    /\ Len(slices) <= MaxSeqs
    /\ \A i \in DOMAIN slices :
           /\ slices[i].tokens <= ChunkLimit
           /\ slices[i].before + slices[i].tokens <= Tokens(slices[i].req)
           /\ KeptTokens = 1 => slices[i].tokens >= 1
    /\ ScheduledTokens(slices) <= MaxBatchedTokens
    /\ phase \in {"schedRunning", "schedWaiting"}
         => ScheduledTokens(slices) + tok <= MaxBatchedTokens

\* A running request has tokens left unless its last slice is yet to be applied.
PreparedInv ==
    \A r \in Requests :
        status[r] = "running" /\ computed[r] = Tokens(r)
          => \E i \in DOMAIN slices : Unapplied(i) /\ slices[i].req = r

Credits == \A r \in Requests : Credit(r)
Lifecycles == \A r \in Requests : Lifecycle(r)

BatchInv ==
    /\ TypeInv
    /\ Credits
    /\ Lifecycles
    /\ KVLoadChargedOnce
    /\ QueueInv
    /\ RunningInv
    /\ SliceInv
    /\ LimitsInv
    /\ PreparedInv

-----------------------------------------------------------------------------
(* What the guards of the steps say in a state of the invariant.             *)

\* The request the frontier looks at is waiting.
LEMMA FrontierRequest ==
    ASSUME BatchInv, PlanningWaiting
    PROVE  /\ idx \in 1..Len(waiting)
           /\ waiting[idx] \in Requests
           /\ status[waiting[idx]] = "waiting"
<1>1. waiting \in Seq(Requests) /\ idx \in Nat \ {0} BY DEF BatchInv, TypeInv, TypeOK
<1>2. idx \in 1..Len(waiting) BY <1>1 DEF PlanningWaiting
<1> QED BY <1>1, <1>2 DEF BatchInv, QueueInv

\* The slice that is applied: its request is running and takes part of what it
\* has left.
LEMMA AppliedSlice ==
    ASSUME BatchInv, ApplySlice
    PROVE  /\ idx \in DOMAIN slices
           /\ slices[idx] \in Slices
           /\ slices[idx].req \in Requests
           /\ status[slices[idx].req] = "running"
           /\ slices[idx].before = computed[slices[idx].req]
           /\ slices[idx].before \in Nat /\ slices[idx].tokens \in Nat
           /\ slices[idx].before + slices[idx].tokens \in Nat
           /\ slices[idx].before + slices[idx].tokens <= Tokens(slices[idx].req)
<1>1. slices \in Seq(Slices) /\ idx \in Nat \ {0} BY DEF BatchInv, TypeInv, TypeOK
<1>2. idx \in DOMAIN slices /\ slices[idx] \in Slices BY <1>1 DEF ApplySlice
<1>3. Unapplied(idx) BY <1>1 DEF Unapplied
<1>4. /\ status[slices[idx].req] = "running"
      /\ slices[idx].before = computed[slices[idx].req]
  BY <1>2, <1>3 DEF BatchInv, SliceInv
<1>5. slices[idx].before + slices[idx].tokens <= Tokens(slices[idx].req)
  BY <1>2 DEF BatchInv, LimitsInv
<1> QED BY <1>2, <1>4, <1>5 DEF Slices

\* The head of the queue that is admitted has been looked up and owes what its
\* lookup found in the DDR tier.
LEMMA AdmittedRequest ==
    ASSUME BatchInv, AdmitWaiting
    PROVE  /\ waiting # <<>>
           /\ Head(waiting) \in Requests
           /\ status[Head(waiting)] = "waiting"
           /\ looked[Head(waiting)]
           /\ firstAt[Head(waiting)] = Unset
           /\ loaded[Head(waiting)] = 0
<1>1. waiting \in Seq(Requests) /\ waiting # <<>>
  BY DEF BatchInv, TypeInv, TypeOK, AdmitWaiting, CanAdmit
<1>2. 1 \in DOMAIN waiting /\ Head(waiting) = waiting[1] /\ Head(waiting) \in Requests
  BY <1>1
<1>3. status[Head(waiting)] = "waiting" BY <1>2 DEF BatchInv, QueueInv
<1>4. firstAt[Head(waiting)] = Unset
  BY <1>2, <1>3 DEF BatchInv, Lifecycles, Lifecycle
<1>5. loaded[Head(waiting)] = 0 BY <1>2, <1>4 DEF BatchInv, KVLoadChargedOnce
<1> QED BY <1>1, <1>2, <1>3, <1>4, <1>5 DEF AdmitWaiting

\* A running request that gets a slice owes nothing any more.
LEMMA ContinuedRequest ==
    ASSUME BatchInv, ScheduleRunning
    PROVE  /\ idx \in DOMAIN running
           /\ running[idx] \in Requests
           /\ status[running[idx]] = "running"
           /\ owes[running[idx]] = 0
           /\ ~CanScheduleLoadOnly(running[idx])
<1>1. running \in Seq(Requests) /\ idx \in Nat \ {0} BY DEF BatchInv, TypeInv, TypeOK
<1>2. idx \in DOMAIN running /\ running[idx] \in Requests BY <1>1 DEF ScheduleRunning
<1>3. status[running[idx]] = "running"
  BY <1>2 DEF BatchInv, RunningInv, ScheduleRunning
<1>4. owes[running[idx]] = 0 BY <1>2, <1>3 DEF BatchInv, Lifecycles, Lifecycle
<1>5. ~CanScheduleLoadOnly(running[idx]) BY <1>4 DEF CanScheduleLoadOnly, OwesLoad
<1> QED BY <1>2, <1>3, <1>4, <1>5

\* Only a prompt whose every token is credited can be left with nothing but a
\* load: the accounting that keeps the last token never gets there.
LEMMA LoadOnlyNeedsWholeCredit ==
    ASSUME BatchInv, NEW r \in Requests, status[r] = "waiting", CanScheduleLoadOnly(r)
    PROVE  KeptTokens = 0
<1>1. /\ computed[r] = cached[r] /\ ddrHit[r] <= cached[r]
      /\ owes[r] = ddrHit[r] - loaded[r]
      /\ KeptTokens = 1 /\ Tokens(r) > 0 => cached[r] < Tokens(r)
  BY DEF BatchInv, Lifecycles, Lifecycle, Credits, Credit, KVLoadChargedOnce
<1>2. /\ computed[r] \in Nat /\ cached[r] \in Nat /\ ddrHit[r] \in Nat
      /\ loaded[r] \in Nat /\ Tokens(r) \in Nat
  BY PromptType DEF BatchInv, TypeInv, TypeOK
<1>3. Tokens(r) - computed[r] = 0 /\ owes[r] > 0
  BY DEF CanScheduleLoadOnly, Remaining, OwesLoad
<1> QED BY <1>1, <1>2, <1>3, DropBlocksAssumption

-----------------------------------------------------------------------------
(* Each part is preserved by every step.                                     *)

LEMMA BatchInit == Init => BatchInv
<1> SUFFICES ASSUME Init PROVE BatchInv
  OBVIOUS
<1>1. TypeInv BY TypeInit
<1>2. ASSUME NEW r \in Requests PROVE Credit(r) /\ Lifecycle(r)
  <2>1. Tokens(r) \in Nat /\ Len(Blocks(r)) \in Nat
    BY <1>1, PromptType, LenProperties DEF TypeInv
  <2>2. 0 * BlockSize = 0 /\ 0 % BlockSize = 0 BY BlockSizeAssumption
  <2>3. Credit(r) BY <2>1, <2>2 DEF Init, Credit
  <2>4. Lifecycle(r) BY DEF Init, Lifecycle, Requests
  <2> QED BY <2>3, <2>4
<1>3. KVLoadChargedOnce BY DEF Init, KVLoadChargedOnce
<1>4. QueueInv /\ RunningInv BY DEF Init, QueueInv, RunningInv
<1>5. SliceInv /\ PreparedInv BY DEF Init, SliceInv, PreparedInv, Scheduling
<1>6. LimitsInv
  BY TotalOfEmpty, SchedulerAssumption DEF Init, LimitsInv
<1> QED BY <1>1, <1>2, <1>3, <1>4, <1>5, <1>6 DEF BatchInv, Credits, Lifecycles

\* The lookup of a request: what it records for it, and for nobody else.
LEMMA LookupEffect ==
    ASSUME BatchInv, LookupWaiting
    PROVE  \E r \in Requests : \E h, d, ch, cd \in Nat :
               /\ r = waiting[idx] /\ status[r] = "waiting" /\ ~looked[r]
               /\ h + d <= Len(Blocks(r))
               /\ ch + cd <= h + d
               /\ ch * BlockSize + cd * BlockSize <= MaxCacheHitLength(Tokens(r))
               /\ \A i \in 1..(h + d) : Blocks(r)[i] \in Resident(hbm) \cup Resident(ddr)
               /\ looked' = [looked EXCEPT ![r] = TRUE]
               /\ rawHits' = [rawHits EXCEPT ![r] = h + d]
               /\ ddrHit' = [ddrHit EXCEPT ![r] = cd * BlockSize]
               /\ cached' = [cached EXCEPT ![r] = ch * BlockSize + cd * BlockSize]
               /\ computed' = [computed EXCEPT ![r] = ch * BlockSize + cd * BlockSize]
               /\ owes' = [owes EXCEPT ![r] = cd * BlockSize]
               /\ Resident(hbm') = Resident(hbm) /\ Resident(ddr') = Resident(ddr)
               /\ UNCHANGED <<inputs, queues, now, status, finishAt, stored, firstAt,
                              phase, budget, loaded>>
<1> DEFINE r == waiting[idx]
<1>1. r \in Requests /\ status[r] = "waiting"
  BY FrontierRequest DEF LookupWaiting
<1>2. EnsureLookup(r) BY DEF LookupWaiting
<1> HIDE DEF r
<1>3. PICK h \in Nat, d \in Nat, ch \in Nat, cd \in Nat :
          /\ h + d <= Len(Blocks(r))
          /\ ch <= h /\ cd <= d
          /\ ch * BlockSize + cd * BlockSize <= MaxCacheHitLength(Tokens(r))
          /\ \A i \in 1..(h + d) : Blocks(r)[i] \in Resident(hbm) \cup Resident(ddr)
          /\ rawHits' = [rawHits EXCEPT ![r] = h + d]
          /\ ddrHit' = [ddrHit EXCEPT ![r] = cd * BlockSize]
          /\ cached' = [cached EXCEPT ![r] = ch * BlockSize + cd * BlockSize]
          /\ computed' = [computed EXCEPT ![r] = ch * BlockSize + cd * BlockSize]
          /\ owes' = [owes EXCEPT ![r] = cd * BlockSize]
          /\ Resident(hbm') = Resident(hbm) /\ Resident(ddr') = Resident(ddr)
  BY <1>1, <1>2, LookupOutcome DEF BatchInv, TypeInv
<1>4. /\ ~looked[r]
      /\ looked' = [looked EXCEPT ![r] = TRUE]
      /\ UNCHANGED <<inputs, queues, now, status, finishAt, stored, firstAt,
                     phase, budget, loaded>>
  BY <1>2 DEF EnsureLookup, NeedsLookup
<1>5. ch + cd <= h + d BY <1>3
<1> QED BY <1>1, <1>3, <1>4, <1>5 DEF r

LEMMA CreditsStep ==
    ASSUME BatchInv, [Next]_vars
    PROVE  Credits'
<1>t. /\ rawHits \in [Requests -> Nat] /\ ddrHit \in [Requests -> Nat]
      /\ cached \in [Requests -> Nat] /\ computed \in [Requests -> Nat]
      /\ looked \in [Requests -> BOOLEAN] /\ stored \in [Requests -> Seq(Nat)]
      /\ \A r \in Requests : Tokens(r) \in Nat
  BY PromptType DEF BatchInv, TypeInv, TypeOK
<1>1. \A r \in Requests : Credit(r) BY DEF BatchInv, Credits
<1>2. CASE LookupWaiting
  <2>1. PICK r \in Requests, h \in Nat, d \in Nat, ch \in Nat, cd \in Nat :
               /\ h + d <= Len(Blocks(r))
               /\ ch + cd <= h + d
               /\ ch * BlockSize + cd * BlockSize <= MaxCacheHitLength(Tokens(r))
               /\ looked' = [looked EXCEPT ![r] = TRUE]
               /\ rawHits' = [rawHits EXCEPT ![r] = h + d]
               /\ ddrHit' = [ddrHit EXCEPT ![r] = cd * BlockSize]
               /\ cached' = [cached EXCEPT ![r] = ch * BlockSize + cd * BlockSize]
               /\ computed' = [computed EXCEPT ![r] = ch * BlockSize + cd * BlockSize]
               /\ stored' = stored
    BY <1>2, LookupEffect
  <2>2. PICK c \in Nat, e \in Nat : c = ch * BlockSize + cd * BlockSize /\ e = cd * BlockSize
    <3>1. ch * BlockSize + cd * BlockSize \in Nat /\ cd * BlockSize \in Nat
      BY BlockSizeAssumption
    <3> QED BY <3>1
  <2>3. e <= c
    <3>1. ch * BlockSize \in Nat BY BlockSizeAssumption
    <3> QED BY <2>2, <3>1
  <2>4. c <= (h + d) * BlockSize
    <3>1. (ch + cd) * BlockSize <= (h + d) * BlockSize
      BY <2>1, ProductMonotonic, BlockSizeAssumption
    <3>2. (ch + cd) * BlockSize = ch * BlockSize + cd * BlockSize BY BlockSizeAssumption
    <3> QED BY <2>2, <3>1, <3>2
  <2>5. c % BlockSize = 0
    <3>1. ch + cd \in Nat /\ c = (ch + cd) * BlockSize BY <2>2, BlockSizeAssumption
    <3> QED BY <3>1, MultipleOfBlock
  <2>6. c <= Tokens(r) /\ (KeptTokens = 1 /\ Tokens(r) > 0 => c < Tokens(r))
    <3>1. c <= MaxCacheHitLength(Tokens(r)) BY <2>1, <2>2
    <3>2. Tokens(r) \in Nat BY <1>t

    <3> QED BY <3>1, <3>2, DropBlocksAssumption DEF MaxCacheHitLength, MaxOf
  <2>7. /\ rawHits'[r] = h + d /\ ddrHit'[r] = e /\ cached'[r] = c /\ computed'[r] = c
        /\ looked'[r] = TRUE
    BY <1>t, <2>1, <2>2
  <2>8. Credit(r)'
    BY <2>1, <2>3, <2>4, <2>5, <2>6, <2>7, InputsFrame DEF Credit
  <2>9. ASSUME NEW q \in Requests, q # r PROVE Credit(q)'
    <3>1. /\ rawHits'[q] = rawHits[q] /\ ddrHit'[q] = ddrHit[q] /\ cached'[q] = cached[q]
          /\ computed'[q] = computed[q] /\ looked'[q] = looked[q] /\ stored'[q] = stored[q]
      BY <1>t, <2>1, <2>9
    <3> QED BY <1>1, <3>1, InputsFrame DEF Credit
  <2> QED BY <2>8, <2>9 DEF Credits
<1>3. CASE ApplySlice
  <2>1. PICK r \in Requests, c \in Nat :
               /\ status[r] = "running" /\ looked[r]
               /\ computed[r] <= c /\ c <= Tokens(r)
               /\ computed' = [computed EXCEPT ![r] = c]
               /\ \A q \in Requests \ {r} : stored'[q] = stored[q]
               /\ UNCHANGED <<looked, rawHits, ddrHit, cached>>
    <3> DEFINE r == slices[idx].req
               c == slices[idx].before + slices[idx].tokens
    <3>1. /\ r \in Requests /\ status[r] = "running"
          /\ c \in Nat /\ c <= Tokens(r) /\ computed[r] <= c
      BY <1>3, AppliedSlice
    <3>2. looked[r] BY <3>1 DEF BatchInv, Lifecycles, Lifecycle
    <3>3. /\ computed' = [computed EXCEPT ![r] = c]
          /\ \E is : stored' = [stored EXCEPT ![r] = @ \o is]
          /\ UNCHANGED <<looked, rawHits, ddrHit, cached>>
      BY <1>3 DEF ApplySlice, lookups
    <3>4. \A q \in Requests \ {r} : stored'[q] = stored[q] BY <1>t, <3>3
    <3> HIDE DEF r, c
    <3> QED BY <3>1, <3>2, <3>3, <3>4
  <2>2. Credit(r)'
    <3>1. computed'[r] = c /\ cached[r] <= c BY <1>1, <1>t, <2>1 DEF Credit
    <3> QED BY <1>1, <2>1, <3>1, InputsFrame DEF Credit
  <2>3. ASSUME NEW q \in Requests, q # r PROVE Credit(q)'
    <3>1. computed'[q] = computed[q] /\ stored'[q] = stored[q] BY <1>t, <2>1, <2>3
    <3> QED BY <1>1, <2>1, <3>1, InputsFrame DEF Credit
  <2> QED BY <2>2, <2>3 DEF Credits
<1>4. CASE ~LookupWaiting /\ ~ApplySlice
  <2>1. UNCHANGED <<looked, rawHits, ddrHit, cached, computed, stored>>
    BY <1>4, CreditFrame
  <2> QED BY <1>1, <2>1, InputsFrame DEF Credits, Credit
<1> QED BY <1>2, <1>3, <1>4

LEMMA LoadsStep ==
    ASSUME BatchInv, [Next]_vars
    PROVE  KVLoadChargedOnce'
<1>t. /\ ddrHit \in [Requests -> Nat] /\ owes \in [Requests -> Nat]
      /\ loaded \in [Requests -> Nat] /\ looked \in [Requests -> BOOLEAN]
      /\ firstAt \in [Requests -> Nat \cup {Unset}] /\ now \in Nat
  BY DEF BatchInv, TypeInv, TypeOK
<1>1. \A r \in Requests :
          /\ loaded[r] = IF looked[r] /\ firstAt[r] # Unset THEN ddrHit[r] ELSE 0
          /\ owes[r] = ddrHit[r] - loaded[r]
  BY DEF BatchInv, KVLoadChargedOnce
<1>2. CASE LookupWaiting
  <2>0. waiting[idx] \in Requests /\ status[waiting[idx]] = "waiting"
    BY <1>2, FrontierRequest DEF LookupWaiting
  <2>r. PICK r \in Requests : r = waiting[idx] /\ status[r] = "waiting" BY <2>0
  <2>1. PICK e : /\ looked' = [looked EXCEPT ![r] = TRUE]
                 /\ ddrHit' = [ddrHit EXCEPT ![r] = e]
                 /\ owes' = [owes EXCEPT ![r] = e]
                 /\ UNCHANGED <<firstAt, loaded>>
    BY <1>2, <2>r DEF LookupWaiting, EnsureLookup
  <2>3. e \in Nat
    <3>1. ddrHit' \in [Requests -> Nat] BY TypeStep DEF BatchInv, TypeInv, TypeOK
    <3> QED BY <1>t, <2>1, <3>1
  <2>2. firstAt[r] = Unset BY <2>r DEF BatchInv, Lifecycles, Lifecycle
  <2> QED BY <1>1, <1>t, <2>1, <2>2, <2>3 DEF KVLoadChargedOnce
<1>3. CASE FinishZeroMiss
  <2>1. waiting[idx] \in Requests /\ status[waiting[idx]] = "waiting"
    BY <1>3, FrontierRequest DEF FinishZeroMiss
  <2>2. PICK r \in Requests : r = waiting[idx] /\ status[r] = "waiting" BY <2>1
  <2>3. firstAt[r] = Unset BY <2>2 DEF BatchInv, Lifecycles, Lifecycle
  <2>4. owes[r] = 0 BY <1>3, <1>t, <2>2 DEF FinishZeroMiss, OwesLoad
  <2>5. ddrHit[r] = 0 /\ loaded[r] = 0 BY <1>1, <1>t, <2>3, <2>4
  <2>6. /\ firstAt' = [firstAt EXCEPT ![r] = IF @ = Unset THEN now ELSE @]
        /\ UNCHANGED <<looked, ddrHit, owes, loaded>>
    BY <1>3, <2>2 DEF FinishZeroMiss, lookups
  <2> QED BY <1>1, <1>t, <2>5, <2>6 DEF KVLoadChargedOnce
<1>4. CASE AdmitWaiting
  <2>1. PICK r \in Requests : /\ r = Head(waiting) /\ looked[r]
                              /\ firstAt[r] = Unset /\ loaded[r] = 0
    BY <1>4, AdmittedRequest
  <2>2. /\ firstAt' = [firstAt EXCEPT ![r] = IF @ = Unset THEN now ELSE @]
        /\ owes' = [owes EXCEPT ![r] = 0]
        /\ loaded' = [loaded EXCEPT ![r] = @ + owes[r]]
        /\ UNCHANGED <<looked, ddrHit>>
    BY <1>4, <2>1 DEF AdmitWaiting, ConsumeLoad, lookups
  <2>3. firstAt'[r] = now /\ now # Unset BY <1>t, <2>1, <2>2 DEF Unset
  <2>4. loaded'[r] = ddrHit[r] /\ owes'[r] = 0 BY <1>1, <1>t, <2>1, <2>2
  <2> QED BY <1>1, <1>t, <2>1, <2>2, <2>3, <2>4 DEF KVLoadChargedOnce
<1>5. CASE ScheduleRunning
  <2>1. PICK r \in Requests : r = running[idx] /\ owes[r] = 0
    BY <1>5, ContinuedRequest
  <2>2. /\ \/ UNCHANGED <<owes, loaded>>
           \/ /\ owes' = [owes EXCEPT ![r] = 0]
              /\ loaded' = [loaded EXCEPT ![r] = @ + owes[r]]
        /\ UNCHANGED <<looked, ddrHit, firstAt>>
    BY <1>5, <2>1 DEF ScheduleRunning, ConsumeLoad, lookups
  <2>3. UNCHANGED <<owes, loaded>> BY <1>t, <2>1, <2>2
  <2> QED BY <1>1, <2>2, <2>3 DEF KVLoadChargedOnce
<1>6. CASE ~LookupWaiting /\ ~FinishZeroMiss /\ ~AdmitWaiting /\ ~ScheduleRunning
  <2>1. UNCHANGED <<owes, loaded>> BY <1>6, LoadFrame
  <2>2. UNCHANGED <<looked, ddrHit>>
    BY <1>6, CreditFrame DEF ApplySlice, lookups
  <2>3. UNCHANGED firstAt
    BY <1>6, StatusFrame DEF Arrive
  <2> QED BY <1>1, <2>1, <2>2, <2>3 DEF KVLoadChargedOnce
<1> QED BY <1>2, <1>3, <1>4, <1>5, <1>6

LEMMA LifecyclesStep ==
    ASSUME BatchInv, [Next]_vars
    PROVE  Lifecycles'
<1>t. /\ status \in [Requests -> {"pending", "waiting", "running", "finished"}]
      /\ computed \in [Requests -> Nat] /\ cached \in [Requests -> Nat]
      /\ owes \in [Requests -> Nat] /\ looked \in [Requests -> BOOLEAN]
      /\ firstAt \in [Requests -> Nat \cup {Unset}] /\ now \in Nat /\ arrived \in 0..N
  BY DEF BatchInv, TypeInv, TypeOK
<1>1. \A r \in Requests : Lifecycle(r) BY DEF BatchInv, Lifecycles
<1>n. N \in Nat BY RequestsAssumption
<1>2. CASE Arrive
  <2>1. /\ arrived + 1 \in Requests /\ arrived' = arrived + 1
        /\ status' = [status EXCEPT ![arrived + 1] = "waiting"]
        /\ UNCHANGED <<looked, firstAt, computed, cached, owes>>
    BY <1>2, <1>t, <1>n DEF Arrive, Due, Requests, lookups, progress
  <2>2. status[arrived + 1] = "pending" BY <1>1, <1>t, <2>1 DEF Lifecycle
  <2>3. ASSUME NEW r \in Requests PROVE Lifecycle(r)'
    <3>1. CASE r = arrived + 1
      <4>1. status'[r] = "waiting" BY <1>t, <2>1, <3>1
      <4> QED BY <1>1, <1>t, <2>1, <2>2, <3>1, <4>1 DEF Lifecycle
    <3>2. CASE r # arrived + 1
      <4>1. status'[r] = status[r] BY <1>t, <2>1, <3>2
      <4>2. r > arrived + 1 <=> r > arrived BY <1>t, <3>2 DEF Requests
      <4> QED BY <1>1, <2>1, <4>1, <4>2, InputsFrame DEF Lifecycle
    <3> QED BY <3>1, <3>2
  <2> QED BY <2>3 DEF Lifecycles
<1>3. CASE LookupWaiting
  <2>1. PICK r \in Requests, c \in Nat :
               /\ status[r] = "waiting"
               /\ looked' = [looked EXCEPT ![r] = TRUE]
               /\ cached' = [cached EXCEPT ![r] = c]
               /\ computed' = [computed EXCEPT ![r] = c]
               /\ \A q \in Requests \ {r} : owes'[q] = owes[q]
               /\ UNCHANGED <<firstAt, status, arrived>>
    <3> DEFINE r == waiting[idx]
    <3>1. r \in Requests /\ status[r] = "waiting"
      BY <1>3, FrontierRequest DEF LookupWaiting
    <3>2. EnsureLookup(r) BY <1>3 DEF LookupWaiting
    <3> HIDE DEF r
    <3>3. PICK c, e : /\ cached' = [cached EXCEPT ![r] = c]
                      /\ computed' = [computed EXCEPT ![r] = c]
                      /\ owes' = [owes EXCEPT ![r] = e]
      BY <3>2 DEF EnsureLookup
    <3>4. /\ looked' = [looked EXCEPT ![r] = TRUE]
          /\ UNCHANGED <<firstAt, status, arrived>>
      BY <3>2 DEF EnsureLookup, queues
    <3>5. cached' \in [Requests -> Nat] BY TypeStep DEF BatchInv, TypeInv, TypeOK
    <3>6. c \in Nat BY <1>t, <3>1, <3>3, <3>5
    <3>7. \A q \in Requests \ {r} : owes'[q] = owes[q] BY <1>t, <3>3
    <3> QED BY <3>1, <3>3, <3>4, <3>6, <3>7
  <2>2. ASSUME NEW q \in Requests PROVE Lifecycle(q)'
    <3>1. CASE q = r
      <4>1. computed'[q] = cached'[q] /\ looked'[q] = TRUE BY <1>t, <2>1, <3>1
      <4> QED BY <1>1, <2>1, <3>1, <4>1 DEF Lifecycle
    <3>2. CASE q # r
      <4>1. /\ computed'[q] = computed[q] /\ cached'[q] = cached[q]
            /\ looked'[q] = looked[q] /\ owes'[q] = owes[q]
        BY <1>t, <2>1, <3>2
      <4> QED BY <1>1, <2>1, <4>1, InputsFrame DEF Lifecycle
    <3> QED BY <3>1, <3>2
  <2> QED BY <2>2 DEF Lifecycles
<1>4. CASE FinishZeroMiss
  <2>0. waiting[idx] \in Requests /\ status[waiting[idx]] = "waiting"
    BY <1>4, FrontierRequest DEF FinishZeroMiss
  <2>1. PICK r \in Requests :
               /\ status[r] = "waiting" /\ looked[r]
               /\ Remaining(r) = 0 /\ ~OwesLoad(r)
               /\ firstAt' = [firstAt EXCEPT ![r] = IF @ = Unset THEN now ELSE @]
               /\ status' = [status EXCEPT ![r] = "finished"]
               /\ UNCHANGED <<looked, cached, computed, owes, arrived>>
    BY <1>4, <2>0 DEF FinishZeroMiss, lookups
  <2>2. Tokens(r) \in Nat BY PromptType DEF BatchInv, TypeInv
  <2>3. computed[r] = Tokens(r) /\ owes[r] = 0
    BY <1>t, <2>1, <2>2 DEF Remaining, OwesLoad
  <2>4. firstAt'[r] # Unset /\ status'[r] = "finished"
    BY <1>t, <2>1 DEF Unset
  <2>5. Lifecycle(r)' BY <1>1, <2>1, <2>3, <2>4, InputsFrame DEF Lifecycle
  <2>6. ASSUME NEW q \in Requests, q # r PROVE Lifecycle(q)'
    <3>1. status'[q] = status[q] /\ firstAt'[q] = firstAt[q] BY <1>t, <2>1, <2>6
    <3> QED BY <1>1, <2>1, <3>1, InputsFrame DEF Lifecycle
  <2> QED BY <2>5, <2>6 DEF Lifecycles
<1>5. CASE AdmitWaiting
  <2>1. PICK r \in Requests : /\ r = Head(waiting) /\ looked[r] /\ status[r] = "waiting"
    BY <1>5, AdmittedRequest
  <2>2. /\ firstAt' = [firstAt EXCEPT ![r] = IF @ = Unset THEN now ELSE @]
        /\ status' = [status EXCEPT ![r] = "running"]
        /\ owes' = [owes EXCEPT ![r] = 0]
        /\ UNCHANGED <<looked, cached, computed, arrived>>
    BY <1>5, <2>1 DEF AdmitWaiting, ConsumeLoad, lookups, progress
  <2>3. firstAt'[r] # Unset /\ status'[r] = "running" /\ owes'[r] = 0
    BY <1>t, <2>1, <2>2 DEF Unset
  <2>4. Lifecycle(r)' BY <1>1, <2>1, <2>2, <2>3 DEF Lifecycle
  <2>5. ASSUME NEW q \in Requests, q # r PROVE Lifecycle(q)'
    <3>1. status'[q] = status[q] /\ firstAt'[q] = firstAt[q] /\ owes'[q] = owes[q]
      BY <1>t, <2>2, <2>5
    <3> QED BY <1>1, <2>2, <3>1, InputsFrame DEF Lifecycle
  <2> QED BY <2>4, <2>5 DEF Lifecycles
<1>6. CASE ScheduleRunning
  <2>1. PICK r \in Requests : r = running[idx] /\ owes[r] = 0
    BY <1>6, ContinuedRequest
  <2>2. /\ owes' = owes \/ owes' = [owes EXCEPT ![r] = 0]
        /\ UNCHANGED <<status, looked, firstAt, computed, cached, arrived>>
    BY <1>6, <2>1 DEF ScheduleRunning, ConsumeLoad, lookups, progress, queues
  <2>3. owes' = owes BY <1>t, <2>1, <2>2
  <2> QED BY <1>1, <2>2, <2>3, InputsFrame DEF Lifecycles, Lifecycle
<1>7. CASE ApplySlice
  <2>1. PICK r \in Requests, c \in Nat :
               /\ status[r] = "running"
               /\ computed' = [computed EXCEPT ![r] = c]
               /\ \/ status' = status
                  \/ c = Tokens(r) /\ status' = [status EXCEPT ![r] = "finished"]
               /\ UNCHANGED <<arrived, looked, cached, firstAt, owes>>
    <3> DEFINE r == slices[idx].req
               c == slices[idx].before + slices[idx].tokens
    <3>1. r \in Requests /\ status[r] = "running" /\ c \in Nat
      BY <1>7, AppliedSlice
    <3>2. /\ computed' = [computed EXCEPT ![r] = c]
          /\ \/ status' = status
             \/ c = Tokens(r) /\ status' = [status EXCEPT ![r] = "finished"]
          /\ UNCHANGED <<arrived, looked, cached, firstAt, owes>>
      BY <1>7 DEF ApplySlice, lookups, queues
    <3> HIDE DEF r, c
    <3> QED BY <3>1, <3>2
  <2>2. ASSUME NEW q \in Requests PROVE Lifecycle(q)'
    <3>1. CASE q = r
      <4>1. computed'[q] = c BY <1>t, <2>1, <3>1
      <4>2. \/ status'[q] = "running"
            \/ c = Tokens(q) /\ status'[q] = "finished"
        BY <1>t, <2>1, <3>1
      <4> QED BY <1>1, <2>1, <3>1, <4>1, <4>2, InputsFrame DEF Lifecycle
    <3>2. CASE q # r
      <4>1. computed'[q] = computed[q] /\ status'[q] = status[q] BY <1>t, <2>1, <3>2
      <4> QED BY <1>1, <2>1, <4>1, InputsFrame DEF Lifecycle
    <3> QED BY <3>1, <3>2
  <2> QED BY <2>2 DEF Lifecycles
<1>8. CASE ~Arrive /\ ~LookupWaiting /\ ~FinishZeroMiss /\ ~AdmitWaiting
           /\ ~ScheduleRunning /\ ~ApplySlice
  <2>1. UNCHANGED <<looked, cached, computed>> BY <1>8, CreditFrame
  <2>2. UNCHANGED owes BY <1>8, LoadFrame
  <2>3. UNCHANGED <<status, arrived, firstAt>> BY <1>8, StatusFrame
  <2> QED BY <1>1, <2>1, <2>2, <2>3, InputsFrame DEF Lifecycles, Lifecycle
<1> QED BY <1>2, <1>3, <1>4, <1>5, <1>6, <1>7, <1>8

\* Only EndIteration leaves the application of the slices.
LEMMA ApplyFrame ==
    ASSUME [Next]_vars, ~EndIteration, phase = "apply"
    PROVE  phase' = "apply"
BY DEF Next, Step, Terminated, vars, inputs, queues, progress, lookups, caches, budget,
       Arrive, JumpToArrival, BeginFrontier, PlanRunning, PlanRunningDone,
       LookupWaiting, EnsureLookup, PlanningWaiting, FinishZeroMiss, PlanWaiting,
       PlanWaitingDone, NothingLeft, BeginSchedule, ScheduleRunning, ScheduleRunningDone,
       AdmitWaiting, ScheduleDone, Estimate, ApplySlice

LEMMA QueueStep ==
    ASSUME BatchInv, [Next]_vars
    PROVE  QueueInv'
<1>t. /\ status \in [Requests -> {"pending", "waiting", "running", "finished"}]
      /\ waiting \in Seq(Requests) /\ arrived \in 0..N /\ N \in Nat
  BY RequestsAssumption DEF BatchInv, TypeInv, TypeOK
<1>l. /\ Len(waiting) \in Nat /\ DOMAIN waiting = 1..Len(waiting)
      /\ \A i \in DOMAIN waiting : waiting[i] \in Requests
  BY <1>t
<1>1. /\ \A i, j \in DOMAIN waiting : i < j => waiting[i] < waiting[j]
      /\ \A i \in DOMAIN waiting : status[waiting[i]] = "waiting"
      /\ \A r \in Requests : status[r] = "waiting" => \E i \in DOMAIN waiting : waiting[i] = r
  BY DEF BatchInv, QueueInv
<1>2. CASE Arrive
  <2>1. PICK a \in Requests :
               /\ a = arrived + 1
               /\ status' = [status EXCEPT ![a] = "waiting"]
               /\ waiting' = Append(waiting, a)
    <3>1. arrived + 1 \in Requests BY <1>2, <1>t DEF Arrive, Due, Requests
    <3> QED BY <1>2, <3>1 DEF Arrive
  <2>2. PICK n \in Nat : n = Len(waiting) BY <1>l
  <2>3. /\ DOMAIN waiting' = 1..(n + 1) /\ waiting'[n + 1] = a
        /\ \A i \in 1..n : waiting'[i] = waiting[i]
    BY <1>t, <2>1, <2>2
  <2>4. ASSUME NEW i \in 1..n PROVE waiting[i] < a
    <3>1. waiting[i] \in Requests /\ status[waiting[i]] = "waiting"
      BY <1>l, <1>1, <2>2
    <3>2. status[waiting[i]] = "pending" <=> waiting[i] > arrived
      BY <3>1 DEF BatchInv, Lifecycles, Lifecycle
    <3> QED BY <1>t, <2>1, <3>1, <3>2 DEF Requests
  <2>5. \A i, j \in 1..(n + 1) : i < j => waiting'[i] < waiting'[j]
    <3> SUFFICES ASSUME NEW i \in 1..(n + 1), NEW j \in 1..(n + 1), i < j
                 PROVE  waiting'[i] < waiting'[j]
      OBVIOUS
    <3>1. i \in 1..n /\ (j \in 1..n \/ j = n + 1) OBVIOUS
    <3> QED BY <1>l, <1>1, <2>2, <2>3, <2>4, <3>1
  <2>6. \A i \in 1..(n + 1) : status'[waiting'[i]] = "waiting"
    <3> SUFFICES ASSUME NEW i \in 1..(n + 1) PROVE status'[waiting'[i]] = "waiting"
      OBVIOUS
    <3>1. CASE i = n + 1 BY <1>t, <2>1, <2>3, <3>1
    <3>2. CASE i \in 1..n
      <4>1. status[waiting[i]] = "waiting" /\ waiting[i] \in Requests /\ waiting'[i] = waiting[i]
        BY <1>l, <1>1, <2>2, <2>3, <3>2
      <4> QED BY <1>t, <2>1, <4>1
    <3> QED BY <3>1, <3>2
  <2>7. \A r \in Requests : status'[r] = "waiting" => \E i \in 1..(n + 1) : waiting'[i] = r
    <3> SUFFICES ASSUME NEW r \in Requests, status'[r] = "waiting"
                 PROVE  \E i \in 1..(n + 1) : waiting'[i] = r
      OBVIOUS
    <3>1. CASE r = a
      <4>1. n + 1 \in 1..(n + 1) OBVIOUS
      <4> QED BY <2>3, <3>1, <4>1
    <3>2. CASE r # a
      <4>1. status[r] = "waiting" BY <1>t, <2>1, <3>2
      <4>2. PICK i \in 1..n : waiting[i] = r BY <1>l, <1>1, <2>2, <4>1
      <4>3. i \in 1..(n + 1) /\ waiting'[i] = r BY <2>3, <4>2
      <4> QED BY <4>3
    <3> QED BY <3>1, <3>2
  <2> QED BY <2>3, <2>5, <2>6, <2>7 DEF QueueInv
\* A request leaves the queue: the others keep their order.
<1>3. ASSUME NEW i \in 1..Len(waiting),
             status'[waiting[i]] # "waiting",
             \A q \in Requests \ {waiting[i]} : status'[q] = status[q],
             waiting' \in Seq(Requests),
             Len(waiting') = Len(waiting) - 1,
             \A j \in 1..(Len(waiting) - 1) :
                 waiting'[j] = IF j < i THEN waiting[j] ELSE waiting[j + 1]
      PROVE  QueueInv'
  <2>1. PICK n \in Nat : n = Len(waiting) BY <1>l
  <2>2. PICK at \in [1..(n - 1) -> 1..n] :
               \A j \in 1..(n - 1) : at[j] = IF j < i THEN j ELSE j + 1
    <3>1. [j \in 1..(n - 1) |-> IF j < i THEN j ELSE j + 1] \in [1..(n - 1) -> 1..n]
      BY <2>1
    <3> QED BY <3>1
  <2>3. /\ DOMAIN waiting' = 1..(n - 1)
        /\ \A j \in 1..(n - 1) : waiting'[j] = waiting[at[j]] /\ at[j] # i
        /\ \A j, k \in 1..(n - 1) : j < k => at[j] < at[k]
    BY <1>3, <2>1, <2>2
  <2>4. ASSUME NEW j \in 1..(n - 1), NEW k \in 1..(n - 1), j < k
        PROVE  waiting'[j] < waiting'[k]
    <3>1. at[j] \in 1..n /\ at[k] \in 1..n /\ at[j] < at[k] BY <2>2, <2>3, <2>4
    <3>2. waiting[at[j]] < waiting[at[k]] BY <1>l, <1>1, <2>1, <3>1
    <3> QED BY <2>3, <3>2
  <2>5. ASSUME NEW j \in 1..n, j # i PROVE waiting[j] # waiting[i]
    <3>1. waiting[j] < waiting[i] \/ waiting[i] < waiting[j] BY <1>l, <1>1, <2>1, <2>5
    <3>2. waiting[j] \in Nat /\ waiting[i] \in Nat BY <1>l, <2>1 DEF Requests
    <3> QED BY <3>1, <3>2
  <2>6. \A j \in 1..(n - 1) : status'[waiting'[j]] = "waiting"
    <3> SUFFICES ASSUME NEW j \in 1..(n - 1) PROVE status'[waiting'[j]] = "waiting"
      OBVIOUS
    <3>1. at[j] \in 1..n /\ waiting'[j] = waiting[at[j]] /\ at[j] # i BY <2>2, <2>3
    <3>2. waiting[at[j]] # waiting[i] /\ waiting[at[j]] \in Requests
          /\ status[waiting[at[j]]] = "waiting"
      BY <1>l, <1>1, <2>1, <2>5, <3>1
    <3> QED BY <1>3, <1>t, <3>1, <3>2
  <2>7. ASSUME NEW r \in Requests, status'[r] = "waiting"
        PROVE  \E j \in 1..(n - 1) : waiting'[j] = r
    <3>1. r # waiting[i] /\ status[r] = "waiting"
      <4>1. waiting[i] \in Requests BY <1>l
      <4> QED BY <1>3, <1>t, <2>7, <4>1
    <3>2. PICK k \in 1..n : waiting[k] = r BY <1>l, <1>1, <2>1, <3>1
    <3>3. k # i BY <3>1, <3>2
    <3>4. CASE k < i
      <4>1. k \in 1..(n - 1) /\ waiting'[k] = waiting[k] BY <1>3, <2>1, <3>4
      <4> QED BY <3>2, <4>1
    <3>5. CASE i < k
      <4>1. k - 1 \in 1..(n - 1) /\ waiting'[k - 1] = waiting[(k - 1) + 1]
        BY <1>3, <2>1, <3>5
      <4>2. (k - 1) + 1 = k OBVIOUS
      <4> QED BY <3>2, <4>1, <4>2
    <3> QED BY <2>1, <3>3, <3>4, <3>5
  <2> QED BY <2>3, <2>4, <2>6, <2>7 DEF QueueInv
<1>4. CASE FinishZeroMiss
  <2>1. idx \in 1..Len(waiting) BY <1>4, FrontierRequest DEF FinishZeroMiss
  <2>2. /\ waiting' = SubSeq(waiting, 1, idx - 1) \o SubSeq(waiting, idx + 1, Len(waiting))
        /\ status' = [status EXCEPT ![waiting[idx]] = "finished"]
    BY <1>4 DEF FinishZeroMiss
  <2>3. /\ waiting' \in Seq(Requests) /\ Len(waiting') = Len(waiting) - 1
        /\ \A j \in 1..(Len(waiting) - 1) :
               waiting'[j] = IF j < idx THEN waiting[j] ELSE waiting[j + 1]
    BY <1>t, <2>1, <2>2, WithoutType
  <2>4. /\ status'[waiting[idx]] # "waiting"
        /\ \A q \in Requests \ {waiting[idx]} : status'[q] = status[q]
    BY <1>t, <1>l, <2>1, <2>2
  <2> QED BY <1>3, <2>1, <2>3, <2>4
<1>5. CASE AdmitWaiting
  <2>1. waiting # <<>> BY <1>5, AdmittedRequest
  <2>2. waiting' = Tail(waiting) /\ status' = [status EXCEPT ![Head(waiting)] = "running"]
    BY <1>5 DEF AdmitWaiting
  <2>3. /\ 1 \in 1..Len(waiting) /\ Head(waiting) = waiting[1]
        /\ waiting' \in Seq(Requests) /\ Len(waiting') = Len(waiting) - 1
        /\ \A j \in 1..(Len(waiting) - 1) :
               waiting'[j] = IF j < 1 THEN waiting[j] ELSE waiting[j + 1]
    BY <1>t, <2>1, <2>2
  <2>4. /\ status'[waiting[1]] # "waiting"
        /\ \A q \in Requests \ {waiting[1]} : status'[q] = status[q]
    BY <1>t, <1>l, <2>2, <2>3
  <2> QED BY <1>3, <2>3, <2>4
<1>6. CASE ApplySlice
  <2>1. PICK r \in Requests : /\ status[r] = "running"
                              /\ status' = status
                                 \/ status' = [status EXCEPT ![r] = "finished"]
    BY <1>6, AppliedSlice DEF ApplySlice
  <2>2. waiting' = waiting BY <1>6 DEF ApplySlice, queues
  <2>3. \A q \in Requests : status'[q] = "waiting" <=> status[q] = "waiting"
    BY <1>t, <2>1
  <2> QED BY <1>l, <1>1, <2>2, <2>3 DEF QueueInv
<1>7. CASE ~Arrive /\ ~FinishZeroMiss /\ ~AdmitWaiting /\ ~ApplySlice
  <2>1. UNCHANGED <<waiting, status>> BY <1>7, StatusFrame
  <2> QED BY <1>1, <2>1 DEF QueueInv
<1> QED BY <1>2, <1>4, <1>5, <1>6, <1>7

\* The requests that stay in the running list: which, and where they were.
LEMMA UnfinishedEmbeds ==
    ASSUME TypeOK, EndIteration
    PROVE  \E at : /\ at \in [1..Len(running') -> 1..Len(running)]
                   /\ \A i, j \in 1..Len(running') : i < j => at[i] < at[j]
                   /\ \A i \in 1..Len(running') : /\ running'[i] = running[at[i]]
                                                  /\ status[running'[i]] # "finished"
                   /\ \A p \in 1..Len(running) : status[running[p]] # "finished"
                        => \E i \in 1..Len(running') : at[i] = p
<1>1. running \in Seq(Requests) BY DEF TypeOK
<1> DEFINE S == {r \in Requests : status[r] # "finished"}
<1>2. running' = Keep(running, S) BY DEF EndIteration, Unfinished
<1>3. PICK at : Embeds(at, running', running, Len(running), S)
  <2> HIDE DEF S
  <2> QED BY <1>1, <1>2, KeepEmbeds
<1>4. \A p \in 1..Len(running) : running[p] \in Requests BY <1>1
<1> QED BY <1>3, <1>4 DEF Embeds

LEMMA RunningStep ==
    ASSUME BatchInv, [Next]_vars
    PROVE  RunningInv'
<1>t. /\ status \in [Requests -> {"pending", "waiting", "running", "finished"}]
      /\ running \in Seq(Requests)
  BY DEF BatchInv, TypeInv, TypeOK
<1>l. /\ Len(running) \in Nat /\ DOMAIN running = 1..Len(running)
      /\ \A i \in DOMAIN running : running[i] \in Requests
  BY <1>t
<1>1. /\ \A i, j \in DOMAIN running : running[i] = running[j] => i = j
      /\ \A i \in DOMAIN running :
             \/ status[running[i]] = "running"
             \/ phase = "apply" /\ status[running[i]] = "finished"
  BY DEF BatchInv, RunningInv
<1>2. CASE AdmitWaiting
  <2>1. PICK r \in Requests : r = Head(waiting) /\ status[r] = "waiting"
    BY <1>2, AdmittedRequest
  <2>2. /\ running' = Append(running, r) /\ status' = [status EXCEPT ![r] = "running"]
        /\ phase = "schedWaiting"
    BY <1>2, <2>1 DEF AdmitWaiting
  <2>3. PICK n \in Nat : n = Len(running) BY <1>l
  <2>4. /\ DOMAIN running' = 1..(n + 1) /\ running'[n + 1] = r
        /\ \A i \in 1..n : running'[i] = running[i]
    BY <1>t, <2>2, <2>3
  <2>5. ASSUME NEW i \in 1..n
        PROVE  running[i] # r /\ status'[running[i]] = "running" /\ running[i] \in Requests
    <3>1. running[i] \in Requests /\ status[running[i]] = "running"
      BY <1>l, <1>1, <2>2, <2>3
    <3> QED BY <1>t, <2>1, <2>2, <3>1
  <2>6. \A i, j \in 1..(n + 1) : running'[i] = running'[j] => i = j
    <3> SUFFICES ASSUME NEW i \in 1..(n + 1), NEW j \in 1..(n + 1), running'[i] = running'[j]
                 PROVE  i = j
      OBVIOUS
    <3>1. (i = n + 1 \/ i \in 1..n) /\ (j = n + 1 \/ j \in 1..n) OBVIOUS
    <3> QED BY <1>l, <1>1, <2>3, <2>4, <2>5, <3>1
  <2>7. \A i \in 1..(n + 1) : status'[running'[i]] = "running"
    <3> SUFFICES ASSUME NEW i \in 1..(n + 1) PROVE status'[running'[i]] = "running"
      OBVIOUS
    <3>1. CASE i = n + 1 BY <1>t, <2>1, <2>2, <2>4, <3>1
    <3>2. CASE i \in 1..n BY <2>4, <2>5, <3>2
    <3> QED BY <3>1, <3>2
  <2> QED BY <2>4, <2>6, <2>7 DEF RunningInv
<1>3. CASE ApplySlice
  <2>1. PICK r \in Requests : /\ status[r] = "running"
                              /\ status' = status
                                 \/ status' = [status EXCEPT ![r] = "finished"]
    BY <1>3, AppliedSlice DEF ApplySlice
  <2>2. running' = running /\ phase = "apply" /\ phase' = "apply"
    BY <1>3 DEF ApplySlice, queues
  <2>3. ASSUME NEW i \in DOMAIN running
        PROVE  status'[running[i]] \in {"running", "finished"}
    <3>1. running[i] \in Requests /\ status[running[i]] \in {"running", "finished"}
      BY <1>l, <1>1
    <3> QED BY <1>t, <2>1, <3>1
  <2> QED BY <1>1, <2>2, <2>3 DEF RunningInv
<1>4. CASE EndIteration
  <2>1. PICK at : /\ at \in [1..Len(running') -> 1..Len(running)]
                  /\ \A i, j \in 1..Len(running') : i < j => at[i] < at[j]
                  /\ \A i \in 1..Len(running') : /\ running'[i] = running[at[i]]
                                                 /\ status[running'[i]] # "finished"
    BY <1>4, UnfinishedEmbeds DEF BatchInv, TypeInv
  <2>2. status' = status BY <1>4 DEF EndIteration
  <2>3. running' \in Seq(Requests) BY TypeStep DEF BatchInv, TypeInv, TypeOK
  <2>4. DOMAIN running' = 1..Len(running') BY <2>3
  <2>5. ASSUME NEW i \in 1..Len(running'), NEW j \in 1..Len(running'),
               running'[i] = running'[j]
        PROVE  i = j
    <3>1. at[i] \in 1..Len(running) /\ at[j] \in 1..Len(running) BY <2>1
    <3>2. at[i] = at[j] BY <1>l, <1>1, <2>1, <2>5, <3>1
    <3>3. ~(i < j) /\ ~(j < i) BY <2>1, <3>1, <3>2
    <3>4. i \in Int /\ j \in Int BY <2>3
    <3> QED BY <3>3, <3>4
  <2>6. ASSUME NEW i \in 1..Len(running') PROVE status'[running'[i]] = "running"
    <3>1. at[i] \in 1..Len(running) BY <2>1
    <3> QED BY <1>l, <1>1, <2>1, <2>2, <3>1
  <2> QED BY <2>4, <2>5, <2>6 DEF RunningInv
<1>5. CASE Arrive \/ FinishZeroMiss
  <2>1. PICK r \in Requests : /\ status[r] \in {"pending", "waiting"}
                              /\ \A q \in Requests \ {r} : status'[q] = status[q]
    <3>1. CASE Arrive
      <4>1. arrived \in 0..N /\ N \in Nat BY RequestsAssumption DEF BatchInv, TypeInv, TypeOK
      <4>2. arrived + 1 \in Requests BY <3>1, <4>1 DEF Arrive, Due, Requests
      <4>3. status[arrived + 1] = "pending"
        BY <4>1, <4>2 DEF BatchInv, Lifecycles, Lifecycle
      <4>4. \A q \in Requests \ {arrived + 1} : status'[q] = status[q]
        BY <1>t, <3>1 DEF Arrive
      <4> QED BY <4>2, <4>3, <4>4
    <3>2. CASE FinishZeroMiss
      <4>1. waiting[idx] \in Requests /\ status[waiting[idx]] = "waiting"
        BY <3>2, FrontierRequest DEF FinishZeroMiss
      <4>2. \A q \in Requests \ {waiting[idx]} : status'[q] = status[q]
        BY <1>t, <3>2 DEF FinishZeroMiss
      <4> QED BY <4>1, <4>2
    <3> QED BY <1>5, <3>1, <3>2
  <2>2. running' = running /\ phase # "apply"
    BY <1>5 DEF Arrive, FinishZeroMiss, PlanningWaiting
  <2>3. ASSUME NEW i \in DOMAIN running PROVE status'[running[i]] = "running"
    <3>1. running[i] \in Requests /\ status[running[i]] = "running" BY <1>l, <1>1, <2>2
    <3> QED BY <2>1, <3>1
  <2> QED BY <1>1, <2>2, <2>3 DEF RunningInv
<1>6. CASE ~Arrive /\ ~FinishZeroMiss /\ ~AdmitWaiting /\ ~ApplySlice /\ ~EndIteration
  <2>1. UNCHANGED <<running, status>> BY <1>6, StatusFrame
  <2>2. phase = "apply" => phase' = "apply" BY <1>6, ApplyFrame
  <2> QED BY <1>1, <2>1, <2>2 DEF RunningInv
<1> QED BY <1>2, <1>3, <1>4, <1>5, <1>6

\* A slice the scheduler adds: of a request that has none yet, within the
\* budget that is left, the chunk limit and the prompt, and never empty when
\* the last token of a prompt is always computed.
LEMMA SliceAdded ==
    ASSUME BatchInv, ScheduleRunning \/ AdmitWaiting
    PROVE  \/ ScheduleRunning /\ slices' = slices /\ tok' = tok
           \/ \E r \in Requests, t \in Nat :
                 /\ slices' = Append(slices, SliceFor(r, t))
                 /\ SliceFor(r, t) \in Slices
                 /\ tok' = tok - t
                 /\ t <= tok
                 /\ t <= ChunkLimit
                 /\ computed[r] + t <= Tokens(r)
                 /\ KeptTokens = 1 => t >= 1
                 /\ \A i \in DOMAIN slices : slices[i].req # r
                 /\ status'[r] = "running"
                 /\ \/ ScheduleRunning /\ r = running[idx]
                    \/ AdmitWaiting /\ r = Head(waiting) /\ running' = Append(running, r)
<1>t. /\ status \in [Requests -> {"pending", "waiting", "running", "finished"}]
      /\ computed \in [Requests -> Nat] /\ tok \in Nat /\ TypeOK
      /\ slices \in Seq(Slices) /\ running \in Seq(Requests)
  BY DEF BatchInv, TypeInv, TypeOK
<1>s. ASSUME NEW r \in Requests, NEW t \in Nat PROVE SliceFor(r, t) \in Slices
  BY DEF SliceFor, Slices, BatchInv, TypeInv, TypeOK
<1>p. ASSUME NEW r \in Requests
      PROVE  /\ Planned(r, tok) \in Nat
             /\ Planned(r, tok) <= tok /\ Planned(r, tok) <= ChunkLimit
             /\ computed[r] + Planned(r, tok) <= Tokens(r)
  <2>1. PICK t \in Nat : /\ t = Planned(r, tok) /\ t <= tok /\ t <= ChunkLimit
                         /\ t > 0 => t <= Remaining(r)
    BY <1>t, PlannedBounds
  <2>2. computed[r] <= Tokens(r) /\ computed[r] \in Nat /\ Tokens(r) \in Nat
    BY <1>t, PromptType DEF BatchInv, Credits, Credit
  <2>3. computed[r] + t <= Tokens(r) BY <2>1, <2>2 DEF Remaining
  <2> QED BY <2>1, <2>3
<1>a. \A i \in DOMAIN slices : phase # "apply" => status[slices[i].req] = "running"
  BY DEF BatchInv, SliceInv, Unapplied
<1>1. CASE ScheduleRunning
  <2>1. PICK r \in Requests : /\ r = running[idx] /\ idx \in DOMAIN running
                              /\ status[r] = "running" /\ ~CanScheduleLoadOnly(r)
    BY <1>1, ContinuedRequest
  <2>2. PICK t \in Nat : /\ t = Planned(r, tok) /\ t <= tok /\ t <= ChunkLimit
                         /\ computed[r] + t <= Tokens(r)
    BY <1>p
  <2>3. /\ tok' = tok - t /\ status' = status /\ phase = "schedRunning"
        /\ t > 0 => slices' = Append(slices, SliceFor(r, t))
        /\ ~(t > 0) => slices' = slices
    BY <1>1, <2>1, <2>2 DEF ScheduleRunning
  <2>4. CASE t > 0
    <3>1. ASSUME NEW i \in DOMAIN slices PROVE slices[i].req # r
      <4>1. PICK k \in DOMAIN running : slices[i].req = running[k] /\ k < idx
        BY <2>3 DEF BatchInv, SliceInv
      <4>2. k # idx /\ k \in Nat /\ idx \in Nat BY <1>t, <2>1, <4>1
      <4> QED BY <2>1, <4>1, <4>2 DEF BatchInv, RunningInv
    <3>2. SliceFor(r, t) \in Slices BY <1>s
    <3>3. slices' = Append(slices, SliceFor(r, t)) BY <2>3, <2>4
    <3>4. status'[r] = "running" /\ t >= 1 BY <2>1, <2>3, <2>4
    <3> QED BY <1>1, <2>1, <2>2, <2>3, <3>1, <3>2, <3>3, <3>4
  <2>5. CASE ~(t > 0)
    <3>1. tok - t = tok BY <1>t, <2>5
    <3> QED BY <1>1, <2>3, <2>5, <3>1
  <2> QED BY <2>4, <2>5
<1>2. CASE AdmitWaiting
  <2>1. PICK r \in Requests : r = Head(waiting) /\ status[r] = "waiting"
    BY <1>2, AdmittedRequest
  <2>2. PICK t \in Nat : /\ t = Planned(r, tok) /\ t <= tok /\ t <= ChunkLimit
                         /\ computed[r] + t <= Tokens(r)
    BY <1>p
  <2>3. /\ tok' = tok - t /\ slices' = Append(slices, SliceFor(r, t))
        /\ running' = Append(running, r) /\ phase = "schedWaiting"
        /\ status' = [status EXCEPT ![r] = "running"]
        /\ t > 0 \/ CanScheduleLoadOnly(r)
    BY <1>2, <2>1, <2>2 DEF AdmitWaiting, CanAdmit
  <2>4. ASSUME NEW i \in DOMAIN slices PROVE slices[i].req # r
    BY <1>a, <2>1, <2>3
  <2>5. KeptTokens = 1 => t >= 1
    BY <2>1, <2>3, LoadOnlyNeedsWholeCredit
  <2>6. SliceFor(r, t) \in Slices BY <1>s
  <2>7. status'[r] = "running" BY <1>t, <2>3
  <2> QED BY <1>2, <2>1, <2>2, <2>3, <2>4, <2>5, <2>6, <2>7
<1> QED BY <1>1, <1>2

LEMMA SliceStep ==
    ASSUME BatchInv, [Next]_vars
    PROVE  SliceInv'
<1>t. /\ status \in [Requests -> {"pending", "waiting", "running", "finished"}]
      /\ computed \in [Requests -> Nat] /\ idx \in Nat \ {0}
      /\ slices \in Seq(Slices) /\ running \in Seq(Requests)
  BY DEF BatchInv, TypeInv, TypeOK
<1>l. /\ Len(slices) \in Nat /\ DOMAIN slices = 1..Len(slices)
      /\ Len(running) \in Nat /\ DOMAIN running = 1..Len(running)
      /\ \A i \in DOMAIN slices : slices[i].req \in Requests
  <2>1. \A i \in DOMAIN slices : slices[i] \in Slices BY <1>t
  <2> QED BY <1>t, <2>1 DEF Slices
<1>1. /\ ~Scheduling => slices = <<>>
      /\ \A i, j \in DOMAIN slices : slices[i].req = slices[j].req => i = j
      /\ \A i \in DOMAIN slices :
             /\ \E k \in DOMAIN running : /\ slices[i].req = running[k]
                                          /\ phase = "schedRunning" => k < idx
             /\ Unapplied(i) => /\ status[slices[i].req] = "running"
                                /\ slices[i].before = computed[slices[i].req]
  BY DEF BatchInv, SliceInv
<1>2. CASE ScheduleRunning \/ AdmitWaiting
  <2>1. /\ phase' = phase /\ phase \in {"schedRunning", "schedWaiting"}
        /\ computed' = computed
        /\ ScheduleRunning => idx' = idx + 1 /\ running' = running /\ status' = status
        /\ AdmitWaiting => phase # "schedRunning"
                           /\ status' = [status EXCEPT ![Head(waiting)] = "running"]
    BY <1>2 DEF ScheduleRunning, AdmitWaiting, progress, queues
  <2>2. CASE ScheduleRunning /\ slices' = slices
    <3>1. \A k \in DOMAIN running : k < idx => k < idx + 1 BY <1>t, <1>l
    <3> QED BY <1>1, <2>1, <2>2, <3>1 DEF SliceInv, Scheduling, Unapplied
  <2>3. ASSUME NEW r \in Requests, NEW t \in Nat,
               slices' = Append(slices, SliceFor(r, t)),
               SliceFor(r, t) \in Slices,
               \A i \in DOMAIN slices : slices[i].req # r,
               status'[r] = "running",
               \/ ScheduleRunning /\ r = running[idx]
               \/ AdmitWaiting /\ r = Head(waiting) /\ running' = Append(running, r)
        PROVE  SliceInv'
    <3>1. PICK n \in Nat : n = Len(slices) BY <1>l
    <3>2. /\ DOMAIN slices' = 1..(n + 1)
          /\ slices'[n + 1].req = r /\ slices'[n + 1].before = computed[r]
          /\ \A i \in 1..n : slices'[i] = slices[i]
      <4> DEFINE sl == SliceFor(r, t)
      <4>1. sl.req = r /\ sl.before = computed[r] BY DEF SliceFor
      <4>2. sl \in Slices /\ slices' = Append(slices, sl) BY <2>3
      <4> HIDE DEF sl
      <4>3. /\ DOMAIN slices' = 1..(n + 1) /\ slices'[n + 1] = sl
            /\ \A i \in 1..n : slices'[i] = slices[i]
        BY <1>t, <3>1, <4>2
      <4> QED BY <4>1, <4>3
    <3>3. \A i, j \in 1..(n + 1) : slices'[i].req = slices'[j].req => i = j
      <4> SUFFICES ASSUME NEW i \in 1..(n + 1), NEW j \in 1..(n + 1),
                          slices'[i].req = slices'[j].req
                   PROVE  i = j
        OBVIOUS
      <4>1. (i = n + 1 \/ i \in 1..n) /\ (j = n + 1 \/ j \in 1..n) OBVIOUS
      <4> QED BY <1>l, <1>1, <2>3, <3>1, <3>2, <4>1
    <3>4. ASSUME NEW i \in 1..(n + 1)
          PROVE  \E k \in DOMAIN running' : /\ slices'[i].req = running'[k]
                                            /\ phase' = "schedRunning" => k < idx'
      <4>1. CASE ScheduleRunning /\ r = running[idx]
        <5>1. idx \in DOMAIN running BY <4>1, ContinuedRequest
        <5>2. CASE i = n + 1 BY <1>t, <2>1, <3>2, <4>1, <5>1, <5>2
        <5>3. CASE i \in 1..n
          <6>1. PICK k \in DOMAIN running : slices[i].req = running[k]
                                            /\ (phase = "schedRunning" => k < idx)
            BY <1>l, <1>1, <3>1, <5>3
          <6>2. phase' = "schedRunning" => k < idx + 1 BY <1>t, <1>l, <2>1, <6>1
          <6> QED BY <2>1, <3>2, <4>1, <5>3, <6>1, <6>2
        <5> QED BY <5>2, <5>3
      <4>2. CASE AdmitWaiting /\ running' = Append(running, r)
        <5>1. /\ DOMAIN running' = 1..(Len(running) + 1)
              /\ running'[Len(running) + 1] = r
              /\ \A k \in DOMAIN running : k \in DOMAIN running' /\ running'[k] = running[k]
          BY <1>t, <4>2
        <5>2. CASE i = n + 1
          <6>1. Len(running) + 1 \in DOMAIN running' BY <1>l, <5>1
          <6> QED BY <2>1, <3>2, <4>2, <5>1, <5>2, <6>1
        <5>3. CASE i \in 1..n
          <6>1. PICK k \in DOMAIN running : slices[i].req = running[k]
            BY <1>l, <1>1, <3>1, <5>3
          <6> QED BY <2>1, <3>2, <4>2, <5>1, <5>3, <6>1
        <5> QED BY <5>2, <5>3
      <4> QED BY <2>3, <4>1, <4>2
    <3>5. ASSUME NEW i \in 1..(n + 1)
          PROVE  /\ status'[slices'[i].req] = "running"
                 /\ slices'[i].before = computed'[slices'[i].req]
      <4>1. CASE i = n + 1 BY <2>1, <2>3, <3>2, <4>1
      <4>2. CASE i \in 1..n
        <5>1. /\ slices[i].req \in Requests /\ status[slices[i].req] = "running"
              /\ slices[i].before = computed[slices[i].req]
          BY <1>l, <1>1, <2>1, <3>1, <4>2 DEF Unapplied
        <5>2. status'[slices[i].req] = "running"
          BY <1>t, <1>2, <2>1, <5>1
        <5> QED BY <2>1, <3>2, <4>2, <5>1, <5>2
      <4> QED BY <4>1, <4>2
    <3>6. Scheduling' BY <2>1 DEF Scheduling
    <3> QED BY <3>2, <3>3, <3>4, <3>5, <3>6 DEF SliceInv
  <2> QED BY <1>2, <2>2, <2>3, SliceAdded
<1>3. CASE BeginSchedule \/ EndIteration
  <2>1. slices' = <<>> BY <1>3 DEF BeginSchedule, EndIteration
  <2> QED BY <2>1 DEF SliceInv
<1>4. CASE ScheduleRunningDone \/ ScheduleDone \/ Estimate
  <2>1. UNCHANGED <<slices, running, status, computed>>
    BY <1>4 DEF ScheduleRunningDone, ScheduleDone, Estimate, queues, progress, budget
  <2>2. /\ phase # "apply" /\ phase' # "schedRunning"
        /\ phase' = "apply" => idx' = 1
        /\ ~Scheduling' => slices = <<>>
    BY <1>4 DEF ScheduleRunningDone, ScheduleDone, Estimate, Scheduling
  <2>3. \A i \in DOMAIN slices : Unapplied(i) BY <2>2 DEF Unapplied
  <2> QED BY <1>1, <2>1, <2>2, <2>3 DEF SliceInv
<1>5. CASE ApplySlice
  <2>1. PICK r \in Requests : /\ r = slices[idx].req /\ idx \in DOMAIN slices
    BY <1>5, AppliedSlice
  <2>2. /\ phase = "apply" /\ phase' = "apply" /\ slices' = slices /\ running' = running
        /\ idx' = idx + 1
        /\ \A q \in Requests \ {r} : status'[q] = status[q] /\ computed'[q] = computed[q]
    <3>1. \E c : computed' = [computed EXCEPT ![r] = c] BY <1>5, <2>1 DEF ApplySlice
    <3>2. status' = status \/ status' = [status EXCEPT ![r] = "finished"]
      BY <1>5, <2>1 DEF ApplySlice
    <3>3. \A q \in Requests \ {r} : status'[q] = status[q] /\ computed'[q] = computed[q]
      BY <1>t, <3>1, <3>2
    <3> QED BY <1>5, <3>3 DEF ApplySlice, queues
  <2>3. ASSUME NEW i \in DOMAIN slices, Unapplied(i)'
        PROVE  /\ status'[slices[i].req] = "running"
               /\ slices[i].before = computed'[slices[i].req]
    <3>1. i >= idx /\ i # idx
      <4>1. i >= idx + 1 /\ i \in Nat BY <1>l, <2>2, <2>3 DEF Unapplied
      <4> QED BY <1>t, <4>1
    <3>2. slices[i].req \in Requests \ {r} BY <1>l, <1>1, <2>1, <3>1
    <3> QED BY <1>1, <2>2, <3>1, <3>2 DEF Unapplied
  <2> QED BY <1>1, <2>2, <2>3 DEF SliceInv, Scheduling
<1>6. CASE ~BeginSchedule /\ ~ScheduleRunning /\ ~ScheduleRunningDone /\ ~AdmitWaiting
           /\ ~ScheduleDone /\ ~Estimate /\ ~ApplySlice /\ ~EndIteration
  <2>1. slices' = slices /\ ((~Scheduling /\ ~Scheduling') \/ UNCHANGED vars)
    BY <1>6, SchedulingFrame
  <2>2. CASE ~Scheduling /\ ~Scheduling'
    <3>1. slices' = <<>> BY <1>1, <2>1, <2>2
    <3> QED BY <3>1 DEF SliceInv
  <2>3. CASE UNCHANGED vars
    BY <1>1, <2>1, <2>3
       DEF vars, SliceInv, Scheduling, Unapplied, queues, progress, budget
  <2> QED BY <2>1, <2>2, <2>3
<1> QED BY <1>2, <1>3, <1>4, <1>5, <1>6

\* The budget of the scheduler only changes with the slices.
LEMMA BudgetFrame ==
    ASSUME [Next]_vars, ~BeginSchedule, ~ScheduleRunning, ~AdmitWaiting, ~EndIteration
    PROVE  /\ slices' = slices
           /\ phase' \in {"schedRunning", "schedWaiting"}
                => phase \in {"schedRunning", "schedWaiting"} /\ tok' = tok
           /\ phase' = "apply" => (phase = "apply" /\ (ApplySlice \/ idx' = idx)) \/ idx' = 1
BY DEF Next, Step, Terminated, vars, inputs, queues, progress, lookups, caches, budget,
       Arrive, JumpToArrival, BeginFrontier, PlanRunning, PlanRunningDone,
       LookupWaiting, EnsureLookup, PlanningWaiting, FinishZeroMiss, PlanWaiting,
       PlanWaitingDone, NothingLeft, ScheduleRunningDone,
       ScheduleDone, Estimate, ApplySlice

LEMMA LimitsStep ==
    ASSUME BatchInv, [Next]_vars
    PROVE  LimitsInv'
<1>t. /\ slices \in Seq(Slices) /\ tok \in 0..MaxBatchedTokens /\ MaxBatchedTokens \in Nat
      /\ computed \in [Requests -> Nat]
  BY SchedulerAssumption DEF BatchInv, TypeInv, TypeOK
<1>l. /\ Len(slices) \in Nat /\ DOMAIN slices = 1..Len(slices)
      /\ \A i \in DOMAIN slices : slices[i] \in Slices /\ slices[i].req \in Requests
  <2>1. \A i \in DOMAIN slices : slices[i] \in Slices BY <1>t
  <2> QED BY <1>t, <2>1 DEF Slices
<1>1. /\ Len(slices) <= MaxSeqs
      /\ \A i \in DOMAIN slices :
             /\ slices[i].tokens <= ChunkLimit
             /\ slices[i].before + slices[i].tokens <= Tokens(slices[i].req)
             /\ KeptTokens = 1 => slices[i].tokens >= 1
      /\ ScheduledTokens(slices) <= MaxBatchedTokens
      /\ phase \in {"schedRunning", "schedWaiting"}
           => ScheduledTokens(slices) + tok <= MaxBatchedTokens
  BY DEF BatchInv, LimitsInv
<1>2. prompt' = prompt BY InputsFrame
<1>3. CASE ScheduleRunning \/ AdmitWaiting
  <2>1. /\ phase' = phase /\ phase \in {"schedRunning", "schedWaiting"}
        /\ Len(slices) < MaxSeqs
    BY <1>3 DEF ScheduleRunning, AdmitWaiting, CanAdmit
  <2>2. CASE slices' = slices /\ tok' = tok
    BY <1>1, <1>2, <2>1, <2>2 DEF LimitsInv, Tokens
  <2>3. ASSUME NEW r \in Requests, NEW t \in Nat,
               slices' = Append(slices, SliceFor(r, t)), SliceFor(r, t) \in Slices,
               tok' = tok - t, t <= tok, t <= ChunkLimit,
               computed[r] + t <= Tokens(r), KeptTokens = 1 => t >= 1
        PROVE  LimitsInv'
    <3> DEFINE sl == SliceFor(r, t)
    <3>1. sl.req = r /\ sl.before = computed[r] /\ sl.tokens = t BY DEF SliceFor
    <3>2. sl \in Slices /\ slices' = Append(slices, sl) BY <2>3
    <3> HIDE DEF sl
    <3>3. PICK n \in Nat : n = Len(slices) BY <1>l
    <3>4. /\ DOMAIN slices' = 1..(n + 1) /\ Len(slices') = n + 1 /\ slices'[n + 1] = sl
          /\ \A i \in 1..n : slices'[i] = slices[i]
      BY <1>t, <3>2, <3>3
    <3>5. /\ ScheduledTokens(slices) \in Nat
          /\ ScheduledTokens(slices') = ScheduledTokens(slices) + t
      BY <1>t, <3>1, <3>2, TotalOfAppend
    <3>6. ScheduledTokens(slices') + tok' <= MaxBatchedTokens /\ tok' \in Nat
          /\ ScheduledTokens(slices') <= MaxBatchedTokens
      BY <1>1, <1>t, <2>1, <2>3, <3>5
    <3>7. Len(slices') <= MaxSeqs BY <2>1, <3>3, <3>4, SchedulerAssumption
    <3>8. ASSUME NEW i \in 1..(n + 1)
          PROVE  /\ slices'[i].tokens <= ChunkLimit
                 /\ slices'[i].before + slices'[i].tokens <= Tokens(slices'[i].req)
                 /\ KeptTokens = 1 => slices'[i].tokens >= 1
      <4>1. CASE i = n + 1 BY <2>3, <3>1, <3>4, <4>1
      <4>2. CASE i \in 1..n
        <5>1. /\ slices[i].tokens <= ChunkLimit
              /\ slices[i].before + slices[i].tokens <= Tokens(slices[i].req)
              /\ KeptTokens = 1 => slices[i].tokens >= 1
          BY <1>1, <1>l, <3>3, <4>2
        <5>2. slices'[i] = slices[i] BY <3>4, <4>2
        <5> QED BY <5>1, <5>2
      <4> QED BY <4>1, <4>2
    <3> QED BY <1>2, <2>1, <3>4, <3>6, <3>7, <3>8 DEF LimitsInv, Tokens
  <2> QED BY <1>3, <2>2, <2>3, SliceAdded
<1>4. CASE BeginSchedule \/ EndIteration
  <2>1. /\ slices' = <<>>
        /\ phase' \in {"schedRunning", "schedWaiting"} => tok' = MaxBatchedTokens
    BY <1>4 DEF BeginSchedule, EndIteration
  <2> QED BY <1>t, <2>1, TotalOfEmpty, SchedulerAssumption DEF LimitsInv
<1>5. CASE ~BeginSchedule /\ ~ScheduleRunning /\ ~AdmitWaiting /\ ~EndIteration
  <2>1. /\ slices' = slices
        /\ phase' \in {"schedRunning", "schedWaiting"}
             => phase \in {"schedRunning", "schedWaiting"} /\ tok' = tok
    BY <1>5, BudgetFrame
  <2> QED BY <1>1, <1>2, <2>1 DEF LimitsInv, Tokens
<1> QED BY <1>3, <1>4, <1>5

LEMMA PreparedStep ==
    ASSUME BatchInv, [Next]_vars
    PROVE  PreparedInv'
<1>t. /\ status \in [Requests -> {"pending", "waiting", "running", "finished"}]
      /\ computed \in [Requests -> Nat] /\ idx \in Nat \ {0}
      /\ slices \in Seq(Slices)
  BY DEF BatchInv, TypeInv, TypeOK
<1>l. Len(slices) \in Nat /\ DOMAIN slices = 1..Len(slices)
  BY <1>t
<1>1. \A r \in Requests :
          status[r] = "running" /\ computed[r] = Tokens(r)
            => \E i \in DOMAIN slices : Unapplied(i) /\ slices[i].req = r
  BY DEF BatchInv, PreparedInv
<1>2. \A r \in Requests : Tokens(r)' = Tokens(r) BY InputsFrame
<1> SUFFICES ASSUME NEW r \in Requests, status'[r] = "running", computed'[r] = Tokens(r)
             PROVE  \E i \in DOMAIN slices' : Unapplied(i)' /\ slices'[i].req = r
  BY <1>2 DEF PreparedInv
<1>3. CASE ScheduleRunning \/ AdmitWaiting
  <2>1. /\ phase' # "apply" /\ computed' = computed
        /\ ScheduleRunning => status' = status
        /\ AdmitWaiting => status' = [status EXCEPT ![Head(waiting)] = "running"]
        /\ ~(ScheduleRunning /\ AdmitWaiting)
    BY <1>3 DEF ScheduleRunning, AdmitWaiting, progress
  <2>2. \A i : Unapplied(i)' BY <2>1 DEF Unapplied
  <2>3. CASE status[r] = "running"
    <3>1. PICK i \in DOMAIN slices : slices[i].req = r BY <1>1, <2>1, <2>3
    <3>2. i \in DOMAIN slices' /\ slices'[i] = slices[i]
      <4>1. ASSUME NEW sl \in Slices, slices' = Append(slices, sl)
          PROVE  i \in DOMAIN slices' /\ slices'[i] = slices[i]
        BY <1>t, <1>l, <4>1
      <4> QED BY <1>3, <4>1, SliceAdded
    <3> QED BY <2>2, <3>1, <3>2
  <2>4. CASE status[r] # "running"
    <3>1. AdmitWaiting /\ r = Head(waiting) BY <1>3, <1>t, <2>1, <2>4
    <3>2. PICK t \in Nat : slices' = Append(slices, SliceFor(r, t)) /\ SliceFor(r, t) \in Slices
      BY <2>1, <3>1, SliceAdded
    <3> DEFINE sl == SliceFor(r, t)
    <3>3. sl.req = r BY DEF SliceFor
    <3>4. sl \in Slices /\ slices' = Append(slices, sl) BY <3>2
    <3> HIDE DEF sl
    <3>5. Len(slices) + 1 \in DOMAIN slices' /\ slices'[Len(slices) + 1] = sl
      BY <1>t, <1>l, <3>4
    <3> QED BY <2>2, <3>3, <3>5
  <2> QED BY <2>3, <2>4
<1>4. CASE ApplySlice
  <2>1. PICK q \in Requests, c \in Nat :
               /\ q = slices[idx].req
               /\ computed' = [computed EXCEPT ![q] = c]
               /\ c = Tokens(q) => status' = [status EXCEPT ![q] = "finished"]
               /\ c # Tokens(q) => status' = status
    <3> DEFINE q == slices[idx].req
               c == slices[idx].before + slices[idx].tokens
    <3>1. q \in Requests /\ c \in Nat BY <1>4, AppliedSlice
    <3>2. /\ computed' = [computed EXCEPT ![q] = c]
          /\ c = Tokens(q) => status' = [status EXCEPT ![q] = "finished"]
          /\ c # Tokens(q) => status' = status
      BY <1>4 DEF ApplySlice
    <3> HIDE DEF c
    <3> QED BY <3>1, <3>2
  <2>2. /\ phase = "apply" /\ phase' = "apply" /\ slices' = slices /\ idx' = idx + 1
    BY <1>4 DEF ApplySlice
  <2>3. r # q BY <1>t, <2>1
  <2>4. status[r] = "running" /\ computed[r] = Tokens(r) BY <1>t, <2>1, <2>3
  <2>5. PICK i \in DOMAIN slices : Unapplied(i) /\ slices[i].req = r BY <1>1, <2>4
  <2>6. i >= idx + 1 /\ i # idx BY <1>t, <1>l, <2>1, <2>2, <2>3, <2>5 DEF Unapplied
  <2> QED BY <2>2, <2>5, <2>6 DEF Unapplied
<1>5. CASE EndIteration
  <2>1. status' = status /\ computed' = computed /\ phase = "apply" /\ idx > Len(slices)
    BY <1>5 DEF EndIteration, progress
  <2>2. PICK i \in DOMAIN slices : Unapplied(i) BY <1>1, <2>1
  <2> QED BY <1>t, <1>l, <2>1, <2>2 DEF Unapplied
<1>6. CASE ~ScheduleRunning /\ ~AdmitWaiting /\ ~ApplySlice /\ ~EndIteration
  <2>1. slices' = slices
    <3>1. ~Scheduling => slices = <<>> BY DEF BatchInv, SliceInv
    <3>2. CASE BeginSchedule BY <3>1, <3>2 DEF BeginSchedule, Scheduling
    <3>3. CASE ~BeginSchedule BY <1>6, <3>3, BudgetFrame
    <3> QED BY <3>2, <3>3
  <2>2. status[r] = "running"
    <3>1. CASE Arrive BY <1>t, <3>1 DEF Arrive
    <3>2. CASE FinishZeroMiss BY <1>t, <3>2 DEF FinishZeroMiss
    <3>3. CASE ~Arrive /\ ~FinishZeroMiss BY <1>6, <3>3, StatusFrame
    <3> QED BY <3>1, <3>2, <3>3
  <2>3. computed'[r] = computed[r]
    <3>1. CASE LookupWaiting
      <4>1. waiting[idx] # r BY <2>2, <3>1, FrontierRequest DEF LookupWaiting
      <4> QED BY <1>t, <3>1, <4>1 DEF LookupWaiting, EnsureLookup
    <3>2. CASE ~LookupWaiting BY <1>6, <3>2, CreditFrame
    <3> QED BY <3>1, <3>2
  <2>4. PICK i \in DOMAIN slices : Unapplied(i) /\ slices[i].req = r BY <1>1, <2>2, <2>3
  <2>5. Unapplied(i)'
    <3>1. phase' = "apply" => (phase = "apply" /\ idx' = idx) \/ idx' = 1
      <4>1. CASE BeginSchedule BY <4>1 DEF BeginSchedule
      <4>2. CASE ~BeginSchedule BY <1>6, <4>2, BudgetFrame
      <4> QED BY <4>1, <4>2
    <3> QED BY <1>l, <2>4, <3>1 DEF Unapplied
  <2> QED BY <2>1, <2>4, <2>5
<1> QED BY <1>3, <1>4, <1>5, <1>6

LEMMA BatchStep ==
    ASSUME BatchInv, [Next]_vars
    PROVE  BatchInv'
<1>1. TypeInv' BY TypeStep DEF BatchInv
<1> QED BY <1>1, CreditsStep, LifecyclesStep, LoadsStep, QueueStep, RunningStep, SliceStep,
           LimitsStep, PreparedStep
        DEF BatchInv

THEOREM BatchInvariance == Spec => []BatchInv
<1> QED BY BatchInit, BatchStep, PTL DEF Spec

-----------------------------------------------------------------------------
(* What the invariant says to the reader of the code.                        *)

\* Preparing the running requests at the start of a frontier changes nothing:
\* each has tokens to compute and no KV load left to charge.
LEMMA PreparedEverywhere ==
    ASSUME BatchInv
    PROVE  RunningPrepared
<1> SUFFICES ASSUME phase \in {"arrive", "planRunning"}, NEW i \in DOMAIN running
             PROVE  /\ status[running[i]] = "running" /\ looked[running[i]]
                    /\ Remaining(running[i]) > 0 /\ ~OwesLoad(running[i])
  BY DEF RunningPrepared
<1>1. PICK r \in Requests : r = running[i] BY DEF BatchInv, TypeInv, TypeOK
<1>2. status[r] = "running" BY <1>1 DEF BatchInv, RunningInv
<1>3. looked[r] /\ owes[r] = 0 BY <1>2 DEF BatchInv, Lifecycles, Lifecycle
<1>4. slices = <<>> BY DEF BatchInv, SliceInv, Scheduling
<1>5. computed[r] # Tokens(r) BY <1>2, <1>4 DEF BatchInv, PreparedInv
<1>6. computed[r] <= Tokens(r) /\ computed[r] \in Nat /\ Tokens(r) \in Nat
  BY PromptType DEF BatchInv, TypeInv, TypeOK, Credits, Credit
<1> QED BY <1>1, <1>2, <1>3, <1>5, <1>6 DEF Remaining, OwesLoad

THEOREM RunningIsPrepared == Spec => []RunningPrepared
<1> QED BY PreparedEverywhere, BatchInvariance, PTL

\* The KV load of a request is charged to its first slice, whole and once.
THEOREM LoadChargedOnce == Spec => []KVLoadChargedOnce
<1>1. BatchInv => KVLoadChargedOnce BY DEF BatchInv
<1> QED BY <1>1, BatchInvariance, PTL

\* A batch stays within the token budget, the sequence limit, the chunk limit
\* and the prompts, has every request at most once, and no empty slice as long
\* as the accounting keeps the last token of a prompt to compute.
THEOREM BatchIsWithinLimits ==
    ASSUME KeptTokens = 1
    PROVE  Spec => []BatchWithinLimits
<1>1. BatchInv => BatchWithinLimits
  <2> SUFFICES ASSUME BatchInv PROVE BatchWithinLimits
    OBVIOUS
  <2>1. ASSUME NEW i \in DOMAIN slices PROVE slices[i].tokens \in 1..ChunkLimit
    <3>1. slices[i] \in Slices
      <4>1. slices \in Seq(Slices) BY DEF BatchInv, TypeInv, TypeOK
      <4> QED BY <4>1
    <3>2. slices[i].tokens \in Nat BY <3>1 DEF Slices
    <3>3. slices[i].tokens <= ChunkLimit /\ slices[i].tokens >= 1
      BY DEF BatchInv, LimitsInv
    <3> QED BY <3>2, <3>3, ChunkLimitType
  <2> QED BY <2>1 DEF BatchInv, LimitsInv, SliceInv, BatchWithinLimits
<1> QED BY <1>1, BatchInvariance, PTL

\* What a slice does when it is applied.
LEMMA ApplyEffect ==
    ASSUME BatchInv, ApplySlice
    PROVE  \E r \in Requests, low \in Nat, high \in Nat, is \in Seq(Nat) :
               /\ r = slices[idx].req /\ status[r] = "running"
               /\ low = computed[r] /\ low <= high /\ high <= Tokens(r)
               /\ is = Materialized(r, low, high)
               /\ \A i \in Resident(is) : i \in MissIndices(r) /\ EndToken(r, i) <= high
               /\ computed' = [computed EXCEPT ![r] = high]
               /\ stored' = [stored EXCEPT ![r] = @ \o is]
               /\ Resident(hbm') \subseteq
                      Resident(hbm) \cup {Blocks(r)[i] : i \in Resident(is)}
               /\ Resident(ddr') \subseteq
                      Resident(ddr) \cup {Blocks(r)[i] : i \in Resident(is)}
               /\ IF high = Tokens(r) THEN status' = [status EXCEPT ![r] = "finished"]
                                      ELSE status' = status
               /\ looked' = looked /\ rawHits' = rawHits
<1> DEFINE r == slices[idx].req
           low == slices[idx].before
           high == slices[idx].before + slices[idx].tokens
           is == Materialized(r, low, high)
<1>1. /\ r \in Requests /\ status[r] = "running" /\ low = computed[r]
      /\ low \in Nat /\ high \in Nat /\ low <= high /\ high <= Tokens(r)
      /\ low \in Int /\ high \in Int
  BY AppliedSlice
<1>2. /\ computed' = [computed EXCEPT ![r] = high]
      /\ stored' = [stored EXCEPT ![r] = @ \o is]
      /\ hbm' = AfterStore(hbm, KeysOf(r, is), HBMCapacity)
      /\ ddr' = AfterStore(ddr, KeysOf(r, is), DDRCapacity)
      /\ IF high = Tokens(r) THEN status' = [status EXCEPT ![r] = "finished"]
                             ELSE status' = status
      /\ looked' = looked /\ rawHits' = rawHits
  BY DEF ApplySlice, lookups
<1> HIDE DEF r, low, high
<1>3. /\ is \in Seq(Nat)
      /\ \A i \in Resident(is) : i \in MissIndices(r) /\ EndToken(r, i) <= high
      /\ KeysOf(r, is) \in Seq(BlockKeys)
      /\ Resident(KeysOf(r, is)) = {Blocks(r)[i] : i \in Resident(is)}
  BY <1>1, MaterializedMembers DEF BatchInv, TypeInv
<1> HIDE DEF is
<1>4. hbm \in Seq(BlockKeys) /\ ddr \in Seq(BlockKeys) BY DEF BatchInv, TypeInv, TypeOK
<1>5. /\ Resident(hbm') \subseteq Resident(hbm) \cup Resident(KeysOf(r, is))
      /\ Resident(ddr') \subseteq Resident(ddr) \cup Resident(KeysOf(r, is))
  BY <1>2, <1>3, <1>4, StoreResident, CapacitiesAssumption
<1> QED BY <1>1, <1>2, <1>3, <1>5 DEF r, low, high, is

\* The blocks a request has materialized stay on its record, and its progress
\* never goes back.
LEMMA RecordsGrow ==
    ASSUME BatchInv, [Next]_vars, NEW r \in Requests
    PROVE  /\ \A j \in DOMAIN stored[r] : /\ j \in DOMAIN stored'[r]
                                         /\ stored'[r][j] = stored[r][j]
           /\ computed[r] <= computed'[r]
<1>t. /\ stored \in [Requests -> Seq(Nat)] /\ computed \in [Requests -> Nat]
  BY DEF BatchInv, TypeInv, TypeOK
<1>1. CASE ApplySlice
  <2>1. PICK q \in Requests, high \in Nat, is \in Seq(Nat) :
               /\ computed[q] <= high
               /\ computed' = [computed EXCEPT ![q] = high]
               /\ stored' = [stored EXCEPT ![q] = @ \o is]
    BY <1>1, ApplyEffect
  <2>2. CASE r = q
    <3>1. stored'[r] = stored[r] \o is /\ computed'[r] = high BY <1>t, <2>1, <2>2
    <3>2. stored[r] \in Seq(Nat) BY <1>t
    <3>3. \A j \in DOMAIN stored[r] : /\ j \in DOMAIN (stored[r] \o is)
                                     /\ (stored[r] \o is)[j] = stored[r][j]
      BY <2>1, <3>2
    <3> QED BY <2>1, <2>2, <3>1, <3>3
  <2>3. CASE r # q BY <1>t, <2>1, <2>3
  <2> QED BY <2>2, <2>3
<1>2. CASE LookupWaiting
  <2>1. PICK q \in Requests : q = waiting[idx] BY <1>2, FrontierRequest DEF LookupWaiting
  <2>2. EnsureLookup(q) BY <1>2, <2>1 DEF LookupWaiting
  <2>3. stored' = stored /\ ~looked[q] BY <2>2 DEF EnsureLookup, NeedsLookup
  <2>4. \A s \in Requests \ {q} : computed'[s] = computed[s]
    BY <1>t, <2>2 DEF EnsureLookup
  <2>5. computed[q] = 0 BY <2>3 DEF BatchInv, Credits, Credit
  <2>6. computed'[r] \in Nat BY TypeStep DEF BatchInv, TypeInv, TypeOK
  <2>7. computed[r] <= computed'[r]
    <3>1. CASE r = q BY <2>5, <2>6, <3>1
    <3>2. CASE r # q BY <1>t, <2>4, <3>2
    <3> QED BY <3>1, <3>2
  <2> QED BY <2>3, <2>7
<1>3. CASE ~ApplySlice /\ ~LookupWaiting
  <2>1. UNCHANGED <<stored, computed>> BY <1>3, CreditFrame
  <2> QED BY <1>t, <2>1
<1> QED BY <1>1, <1>2, <1>3

\* What a lookup found is fixed: later chunks, materializations and evictions
\* never change what a request was credited with.
THEOREM CreditsAreFinal == Spec => CreditIsFinal
<1>1. ASSUME BatchInv, [Next]_vars, NEW r \in Requests, looked[r]
      PROVE  /\ UNCHANGED <<looked[r], rawHits[r], ddrHit[r], cached[r], lookupAt[r]>>
             /\ computed'[r] >= computed[r]
             /\ owes'[r] <= owes[r]
  <2>t. /\ rawHits \in [Requests -> Nat] /\ ddrHit \in [Requests -> Nat]
        /\ cached \in [Requests -> Nat] /\ looked \in [Requests -> BOOLEAN]
        /\ owes \in [Requests -> Nat] /\ lookupAt \in [Requests -> Nat \cup {Unset}]
        /\ computed \in [Requests -> Nat] /\ computed' \in [Requests -> Nat]
    BY <1>1, TypeStep DEF BatchInv, TypeInv, TypeOK
  <2>1. computed'[r] >= computed[r]
    <3>1. computed[r] <= computed'[r] BY <1>1, RecordsGrow
    <3> QED BY <2>t, <3>1
  <2>2. CASE LookupWaiting
    <3>1. PICK q \in Requests : q = waiting[idx]
      BY <1>1, <2>2, FrontierRequest DEF LookupWaiting
    <3>2. EnsureLookup(q) /\ q # r
      BY <1>1, <2>2, <3>1 DEF LookupWaiting, EnsureLookup, NeedsLookup
    <3>3. /\ looked'[r] = looked[r] /\ rawHits'[r] = rawHits[r] /\ ddrHit'[r] = ddrHit[r]
          /\ cached'[r] = cached[r] /\ lookupAt'[r] = lookupAt[r] /\ owes'[r] = owes[r]
      BY <2>t, <3>2 DEF EnsureLookup
    <3>4. owes[r] <= owes[r] BY <2>t
    <3> QED BY <2>1, <3>3, <3>4
  <2>3. CASE ~LookupWaiting
    <3>1. UNCHANGED <<looked, rawHits, ddrHit, cached, lookupAt>>
      BY <1>1, <2>3 DEF Next, Step, Terminated, vars, lookups,
         Arrive, JumpToArrival, BeginFrontier, PlanRunning, PlanRunningDone,
         FinishZeroMiss, PlanWaiting, PlanWaitingDone, NothingLeft, BeginSchedule,
         ScheduleRunning, ScheduleRunningDone, AdmitWaiting, ScheduleDone, Estimate,
         ApplySlice, EndIteration
    <3>2. owes'[r] <= owes[r]
      <4>1. CASE ScheduleRunning \/ AdmitWaiting
        <5>1. \/ owes' = owes
              \/ \E q : owes' = [owes EXCEPT ![q] = 0]
          BY <4>1 DEF ScheduleRunning, AdmitWaiting, ConsumeLoad
        <5> QED BY <2>t, <5>1
      <4>2. CASE ~ScheduleRunning /\ ~AdmitWaiting
        <5>1. owes' = owes BY <1>1, <2>3, <4>2, LoadFrame
        <5> QED BY <2>t, <5>1
      <4> QED BY <4>1, <4>2
    <3> QED BY <2>1, <3>1, <3>2
  <2> QED BY <2>2, <2>3
<1>2. BatchInv /\ [Next]_vars
        => [\A r \in Requests :
              looked[r] => /\ UNCHANGED <<looked[r], rawHits[r], ddrHit[r], cached[r], lookupAt[r]>>
                           /\ computed'[r] >= computed[r]
                           /\ owes'[r] <= owes[r]]_vars
  BY <1>1
<1> QED BY <1>2, BatchInvariance, PTL DEF Spec, CreditIsFinal

-----------------------------------------------------------------------------
(* The visibility of cached blocks.                                          *)

\* r has materialized a block of key k.
HasStored(r, k) == \E j \in DOMAIN stored[r] : Blocks(r)[stored[r][j]] = k

\* The blocks on record end within the computed tokens; what is resident is on
\* some record; what a lookup hit is on the record of another request.
CacheInv ==
    /\ \A r \in Requests : \A j \in DOMAIN stored[r] : EndToken(r, stored[r][j]) <= computed[r]
    /\ \A k \in Resident(hbm) \cup Resident(ddr) : \E r \in Requests : HasStored(r, k)
    /\ \A r \in Requests : looked[r] =>
           \A i \in 1..rawHits[r] : \E s \in Requests \ {r} : HasStored(s, Blocks(r)[i])

LEMMA CacheInit == Init => CacheInv
<1> SUFFICES ASSUME Init PROVE CacheInv
  OBVIOUS
<1>1. \A r \in Requests : stored[r] = <<>> /\ looked[r] = FALSE BY DEF Init
<1>2. Resident(hbm) = {} /\ Resident(ddr) = {} BY DEF Init, Resident
<1> QED BY <1>1, <1>2 DEF CacheInv

LEMMA HasStoredGrows ==
    ASSUME BatchInv, [Next]_vars, NEW r \in Requests, NEW k, HasStored(r, k)
    PROVE  HasStored(r, k)'
<1>1. PICK j \in DOMAIN stored[r] : Blocks(r)[stored[r][j]] = k BY DEF HasStored
<1>2. j \in DOMAIN stored'[r] /\ stored'[r][j] = stored[r][j] BY RecordsGrow
<1>3. Blocks(r)' = Blocks(r) BY InputsFrame
<1> QED BY <1>1, <1>2, <1>3 DEF HasStored

LEMMA CacheStep ==
    ASSUME BatchInv, CacheInv, [Next]_vars
    PROVE  CacheInv'
<1>t. /\ stored \in [Requests -> Seq(Nat)] /\ computed \in [Requests -> Nat]
      /\ rawHits \in [Requests -> Nat] /\ looked \in [Requests -> BOOLEAN]
      /\ \A r \in Requests : Tokens(r) \in Nat
  BY PromptType DEF BatchInv, TypeInv, TypeOK
<1>1. \A r \in Requests : \A j \in DOMAIN stored[r] : EndToken(r, stored[r][j]) <= computed[r]
  BY DEF CacheInv
<1>2. \A k \in Resident(hbm) \cup Resident(ddr) : \E r \in Requests : HasStored(r, k)
  BY DEF CacheInv
<1>3. \A r \in Requests : looked[r] =>
          \A i \in 1..rawHits[r] : \E s \in Requests \ {r} : HasStored(s, Blocks(r)[i])
  BY DEF CacheInv
<1>4. \A r \in Requests : Tokens(r)' = Tokens(r) /\ Blocks(r)' = Blocks(r)
  BY InputsFrame
\* The records: only the request of an applied slice gets new blocks.
<1>5. ASSUME NEW r \in Requests, NEW j \in DOMAIN stored'[r]
      PROVE  EndToken(r, stored'[r][j]) <= computed'[r]
  <2>e. ASSUME NEW i \in Nat PROVE EndToken(r, i) \in Int
    BY <1>t, BlockSizeAssumption DEF EndToken, MinOf
  <2>n. stored'[r] \in Seq(Nat) /\ computed'[r] \in Nat
    BY TypeStep DEF BatchInv, TypeInv, TypeOK
  <2>m. stored'[r][j] \in Nat BY <2>n
  <2>1. CASE j \in DOMAIN stored[r]
    <3>1. stored'[r][j] = stored[r][j] /\ computed[r] <= computed'[r] BY <2>1, RecordsGrow
    <3>2. EndToken(r, stored[r][j]) <= computed[r] BY <1>1, <2>1
    <3>3. EndToken(r, stored[r][j]) \in Int BY <2>e, <2>m, <3>1
    <3> QED BY <1>t, <2>n, <3>1, <3>2, <3>3
  <2>2. CASE j \notin DOMAIN stored[r]
    <3>1. ApplySlice
      <4>1. LookupWaiting => stored' = stored BY DEF LookupWaiting, EnsureLookup
      <4>2. ~LookupWaiting /\ ~ApplySlice => stored' = stored BY CreditFrame
      <4> QED BY <2>2, <4>1, <4>2
    <3>2. PICK q \in Requests, high \in Nat, is \in Seq(Nat) :
                 /\ \A i \in Resident(is) : EndToken(q, i) <= high
                 /\ computed' = [computed EXCEPT ![q] = high]
                 /\ stored' = [stored EXCEPT ![q] = @ \o is]
      BY <3>1, ApplyEffect
    <3>3. r = q BY <1>t, <2>2, <3>2
    <3>4. stored'[r] = stored[r] \o is /\ computed'[r] = high /\ stored[r] \in Seq(Nat)
      BY <1>t, <3>2, <3>3
    <3>5. stored'[r][j] \in Resident(is)
      <4>1. j \in 1..(Len(stored[r]) + Len(is)) /\ j \notin 1..Len(stored[r])
        BY <2>2, <3>2, <3>4
      <4>2. j - Len(stored[r]) \in 1..Len(is) BY <3>2, <3>4, <4>1
      <4>3. (stored[r] \o is)[j] = is[j - Len(stored[r])] BY <3>2, <3>4, <4>1
      <4>4. \A m \in 1..Len(is) : is[m] \in Resident(is) BY <3>2 DEF Resident
      <4> QED BY <3>4, <4>2, <4>3, <4>4
    <3> QED BY <3>2, <3>3, <3>4, <3>5
  <2> QED BY <2>1, <2>2
\* What is resident.
<1>6. ASSUME NEW k \in Resident(hbm') \cup Resident(ddr')
      PROVE  \E r \in Requests : HasStored(r, k)'
  <2>1. CASE k \in Resident(hbm) \cup Resident(ddr)
    <3>1. PICK r \in Requests : HasStored(r, k) BY <1>2, <2>1
    <3> QED BY <3>1, HasStoredGrows
  <2>2. CASE k \notin Resident(hbm) \cup Resident(ddr)
    <3>1. ApplySlice
      <4>1. LookupWaiting => Resident(hbm') = Resident(hbm) /\ Resident(ddr') = Resident(ddr)
        BY LookupEffect
      <4>2. ~LookupWaiting /\ ~ApplySlice => hbm' = hbm /\ ddr' = ddr BY CreditFrame
      <4> QED BY <2>2, <4>1, <4>2
    <3>2. PICK q \in Requests, is \in Seq(Nat) :
                 /\ stored' = [stored EXCEPT ![q] = @ \o is]
                 /\ Resident(hbm') \subseteq Resident(hbm) \cup {Blocks(q)[i] : i \in Resident(is)}
                 /\ Resident(ddr') \subseteq Resident(ddr) \cup {Blocks(q)[i] : i \in Resident(is)}
      BY <3>1, ApplyEffect
    <3>3. PICK m \in 1..Len(is) : k = Blocks(q)[is[m]]
      <4>1. PICK x \in Resident(is) : k = Blocks(q)[x] BY <2>2, <3>2
      <4>2. PICK m \in 1..Len(is) : x = is[m] BY <3>2 DEF Resident
      <4> QED BY <4>1, <4>2
    <3>4. stored'[q] = stored[q] \o is /\ stored[q] \in Seq(Nat) BY <1>t, <3>2
    <3>5. /\ Len(stored[q]) + m \in DOMAIN stored'[q]
          /\ stored'[q][Len(stored[q]) + m] = is[m]
      BY <3>4
    <3>6. HasStored(q, k)' BY <1>4, <3>3, <3>5 DEF HasStored
    <3> QED BY <3>6
  <2> QED BY <2>1, <2>2
\* What the lookups hit.
<1>7. ASSUME NEW r \in Requests, looked'[r], NEW i \in 1..rawHits'[r]
      PROVE  \E s \in Requests \ {r} : HasStored(s, Blocks(r)[i])'
  <2>1. CASE LookupWaiting /\ ~looked[r]
    <3>1. PICK q \in Requests, h \in Nat, d \in Nat :
                 /\ ~looked[q]
                 /\ \A p \in 1..(h + d) : Blocks(q)[p] \in Resident(hbm) \cup Resident(ddr)
                 /\ looked' = [looked EXCEPT ![q] = TRUE]
                 /\ rawHits' = [rawHits EXCEPT ![q] = h + d]
      BY <2>1, LookupEffect, SMTT(30)
    <3>2. r = q BY <1>t, <1>7, <2>1, <3>1
    <3>3. rawHits'[r] = h + d BY <1>t, <3>1, <3>2
    <3>4. PICK s \in Requests : HasStored(s, Blocks(r)[i]) BY <1>2, <1>7, <3>1, <3>2, <3>3
    <3>5. stored[r] = <<>> BY <2>1 DEF BatchInv, Credits, Credit
    <3>6. s # r BY <3>4, <3>5 DEF HasStored
    <3>7. HasStored(s, Blocks(r)[i])' BY <1>4, <3>4, HasStoredGrows DEF HasStored
    <3> QED BY <3>6, <3>7
  <2>2. CASE ~(LookupWaiting /\ ~looked[r])
    <3>1. looked[r] /\ rawHits'[r] = rawHits[r]
      <4>1. CASE LookupWaiting
        <5>1. PICK q \in Requests, h \in Nat, d \in Nat :
                     /\ ~looked[q]
                     /\ looked' = [looked EXCEPT ![q] = TRUE]
                     /\ rawHits' = [rawHits EXCEPT ![q] = h + d]
          BY <4>1, LookupEffect
        <5> QED BY <1>t, <2>2, <4>1, <5>1
      <4>2. CASE ApplySlice
        <5>1. looked' = looked /\ rawHits' = rawHits BY <4>2, ApplyEffect
        <5> QED BY <1>7, <5>1
      <4>3. CASE ~LookupWaiting /\ ~ApplySlice
        <5>1. looked' = looked /\ rawHits' = rawHits BY <4>3, CreditFrame
        <5> QED BY <1>7, <5>1
      <4> QED BY <4>1, <4>2, <4>3
    <3>2. PICK s \in Requests \ {r} : HasStored(s, Blocks(r)[i]) BY <1>3, <1>7, <3>1
    <3>3. HasStored(s, Blocks(r)[i])' BY <1>4, <3>2, HasStoredGrows DEF HasStored
    <3> QED BY <3>3
  <2> QED BY <2>1, <2>2
<1>8. (\A r \in Requests : \A j \in DOMAIN stored[r] :
          EndToken(r, stored[r][j]) <= computed[r])'
  BY <1>5, InputsFrame DEF EndToken, Tokens
<1> QED BY <1>6, <1>7, <1>8 DEF CacheInv

LEMMA CacheInvariance == Spec => [](BatchInv /\ CacheInv)
<1>1. BatchInv /\ CacheInv /\ [Next]_vars => (BatchInv /\ CacheInv)'
  BY BatchStep, CacheStep
<1> QED BY <1>1, BatchInit, CacheInit, PTL DEF Spec

\* No block is visible before some request that missed it has computed the
\* tokens it holds.
THEOREM VisibleIsComputed == Spec => []VisibleImpliesComputed
<1>1. CacheInv => VisibleImpliesComputed
  BY DEF CacheInv, VisibleImpliesComputed, HasStored
<1> QED BY <1>1, CacheInvariance, PTL

\* The tokens a request skips are whole blocks that other requests have
\* computed, and never its whole prompt when the accounting keeps the last token.
THEOREM SkipsAreComputed ==
    ASSUME KeptTokens = 1
    PROVE  Spec => []SkipsOnlyComputedBlocks
<1>1. BatchInv /\ CacheInv => SkipsOnlyComputedBlocks
  <2> SUFFICES ASSUME BatchInv, CacheInv, NEW r \in Requests, looked[r]
               PROVE  /\ cached[r] % BlockSize = 0
                      /\ Tokens(r) > 0 => cached[r] < Tokens(r)
                      /\ \A i \in 1..(cached[r] \div BlockSize) :
                             \E s \in Requests \ {r} : \E j \in DOMAIN stored[s] :
                                 Blocks(s)[stored[s][j]] = Blocks(r)[i]
    BY DEF SkipsOnlyComputedBlocks
  <2>1. /\ cached[r] % BlockSize = 0
        /\ Tokens(r) > 0 => cached[r] < Tokens(r)
        /\ cached[r] <= rawHits[r] * BlockSize
    BY DEF BatchInv, Credits, Credit
  <2>2. cached[r] \in Nat /\ rawHits[r] \in Nat BY DEF BatchInv, TypeInv, TypeOK
  <2>3. cached[r] \div BlockSize <= rawHits[r]
    <3>1. PICK c \in Nat : c = cached[r] \div BlockSize /\ c * BlockSize <= cached[r]
      BY <2>2, DivisionBounds, BlockSizeAssumption
    <3>2. CASE rawHits[r] < c
      <4>1. (rawHits[r] + 1) * BlockSize <= c * BlockSize
        BY <2>2, <3>2, ProductMonotonic, BlockSizeAssumption
      <4>2. (rawHits[r] + 1) * BlockSize = rawHits[r] * BlockSize + BlockSize
        BY <2>2, BlockSizeAssumption
      <4>3. rawHits[r] * BlockSize \in Nat /\ c * BlockSize \in Nat
        BY <2>2, BlockSizeAssumption
      <4> QED BY <2>1, <2>2, <3>1, <4>1, <4>2, <4>3, BlockSizeAssumption
    <3> QED BY <2>2, <3>1, <3>2
  <2>4. cached[r] \div BlockSize \in Nat
    BY <2>2, DivisionBounds, BlockSizeAssumption
  <2>5. \A i \in 1..(cached[r] \div BlockSize) : i \in 1..rawHits[r]
    BY <2>2, <2>3, <2>4
  <2>6. \A i \in 1..rawHits[r] : \E s \in Requests \ {r} : HasStored(s, Blocks(r)[i])
    BY DEF CacheInv
  <2> QED BY <2>1, <2>5, <2>6 DEF HasStored
<1> QED BY <1>1, CacheInvariance, PTL

-----------------------------------------------------------------------------
(* The materialized blocks.                                                  *)

LEMMA InOrderNothing ==
    ASSUME TypeOK, NEW r \in Requests, NEW S, \A i \in 1..Len(Blocks(r)) : i \notin S
    PROVE  InOrder(r, S) = <<>>
<1> DEFINE is == InOrder(r, S)
<1>1. is \in Seq(Nat) /\ Resident(is) = {} BY InOrderMembers
<1> HIDE DEF is
<1>2. CASE is # <<>>
  <2>1. 1 \in DOMAIN is BY <1>1, <1>2
  <2> QED BY <1>1, <2>1 DEF Resident
<1> QED BY <1>2 DEF is

LEMMA InOrderUnion ==
    ASSUME TypeOK, NEW r \in Requests, NEW S, NEW T,
           \A i, j \in 1..Len(Blocks(r)) : i \in S /\ j \in T => i < j
    PROVE  InOrder(r, S \cup T) = InOrder(r, S) \o InOrder(r, T)
<1> DEFINE q == [i \in 1..Len(Blocks(r)) |-> i]
<1>1. Len(Blocks(r)) \in Nat BY PromptType, LenProperties
<1>2. q \in Seq(Nat) /\ Len(q) = Len(Blocks(r)) BY <1>1
<1>3. \A i \in 1..Len(q) : q[i] = i BY <1>2
<1>4. /\ InOrder(r, S) = Keep(q, S) /\ InOrder(r, T) = Keep(q, T)
      /\ InOrder(r, S \cup T) = Keep(q, S \cup T)
  BY DEF InOrder
<1> HIDE DEF q
<1>5. \A i, j \in 1..Len(q) : q[i] \in S /\ q[j] \in T => i < j BY <1>2, <1>3
<1>6. Keep(q, S \cup T) = Keep(q, S) \o Keep(q, T)
  <2>1. q \in Seq(Nat) BY <1>2
  <2> QED BY <1>5, <2>1, KeepUnion
<1> QED BY <1>4, <1>6

\* The full misses of a request within its first c tokens.
FullMisses(r, c) == {i \in MissIndices(r) : IsFull(r, i) /\ i * BlockSize <= c}

LEMMA ProgressiveSlice ==
    ASSUME TypeOK, NEW r \in Requests, Progressive,
           NEW low \in Nat, NEW high \in Nat, low <= high, high <= Tokens(r),
           stored[r] = InOrder(r, FullMisses(r, low))
    PROVE  stored[r] \o Materialized(r, low, high) = InOrder(r, FullMisses(r, high))
<1> DEFINE already == {stored[r][j] : j \in DOMAIN stored[r]}
           chunk   == NewlyComplete(r, low, high, already)
           rest    == IF high # Tokens(r) THEN {}
                      ELSE NewlyComplete(r, -1, Tokens(r), already \cup chunk)
           L == FullMisses(r, low)
           H == FullMisses(r, high)
<1>1. /\ Tokens(r) \in Nat /\ Len(Blocks(r)) \in Nat /\ rawHits[r] \in Nat
  BY PromptType, LenProperties DEF TypeOK
<1>2. \A i \in MissIndices(r) : i \in 1..Len(Blocks(r)) /\ i \in Nat /\ i * BlockSize \in Nat
  BY <1>1, BlockSizeAssumption DEF MissIndices
<1>3. \A i \in MissIndices(r) : IsFull(r, i) => EndToken(r, i) = i * BlockSize
  BY <1>1, <1>2 DEF IsFull, EndToken, MinOf
<1>4. already = L
  <2>1. Resident(stored[r]) = already BY DEF Resident
  <2>2. Resident(stored[r]) = L \cap (1..Len(Blocks(r))) BY InOrderMembers
  <2>3. L \subseteq 1..Len(Blocks(r)) BY <1>2 DEF FullMisses
  <2> QED BY <2>1, <2>2, <2>3
<1> HIDE DEF already
<1>5. L \cup chunk = H
  BY <1>2, <1>3, <1>4 DEF FullMisses, NewlyComplete
<1>6. \A i, j \in 1..Len(Blocks(r)) : i \in L /\ j \in chunk => i < j
  <2> SUFFICES ASSUME NEW i \in L, NEW j \in chunk PROVE i < j
    OBVIOUS
  <2>1. i * BlockSize <= low /\ low < j * BlockSize
    BY <1>3 DEF FullMisses, NewlyComplete
  <2>2. i \in Nat /\ j \in Nat /\ i * BlockSize \in Nat /\ j * BlockSize \in Nat
    BY <1>2 DEF FullMisses, NewlyComplete
  <2>3. j <= i => j * BlockSize <= i * BlockSize
    BY <2>2, ProductMonotonic, BlockSizeAssumption
  <2> QED BY <2>1, <2>2, <2>3
<1>7. \A i \in 1..Len(Blocks(r)) : i \notin rest
  BY <1>1, <1>2, <1>3, <1>4, <1>5 DEF NewlyComplete, FullMisses
<1>8. Materialized(r, low, high) = InOrder(r, chunk) \o InOrder(r, rest)
  BY DEF Materialized, already
<1> HIDE DEF chunk, rest, L, H
<1>9. /\ InOrder(r, chunk) \in Seq(Nat) /\ InOrder(r, rest) = <<>>
  BY <1>7, InOrderMembers, InOrderNothing
<1>10. Materialized(r, low, high) = InOrder(r, chunk)
  BY <1>8, <1>9, ConcatEmptySeq
<1>11. InOrder(r, L \cup chunk) = InOrder(r, L) \o InOrder(r, chunk)
  BY <1>6, InOrderUnion
<1> QED BY <1>5, <1>10, <1>11 DEF L, H

LEMMA LegacySlice ==
    ASSUME TypeOK, NEW r \in Requests, ~Progressive, NEW low, NEW high, stored[r] = <<>>
    PROVE  stored[r] \o Materialized(r, low, high)
               = InOrder(r, IF high = Tokens(r) THEN MissIndices(r) ELSE {})
<1> DEFINE rest == IF high # Tokens(r) THEN {} ELSE MissIndices(r)
<1>1. Materialized(r, low, high) = InOrder(r, {}) \o InOrder(r, rest)
  BY DEF Materialized
<1> HIDE DEF rest
<1>2. InOrder(r, {}) = <<>> BY InOrderNothing
<1>3. InOrder(r, rest) \in Seq(Nat) BY InOrderMembers
<1>4. Materialized(r, low, high) = InOrder(r, rest) BY <1>1, <1>2, <1>3, ConcatEmptySeq
<1>5. stored[r] \o Materialized(r, low, high) = InOrder(r, rest)
  BY <1>3, <1>4, ConcatEmptySeq
<1> QED BY <1>5 DEF rest

\* A lookup that credits a whole prompt leaves no miss.
LEMMA WholeCreditHasNoMiss ==
    ASSUME TypeOK, NEW r \in Requests, cached[r] <= rawHits[r] * BlockSize,
           cached[r] = Tokens(r)
    PROVE  MissIndices(r) = {}
<1>1. /\ rawHits[r] \in Nat /\ Tokens(r) \in Nat
      /\ Len(Blocks(r)) = BlockCount(Tokens(r)) /\ Len(Blocks(r)) \in Nat
  BY PromptType, LenProperties DEF TypeOK
<1>2. BlockCount(Tokens(r)) <= rawHits[r] BY <1>1, BlockCountBounds
<1> QED BY <1>1, <1>2 DEF MissIndices

\* What a request should have materialized.
Recorded(r) ==
    IF Progressive
    THEN {i \in MissIndices(r) : IsFull(r, i) /\ i * BlockSize <= computed[r] /\ looked[r]}
    ELSE {i \in MissIndices(r) : status[r] = "finished"}

LEMMA MaterializedStep ==
    ASSUME BatchInv, MaterializedExactly, [Next]_vars
    PROVE  MaterializedExactly'
<1>t. /\ stored \in [Requests -> Seq(Nat)] /\ computed \in [Requests -> Nat]
      /\ looked \in [Requests -> BOOLEAN] /\ rawHits \in [Requests -> Nat]
      /\ status \in [Requests -> {"pending", "waiting", "running", "finished"}]
      /\ TypeOK /\ \A q \in Requests : Tokens(q) \in Nat
  BY PromptType DEF BatchInv, TypeInv, TypeOK
<1>1. \A r \in Requests : stored[r] = InOrder(r, Recorded(r))
  BY DEF MaterializedExactly, Recorded
<1>p. prompt' = prompt BY InputsFrame
<1> SUFFICES ASSUME NEW r \in Requests
             PROVE  stored'[r] = InOrder(r, Recorded(r)')
  BY <1>p DEF MaterializedExactly, Recorded, InOrder, MissIndices, IsFull, Blocks, Tokens
\* Nothing is stored, and what should be stored stays the same.
<1>2. ASSUME stored'[r] = stored[r], looked'[r] = looked[r], rawHits'[r] = rawHits[r],
             computed'[r] = computed[r],
             \/ (status'[r] = "finished") <=> (status[r] = "finished")
             \/ MissIndices(r) = {}
      PROVE  stored'[r] = InOrder(r, Recorded(r)')
  <2>1. MissIndices(r)' = MissIndices(r) BY <1>2, <1>p DEF MissIndices, Blocks
  <2>2. \A i : IsFull(r, i)' <=> IsFull(r, i) BY <1>p DEF IsFull, Tokens
  <2>3. Recorded(r)' = Recorded(r)
    <3>1. CASE Progressive BY <1>2, <2>1, <2>2, <3>1 DEF Recorded
    <3>2. CASE ~Progressive
      <4>1. CASE MissIndices(r) = {} BY <2>1, <3>2, <4>1 DEF Recorded
      <4>2. CASE (status'[r] = "finished") <=> (status[r] = "finished")
        BY <2>1, <3>2, <4>2 DEF Recorded
      <4> QED BY <1>2, <4>1, <4>2
    <3> QED BY <3>1, <3>2
  <2> QED BY <1>1, <1>2, <2>3
<1>3. CASE ApplySlice
  <2>1. PICK q \in Requests, low \in Nat, high \in Nat :
               /\ status[q] = "running" /\ low = computed[q] /\ low <= high
               /\ high <= Tokens(q)
               /\ computed' = [computed EXCEPT ![q] = high]
               /\ stored' = [stored EXCEPT ![q] = @ \o Materialized(q, low, high)]
               /\ IF high = Tokens(q) THEN status' = [status EXCEPT ![q] = "finished"]
                                      ELSE status' = status
               /\ looked' = looked /\ rawHits' = rawHits
    BY <1>3, ApplyEffect
  <2>2. CASE r # q
    <3>1. stored'[r] = stored[r] /\ computed'[r] = computed[r] /\ status'[r] = status[r]
      BY <1>t, <2>1, <2>2
    <3> QED BY <1>2, <2>1, <3>1
  <2>3. CASE r = q
    <3>1. /\ stored'[r] = stored[r] \o Materialized(r, low, high)
          /\ computed'[r] = high /\ looked[r]
          /\ high = Tokens(r) => status'[r] = "finished"
          /\ high # Tokens(r) => status'[r] = "running"
      <4>1. looked[r] BY <2>1, <2>3 DEF BatchInv, Lifecycles, Lifecycle
      <4> QED BY <1>t, <2>1, <2>3, <4>1
    <3>2. MissIndices(r)' = MissIndices(r) BY <1>p, <2>1 DEF MissIndices, Blocks
    <3>3. CASE Progressive
      <4>1. stored[r] = InOrder(r, FullMisses(r, low))
        <5>1. Recorded(r) = FullMisses(r, low)
          BY <2>1, <2>3, <3>1, <3>3 DEF Recorded, FullMisses
        <5> QED BY <1>1, <5>1
      <4>2. stored'[r] = InOrder(r, FullMisses(r, high))
        BY <1>t, <2>1, <2>3, <3>1, <3>3, <4>1, ProgressiveSlice
      <4>3. \A i : IsFull(r, i)' <=> IsFull(r, i) BY <1>p DEF IsFull, Tokens
      <4>4. looked'[r] = TRUE BY <1>t, <2>1, <3>1
      <4>5. Recorded(r)' = FullMisses(r, high)
        BY <3>1, <3>2, <3>3, <4>3, <4>4 DEF Recorded, FullMisses
      <4> QED BY <4>2, <4>5
    <3>4. CASE ~Progressive
      <4>1. stored[r] = <<>>
        <5>1. Recorded(r) = {} BY <2>1, <2>3, <3>4 DEF Recorded
        <5> QED BY <1>1, <1>t, <5>1, InOrderNothing
      <4>2. stored'[r] = InOrder(r, IF high = Tokens(r) THEN MissIndices(r) ELSE {})
        BY <1>t, <3>1, <3>4, <4>1, LegacySlice
      <4>3. Recorded(r)' = IF high = Tokens(r) THEN MissIndices(r) ELSE {}
        BY <3>1, <3>2, <3>4 DEF Recorded
      <4> QED BY <4>2, <4>3
    <3> QED BY <3>3, <3>4
  <2> QED BY <2>2, <2>3
<1>4. CASE LookupWaiting
  <2>1. PICK q \in Requests : q = waiting[idx] /\ status[q] = "waiting"
    BY <1>4, FrontierRequest DEF LookupWaiting
  <2>2. EnsureLookup(q) BY <1>4, <2>1 DEF LookupWaiting
  <2>3. stored' = stored /\ status' = status /\ ~looked[q]
    BY <2>2 DEF EnsureLookup, NeedsLookup
  <2>4. CASE r # q
    <3>1. /\ looked'[r] = looked[r] /\ rawHits'[r] = rawHits[r] /\ computed'[r] = computed[r]
      BY <1>t, <2>2, <2>4 DEF EnsureLookup
    <3> QED BY <1>2, <2>3, <3>1
  <2>5. CASE r = q
    <3>1. stored'[r] = <<>> BY <2>3, <2>5 DEF BatchInv, Credits, Credit
    <3>2. Recorded(r)' = {}
      <4>1. CASE ~Progressive BY <2>1, <2>3, <2>5, <4>1 DEF Recorded
      <4>2. CASE Progressive
        <5>1. BatchInv' BY BatchStep
        <5>2. TypeOK' BY <5>1 DEF BatchInv, TypeInv
        <5>3. cached'[r] <= rawHits'[r] * BlockSize BY <5>1 DEF BatchInv, Credits, Credit
        <5>4. computed'[r] = cached'[r]
          BY <2>1, <2>3, <2>5, <5>1 DEF BatchInv, Lifecycles, Lifecycle
        <5>5. rawHits'[r] \in Nat /\ cached'[r] \in Nat BY <5>2 DEF TypeOK
        <5>6. ASSUME NEW i \in Recorded(r)' PROVE FALSE
          <6>1. i \in Nat /\ rawHits'[r] + 1 <= i /\ i * BlockSize <= cached'[r]
            <7>1. i \in (rawHits'[r] + 1)..Len(Blocks(r))
              BY <1>p, <4>2, <5>6 DEF Recorded, MissIndices, Blocks
            <7>2. Len(Blocks(r)) \in Nat BY <1>t, PromptType, LenProperties
            <7>3. i * BlockSize <= computed'[r] BY <4>2, <5>6 DEF Recorded
            <7> QED BY <5>4, <5>5, <7>1, <7>2, <7>3
          <6>2. (rawHits'[r] + 1) * BlockSize <= i * BlockSize
            BY <5>5, <6>1, ProductMonotonic, BlockSizeAssumption
          <6>3. (rawHits'[r] + 1) * BlockSize = rawHits'[r] * BlockSize + BlockSize
            BY <5>5, BlockSizeAssumption
          <6>4. rawHits'[r] * BlockSize \in Nat /\ i * BlockSize \in Nat
            BY <5>5, <6>1, BlockSizeAssumption
          <6> QED BY <5>3, <5>5, <6>1, <6>2, <6>3, <6>4, BlockSizeAssumption
        <5> QED BY <5>6
      <4> QED BY <4>1, <4>2
    <3> QED BY <1>t, <3>1, <3>2, InOrderNothing
  <2> QED BY <2>4, <2>5
<1>5. CASE ~ApplySlice /\ ~LookupWaiting
  <2>1. UNCHANGED <<stored, looked, rawHits, computed>> BY <1>5, CreditFrame
  <2>2. \/ (status'[r] = "finished") <=> (status[r] = "finished")
        \/ MissIndices(r) = {}
    <3>1. CASE Arrive
      <4>1. status[arrived + 1] # "finished"
        <5>1. arrived \in 0..N /\ N \in Nat BY RequestsAssumption DEF BatchInv, TypeInv, TypeOK
        <5>2. arrived + 1 \in Requests BY <3>1, <5>1 DEF Arrive, Due, Requests
        <5> QED BY <5>1, <5>2 DEF BatchInv, Lifecycles, Lifecycle
      <4> QED BY <1>t, <3>1, <4>1 DEF Arrive
    <3>2. CASE AdmitWaiting
      <4>1. status[Head(waiting)] = "waiting" BY <3>2, AdmittedRequest
      <4> QED BY <1>t, <3>2, <4>1 DEF AdmitWaiting
    <3>3. CASE FinishZeroMiss
      <4>1. PICK q \in Requests : q = waiting[idx] /\ status[q] = "waiting"
        BY <3>3, FrontierRequest DEF FinishZeroMiss
      <4>2. CASE r # q BY <1>t, <3>3, <4>1, <4>2 DEF FinishZeroMiss
      <4>3. CASE r = q
        <5>1. computed[r] = Tokens(r)
          BY <1>t, <3>3, <4>1, <4>3 DEF FinishZeroMiss, Remaining
        <5>2. computed[r] = cached[r] /\ cached[r] <= rawHits[r] * BlockSize
          BY <4>1, <4>3 DEF BatchInv, Lifecycles, Lifecycle, Credits, Credit
        <5> QED BY <1>t, <5>1, <5>2, WholeCreditHasNoMiss
      <4> QED BY <4>2, <4>3
    <3>4. CASE ~Arrive /\ ~AdmitWaiting /\ ~FinishZeroMiss
      BY <1>5, <3>4, StatusFrame
    <3> QED BY <3>1, <3>2, <3>3, <3>4
  <2> QED BY <1>2, <2>1, <2>2
<1> QED BY <1>3, <1>4, <1>5

LEMMA MaterializedInit == Init => MaterializedExactly
<1> SUFFICES ASSUME Init, NEW r \in Requests PROVE stored[r] = InOrder(r, Recorded(r))
  BY DEF MaterializedExactly, Recorded
<1>1. stored[r] = <<>> /\ looked[r] = FALSE /\ status[r] = "pending" BY DEF Init
<1>2. Recorded(r) = {} BY <1>1 DEF Recorded
<1>3. TypeOK BY TypeInit DEF TypeInv
<1> QED BY <1>1, <1>2, <1>3, InOrderNothing

\* Each missed block is materialized once and in prompt order: the full ones as
\* their tokens are computed in the progressive mode, all at the finish in the
\* legacy mode.
THEOREM MaterializesExactly == Spec => []MaterializedExactly
<1>1. BatchInv /\ MaterializedExactly /\ [Next]_vars => (BatchInv /\ MaterializedExactly)'
  BY BatchStep, MaterializedStep
<1> QED BY <1>1, BatchInit, MaterializedInit, PTL DEF Spec

-----------------------------------------------------------------------------
(* The inductive invariant, part by part.                                    *)

\* The line both loops walk: the running requests, then the waiting ones.
Line(k) == IF k <= Len(running) THEN running[k] ELSE waiting[k - Len(running)]
Width == Len(running) + Len(waiting)

\* The request x gets a slice when t tokens of the budget are left.
CanTake(x, t) == Planned(x, t) > 0 \/ CanScheduleLoadOnly(x)

\* The course of the frontier: l is the counted part of the line, and b[k] the
\* budget left after its first k requests.
Course(l, b) ==
    /\ l \in [1..slots -> Requests]
    /\ b \in [0..slots -> 0..MaxBatchedTokens]
    /\ b[0] = MaxBatchedTokens
    /\ \A k \in 1..slots :
           /\ l[k] = Line(k)
           /\ looked[l[k]]
           /\ b[k] = b[k - 1] - Planned(l[k], b[k - 1])
           /\ k > Len(slices) => CanTake(l[k], b[k - 1])

\* Why the frontier has stopped with t tokens left: no slot, nobody left, no
\* token, or a request that does not fit and has been looked up.
Stopped(t) ==
    \/ slots = MaxSeqs
    \/ slots = Width
    \/ t = 0
    \/ /\ slots >= Len(running) /\ slots < Width
       /\ looked[Line(slots + 1)]
       /\ Remaining(Line(slots + 1)) > 0
       /\ Planned(Line(slots + 1), t) = 0

\* Where the loops of the frontier and of the scheduler are on that course.
Position(b) ==
    /\ slots <= Width
    /\ phase = "planRunning" => /\ slots = idx - 1 /\ slots <= Len(running)
                                /\ tok = b[slots] /\ tok > 0
    /\ phase = "planWaiting" => slots = Len(running) + idx - 1 /\ tok = b[slots]
    /\ phase \in {"planned", "schedRunning", "schedWaiting"} => Stopped(b[slots])
    /\ phase = "planned" => slices = <<>>
    /\ phase \in {"schedRunning", "schedWaiting"} =>
           /\ Len(slices) <= slots
           /\ Len(slices) <= Len(running)
           /\ tok = b[Len(slices)]
           /\ Width > 0
    /\ phase = "schedRunning" => idx = Len(slices) + 1
    /\ phase = "schedWaiting" /\ Len(slices) < slots => Len(slices) = Len(running)

OnCourse == phase \in {"planRunning", "planWaiting", "planned", "schedRunning", "schedWaiting"}

CourseInv == OnCourse => \E l, b : Course(l, b) /\ Position(b)

\* Once the batch is built, all the counted requests run.
SlotsInv ==
    /\ phase = "estimate" => Len(slices) = slots
    /\ phase \in {"estimate", "apply"} => slots <= Len(running)

\* Without chunked prefill a running request finishes with its slice.
WholeInv ==
    ~Chunked =>
        \A r \in Requests : status[r] = "running" =>
            \E i \in DOMAIN slices : /\ Unapplied(i) /\ slices[i].req = r
                                     /\ slices[i].before + slices[i].tokens = Tokens(r)

\* Which waiting requests may have been looked up: the head, those the frontier
\* has counted, and the one at which it is or at which it stopped.
LookAheadInv ==
    \A j \in DOMAIN waiting : looked[waiting[j]] =>
        /\ phase \in {"arrive", "planRunning"} => j = 1 /\ Remaining(waiting[j]) > 0
        /\ phase = "planWaiting" => \/ j = 1 /\ Remaining(waiting[j]) > 0
                                    \/ j < idx
                                    \/ j = idx /\ slots < MaxSeqs
        /\ phase \in {"planned", "schedRunning", "schedWaiting", "estimate", "apply"}
             /\ Len(running) + j > slots
             => Remaining(waiting[j]) > 0 /\ (j = 1 \/ Len(running) + j = slots + 1)

\* When requests are scheduled: never in the future, and no request after a
\* later one.
TimesInv ==
    /\ \A r \in Requests : firstAt[r] <= now
    /\ phase = "apply" => now <= finishMs
    /\ \A r, s \in Requests :
           r < s /\ firstAt[r] # Unset /\ firstAt[s] # Unset => firstAt[r] <= firstAt[s]

\* A request is scheduled while an earlier one waits only in the iteration whose
\* frontier has counted the earlier one.
PassedInv ==
    \A j \in DOMAIN waiting, s \in Requests :
        waiting[j] < s /\ firstAt[s] # Unset =>
            /\ firstAt[s] = now
            /\ Len(running) + j <= slots
            /\ phase \notin {"arrive", "planRunning"}

-----------------------------------------------------------------------------
(* Without chunked prefill nobody runs for longer than one iteration.        *)

LEMMA WholeStep ==
    ASSUME BatchInv, WholeInv, [Next]_vars
    PROVE  WholeInv'
<1>t. /\ status \in [Requests -> {"pending", "waiting", "running", "finished"}]
      /\ computed \in [Requests -> Nat] /\ idx \in Nat \ {0}
      /\ slices \in Seq(Slices) /\ TypeOK /\ tok \in Nat /\ tok <= MaxBatchedTokens
  BY SchedulerAssumption DEF BatchInv, TypeInv, TypeOK
<1>l. Len(slices) \in Nat /\ DOMAIN slices = 1..Len(slices)
  BY <1>t
<1>2. prompt' = prompt BY InputsFrame
<1> SUFFICES ASSUME ~Chunked, NEW r \in Requests, status'[r] = "running"
             PROVE  \E i \in DOMAIN slices' :
                        /\ Unapplied(i)' /\ slices'[i].req = r
                        /\ slices'[i].before + slices'[i].tokens = Tokens(r)
  BY <1>2 DEF WholeInv, Tokens
<1>1. status[r] = "running" =>
          \E i \in DOMAIN slices : /\ Unapplied(i) /\ slices[i].req = r
                                   /\ slices[i].before + slices[i].tokens = Tokens(r)
  BY DEF WholeInv
<1>3. CASE ScheduleRunning \/ AdmitWaiting
  <2>1. /\ phase' # "apply" /\ phase # "apply"
        /\ ScheduleRunning => status' = status
        /\ AdmitWaiting => status' = [status EXCEPT ![Head(waiting)] = "running"]
        /\ ~(ScheduleRunning /\ AdmitWaiting)
    BY <1>3 DEF ScheduleRunning, AdmitWaiting
  <2>2. \A i : Unapplied(i)' BY <2>1 DEF Unapplied
  <2>3. CASE status[r] = "running"
    <3>1. PICK i \in DOMAIN slices : /\ slices[i].req = r
                                     /\ slices[i].before + slices[i].tokens = Tokens(r)
      BY <1>1, <2>3
    <3>2. i \in DOMAIN slices' /\ slices'[i] = slices[i]
      <4>1. ASSUME NEW sl \in Slices, slices' = Append(slices, sl)
          PROVE  i \in DOMAIN slices' /\ slices'[i] = slices[i]
        BY <1>t, <1>l, <4>1
      <4> QED BY <1>3, <4>1, SliceAdded
    <3> QED BY <2>2, <3>1, <3>2
  <2>4. CASE status[r] # "running"
    <3>1. AdmitWaiting /\ r = Head(waiting) /\ status[r] = "waiting"
      <4>1. AdmitWaiting /\ r = Head(waiting) BY <1>3, <1>t, <2>1, <2>4
      <4> QED BY <4>1, AdmittedRequest
    <3>2. PICK t \in Nat : t = Planned(r, tok) BY <1>t, PlannedBounds
    <3> DEFINE sl == SliceFor(r, t)
    <3>3. sl.req = r /\ sl.before = computed[r] /\ sl.tokens = t BY DEF SliceFor
    <3>4. sl \in Slices
      BY DEF SliceFor, Slices, BatchInv, TypeInv, TypeOK
    <3>5. slices' = Append(slices, sl) /\ (t > 0 \/ CanScheduleLoadOnly(r))
      BY <3>1, <3>2 DEF AdmitWaiting, CanAdmit
    <3> HIDE DEF sl
    <3>6. Len(slices) + 1 \in DOMAIN slices' /\ slices'[Len(slices) + 1] = sl
      BY <1>t, <1>l, <3>4, <3>5
    <3>7. computed[r] \in Nat /\ Tokens(r) \in Nat BY <1>t, PromptType
    <3>8. computed[r] + t = Tokens(r)
      <4>1. CASE t > 0
        <5>1. t = Remaining(r) BY <1>t, <3>2, <4>1, PlannedBounds
        <5> QED BY <3>7, <5>1 DEF Remaining
      <4>2. CASE t = 0 BY <3>5, <3>7, <4>2 DEF CanScheduleLoadOnly, Remaining
      <4> QED BY <4>1, <4>2
    <3> QED BY <2>2, <3>3, <3>6, <3>8
  <2> QED BY <2>3, <2>4
<1>4. CASE ApplySlice
  <2>1. PICK q \in Requests, c \in Nat :
               /\ q = slices[idx].req
               /\ c = slices[idx].before + slices[idx].tokens
               /\ status[q] = "running"
               /\ c = Tokens(q) => status' = [status EXCEPT ![q] = "finished"]
               /\ c # Tokens(q) => status' = status
    BY <1>4, AppliedSlice DEF ApplySlice
  <2>2. /\ phase = "apply" /\ phase' = "apply" /\ slices' = slices /\ idx' = idx + 1
        /\ idx \in DOMAIN slices
    BY <1>4, AppliedSlice DEF ApplySlice
  <2>3. status[r] = "running" BY <1>t, <2>1
  <2>4. PICK i \in DOMAIN slices : /\ Unapplied(i) /\ slices[i].req = r
                                   /\ slices[i].before + slices[i].tokens = Tokens(r)
    BY <1>1, <2>3
  <2>5. i # idx
    <3> SUFFICES ASSUME i = idx PROVE FALSE
      OBVIOUS
    <3>1. q = r /\ c = Tokens(q) BY <2>1, <2>4
    <3> QED BY <1>t, <2>1, <3>1
  <2>6. i >= idx + 1 BY <1>t, <1>l, <2>2, <2>4, <2>5 DEF Unapplied
  <2> QED BY <2>2, <2>4, <2>6 DEF Unapplied
<1>5. CASE EndIteration
  <2>1. status' = status /\ phase = "apply" /\ idx > Len(slices)
    BY <1>5 DEF EndIteration
  <2>2. PICK i \in DOMAIN slices : Unapplied(i) BY <1>1, <2>1
  <2> QED BY <1>t, <1>l, <2>1, <2>2 DEF Unapplied
<1>6. CASE ~ScheduleRunning /\ ~AdmitWaiting /\ ~ApplySlice /\ ~EndIteration
  <2>1. slices' = slices
    <3>1. ~Scheduling => slices = <<>> BY DEF BatchInv, SliceInv
    <3>2. CASE BeginSchedule BY <3>1, <3>2 DEF BeginSchedule, Scheduling
    <3>3. CASE ~BeginSchedule BY <1>6, <3>3, BudgetFrame
    <3> QED BY <3>2, <3>3
  <2>2. status[r] = "running"
    <3>1. CASE Arrive BY <1>t, <3>1 DEF Arrive
    <3>2. CASE FinishZeroMiss BY <1>t, <3>2 DEF FinishZeroMiss
    <3>3. CASE ~Arrive /\ ~FinishZeroMiss BY <1>6, <3>3, StatusFrame
    <3> QED BY <3>1, <3>2, <3>3
  <2>3. PICK i \in DOMAIN slices : /\ Unapplied(i) /\ slices[i].req = r
                                   /\ slices[i].before + slices[i].tokens = Tokens(r)
    BY <1>1, <2>2
  <2>4. Unapplied(i)'
    <3>1. phase' = "apply" => (phase = "apply" /\ idx' = idx) \/ idx' = 1
      <4>1. CASE BeginSchedule BY <4>1 DEF BeginSchedule
      <4>2. CASE ~BeginSchedule BY <1>6, <4>2, BudgetFrame
      <4> QED BY <4>1, <4>2
    <3> QED BY <1>l, <2>3, <3>1 DEF Unapplied
  <2> QED BY <2>1, <2>3, <2>4
<1> QED BY <1>3, <1>4, <1>5, <1>6

\* So between two batches the running list is empty.
LEMMA NobodyRuns ==
    ASSUME BatchInv, WholeInv, ~Chunked, ~Scheduling
    PROVE  running = <<>>
<1>1. running \in Seq(Requests) /\ slices = <<>>
  BY DEF BatchInv, TypeInv, TypeOK, SliceInv
<1>2. ASSUME NEW i \in DOMAIN running PROVE FALSE
  <2>1. running[i] \in Requests /\ status[running[i]] = "running"
    BY <1>1 DEF BatchInv, RunningInv, Scheduling
  <2> QED BY <1>1, <2>1 DEF WholeInv
<1>3. Len(running) = 0
  <2>1. Len(running) \in Nat /\ DOMAIN running = 1..Len(running) BY <1>1
  <2>2. Len(running) >= 1 => 1 \in DOMAIN running BY <2>1
  <2> QED BY <1>2, <2>1, <2>2
<1> QED BY <1>1, <1>3

-----------------------------------------------------------------------------
(* The course of the frontier.                                               *)

\* What planned_prefill_tokens returns depends on the progress of the request.
LEMMA PlannedKept ==
    ASSUME prompt' = prompt, NEW r, computed'[r] = computed[r]
    PROVE  /\ Remaining(r)' = Remaining(r)
           /\ \A t : Planned(r, t)' = Planned(r, t)
BY DEF Planned, Remaining, Tokens

\* A step keeps the course if it keeps the counted part of the line, and the
\* loads of the requests that have no slice yet.
LEMMA CourseKept ==
    ASSUME NEW l, NEW b, Course(l, b),
           slots \in Nat, slots' = slots, prompt' = prompt,
           \A k \in 1..slots :
               /\ Line(k)' = Line(k)
               /\ computed'[l[k]] = computed[l[k]]
               /\ looked'[l[k]]
               /\ k > Len(slices') => k > Len(slices) /\ owes'[l[k]] = owes[l[k]]
    PROVE  Course(l, b)'
<1>1. /\ l \in [1..slots' -> Requests] /\ b \in [0..slots' -> 0..MaxBatchedTokens]
      /\ b[0] = MaxBatchedTokens
  BY DEF Course
<1>2. ASSUME NEW k \in 1..slots
      PROVE  /\ l[k] = Line(k)'
             /\ b[k] = b[k - 1] - Planned(l[k], b[k - 1])'
             /\ k > Len(slices') => CanTake(l[k], b[k - 1])'
  <2>1. PICK r : r = l[k] OBVIOUS
  <2>2. PICK t : t = b[k - 1] OBVIOUS
  <2>3. Remaining(r)' = Remaining(r) /\ Planned(r, t)' = Planned(r, t)
    BY <2>1, PlannedKept
  <2>4. r = Line(k) /\ b[k] = t - Planned(r, t) /\ (k > Len(slices) => CanTake(r, t))
    BY <2>1, <2>2 DEF Course
  <2>5. k > Len(slices') => CanTake(r, t)'
    <3>1. k > Len(slices') => k > Len(slices) /\ owes'[r] = owes[r] BY <2>1
    <3> QED BY <2>3, <2>4, <3>1 DEF CanTake, CanScheduleLoadOnly, OwesLoad
  <2> QED BY <2>1, <2>2, <2>3, <2>4, <2>5
<1> QED BY <1>1, <1>2 DEF Course

\* Counting the next request of the line extends the course.
LEMMA CourseExtends ==
    ASSUME BatchInv, NEW l, NEW b, Course(l, b),
           slots \in Nat, slots' = slots + 1,
           UNCHANGED <<prompt, running, waiting, computed, looked, owes, slices>>,
           NEW x \in Requests, x = Line(slots + 1), looked[x], CanTake(x, b[slots])
    PROVE  \E m, c : Course(m, c)' /\ c[slots + 1] = b[slots] - Planned(x, b[slots])
<1>1. PICK n \in Nat : n = slots OBVIOUS
<1>2. /\ l \in [1..n -> Requests] /\ b \in [0..n -> 0..MaxBatchedTokens]
      /\ b[0] = MaxBatchedTokens
  BY <1>1 DEF Course
<1> DEFINE left == b[n] - Planned(x, b[n])
<1>3. left \in 0..MaxBatchedTokens
  <2>1. TypeOK BY DEF BatchInv, TypeInv
  <2>2. PICK t \in Nat : t = b[n] /\ t <= MaxBatchedTokens BY <1>2, SchedulerAssumption
  <2>3. Planned(x, t) \in Nat /\ Planned(x, t) <= t BY <2>1, PlannedBounds
  <2> QED BY <2>2, <2>3, SchedulerAssumption
<1> HIDE DEF left
<1>4. PICK m \in [1..(n + 1) -> Requests] :
          m[n + 1] = x /\ \A k \in 1..n : m[k] = l[k]
  <2> DEFINE f == [k \in 1..(n + 1) |-> IF k = n + 1 THEN x ELSE l[k]]
  <2>1. f \in [1..(n + 1) -> Requests] BY <1>2
  <2>2. f[n + 1] = x /\ \A k \in 1..n : f[k] = l[k] OBVIOUS
  <2> HIDE DEF f
  <2> QED BY <2>1, <2>2
<1>5. PICK c \in [0..(n + 1) -> 0..MaxBatchedTokens] :
          c[n + 1] = left /\ \A k \in 0..n : c[k] = b[k]
  <2> DEFINE f == [k \in 0..(n + 1) |-> IF k = n + 1 THEN left ELSE b[k]]
  <2>1. f \in [0..(n + 1) -> 0..MaxBatchedTokens] BY <1>2, <1>3
  <2>2. f[n + 1] = left /\ \A k \in 0..n : f[k] = b[k] OBVIOUS
  <2> HIDE DEF f
  <2> QED BY <2>1, <2>2
<1>6. ASSUME NEW k \in 1..(n + 1)
      PROVE  /\ m[k] = Line(k)'
             /\ looked'[m[k]]
             /\ c[k] = c[k - 1] - Planned(m[k], c[k - 1])'
             /\ k > Len(slices') => CanTake(m[k], c[k - 1])'
  <2>1. PICK r : r = m[k] OBVIOUS
  <2>2. PICK t : t = c[k - 1] OBVIOUS
  <2>3. Remaining(r)' = Remaining(r) /\ Planned(r, t)' = Planned(r, t)
    BY PlannedKept
  <2>4. CanTake(r, t)' <=> CanTake(r, t)
    BY <2>3 DEF CanTake, CanScheduleLoadOnly, OwesLoad
  <2>5. /\ r = Line(k) /\ looked[r] /\ c[k] = t - Planned(r, t)
        /\ k > Len(slices) => CanTake(r, t)
    <3>1. CASE k = n + 1
      <4>1. r = x /\ t = b[n] /\ c[k] = left
        <5>1. k - 1 = n /\ n \in 0..n BY <3>1
        <5> QED BY <1>4, <1>5, <2>1, <2>2, <3>1, <5>1
      <4> QED BY <1>1, <3>1, <4>1 DEF left
    <3>2. CASE k \in 1..n
      <4>1. r = l[k] /\ t = b[k - 1] /\ c[k] = b[k]
        <5>1. k - 1 \in 0..n /\ k \in 0..n BY <3>2
        <5> QED BY <1>4, <1>5, <2>1, <2>2, <3>2, <5>1
      <4> QED BY <1>1, <3>2, <4>1 DEF Course
    <3> QED BY <3>1, <3>2
  <2>6. Line(k)' = Line(k) BY DEF Line
  <2> QED BY <2>1, <2>2, <2>3, <2>4, <2>5, <2>6
<1>7. c[0] = MaxBatchedTokens
  <2>1. 0 \in 0..n OBVIOUS
  <2> QED BY <1>2, <1>5, <2>1
<1>8. slots' = n + 1 BY <1>1
<1>9. Course(m, c)' BY <1>4, <1>5, <1>6, <1>7, <1>8 DEF Course
<1>10. c[slots + 1] = b[slots] - Planned(x, b[slots]) BY <1>1, <1>5 DEF left
<1> QED BY <1>9, <1>10


LEMMA FrontierTypes ==
    ASSUME TypeOK
    PROVE  /\ slots \in Nat /\ slots <= MaxSeqs /\ idx \in Nat /\ idx >= 1
           /\ tok \in Nat /\ tok <= MaxBatchedTokens
           /\ waiting \in Seq(Requests) /\ running \in Seq(Requests) /\ slices \in Seq(Slices)
           /\ Len(waiting) \in Nat /\ Len(running) \in Nat /\ Len(slices) \in Nat
           /\ Width = Len(running) + Len(waiting)
           /\ \A k \in 1..Width : Line(k) \in Requests
           /\ \A k \in 1..Len(running) : Line(k) = running[k]
           /\ \A j \in 1..Len(waiting) : Line(Len(running) + j) = waiting[j]
           /\ MaxSeqs \in Nat /\ MaxSeqs >= 1
           /\ MaxBatchedTokens \in Nat /\ MaxBatchedTokens >= 1
<1>1. /\ slots \in 0..MaxSeqs /\ idx \in Nat \ {0} /\ tok \in 0..MaxBatchedTokens
      /\ waiting \in Seq(Requests) /\ running \in Seq(Requests) /\ slices \in Seq(Slices)
  BY DEF TypeOK
<1>2. PICK m \in Nat, n \in Nat : m = Len(running) /\ n = Len(waiting)
  BY <1>1, LenProperties
<1>3. Len(slices) \in Nat BY <1>1
<1>4. \A k \in 1..m : running[k] \in Requests BY <1>1, <1>2
<1>5. \A k \in 1..n : waiting[k] \in Requests BY <1>1, <1>2
<1>6. ASSUME NEW k \in 1..(m + n) PROVE Line(k) \in Requests
  <2>1. k <= m => k \in 1..m OBVIOUS
  <2>2. ~(k <= m) => k - m \in 1..n OBVIOUS
  <2> QED BY <1>2, <1>4, <1>5, <2>1, <2>2 DEF Line
<1>7. \A k \in 1..m : Line(k) = running[k] BY <1>2 DEF Line
<1>8. ASSUME NEW j \in 1..n PROVE Line(m + j) = waiting[j]
  <2>1. ~(m + j <= m) /\ (m + j) - m = j OBVIOUS
  <2> QED BY <1>2, <2>1 DEF Line
<1> QED BY <1>1, <1>2, <1>3, <1>6, <1>7, <1>8, SchedulerAssumption DEF Width

\* The frontier stays stopped as long as the request at which it stopped, if
\* there is one, stays where it is.
LEMMA StoppedKept ==
    ASSUME NEW t, Stopped(t), slots' = slots, Width' = Width, prompt' = prompt,
           slots >= Len(running) => slots >= Len(running'),
           slots < Width => /\ Line(slots + 1)' = Line(slots + 1)
                            /\ computed'[Line(slots + 1)] = computed[Line(slots + 1)]
                            /\ looked'[Line(slots + 1)] = looked[Line(slots + 1)]
    PROVE  Stopped(t)'
<1>1. CASE slots = MaxSeqs \/ slots = Width \/ t = 0 BY <1>1 DEF Stopped
<1>2. CASE ~(slots = MaxSeqs \/ slots = Width \/ t = 0)
  <2>1. PICK x : x = Line(slots + 1) OBVIOUS
  <2>2. /\ slots >= Len(running) /\ slots < Width
        /\ looked[x] /\ Remaining(x) > 0 /\ Planned(x, t) = 0
    BY <1>2, <2>1 DEF Stopped
  <2>3. Remaining(x)' = Remaining(x) /\ Planned(x, t)' = Planned(x, t)
    BY <2>1, <2>2, PlannedKept
  <2>4. Line(slots + 1)' = x BY <2>1, <2>2
  <2>5. looked'[x] BY <2>1, <2>2
  <2> QED BY <2>2, <2>3, <2>4, <2>5 DEF Stopped
<1> QED BY <1>1, <1>2

\* The frontier over the running requests: each of them gets a slice.
LEMMA FrontierRunning ==
    ASSUME BatchInv, WholeInv, CourseInv, [Next]_vars,
           BeginFrontier \/ PlanRunning \/ PlanRunningDone
    PROVE  CourseInv'
<1>t. /\ slots \in Nat /\ slots <= MaxSeqs /\ idx \in Nat /\ idx >= 1
      /\ tok \in Nat /\ tok <= MaxBatchedTokens
      /\ Len(waiting) \in Nat /\ Len(running) \in Nat
      /\ Width = Len(running) + Len(waiting)
      /\ MaxSeqs \in Nat /\ MaxBatchedTokens \in Nat /\ MaxBatchedTokens >= 1
      /\ \A k \in 1..Len(running) : Line(k) = running[k] /\ running[k] \in Requests
      /\ running \in Seq(Requests) /\ TypeOK
  <2>1. TypeOK BY DEF BatchInv, TypeInv
  <2>2. \A k \in 1..Len(running) : running[k] \in Requests BY <2>1, FrontierTypes
  <2> QED BY <2>1, <2>2, FrontierTypes
<1>1. CASE BeginFrontier
  <2>1. /\ phase' = "planRunning" /\ tok' = MaxBatchedTokens /\ slots' = 0 /\ idx' = 1
        /\ running' = running /\ waiting' = waiting
    BY <1>1 DEF BeginFrontier, queues
  <2>2. PICK l : l \in [1..0 -> Requests]
    <3>1. [k \in 1..0 |-> 1] \in [1..0 -> Requests] OBVIOUS
    <3> QED BY <3>1
  <2>3. PICK b : b \in [0..0 -> 0..MaxBatchedTokens] /\ b[0] = MaxBatchedTokens
    <3>1. [k \in 0..0 |-> MaxBatchedTokens] \in [0..0 -> 0..MaxBatchedTokens] BY <1>t
    <3>2. [k \in 0..0 |-> MaxBatchedTokens][0] = MaxBatchedTokens OBVIOUS
    <3> QED BY <3>1, <3>2
  <2>4. Course(l, b)'
    <3>1. \A k \in 1..slots' : FALSE BY <2>1
    <3> QED BY <2>1, <2>2, <2>3, <3>1 DEF Course
  <2>5. Position(b)' BY <1>t, <2>1, <2>3 DEF Position, Width
  <2> QED BY <2>4, <2>5 DEF CourseInv
<1>2. ASSUME PlanRunning \/ PlanRunningDone
      PROVE  \E l, b : /\ Course(l, b) /\ slots = idx - 1 /\ slots <= Len(running)
                       /\ tok = b[slots] /\ tok > 0
  <2>1. phase = "planRunning" BY <1>2 DEF PlanRunning, PlanRunningDone
  <2> QED BY <2>1 DEF CourseInv, OnCourse, Position
<1>3. CASE PlanRunning
  <2>1. PICK l, b : /\ Course(l, b) /\ slots = idx - 1 /\ slots <= Len(running)
                    /\ tok = b[slots] /\ tok > 0
    BY <1>2, <1>3
  <2>2. phase = "planRunning" /\ idx \in 1..Len(running) BY <1>t, <1>3 DEF PlanRunning
  <2>3. PICK r \in Requests : r = running[idx] BY <1>t, <2>2
  <2>4. r = Line(slots + 1)
    <3>1. slots + 1 = idx BY <1>t, <2>1
    <3> QED BY <1>t, <2>2, <2>3, <3>1
  <2>5. looked[r] /\ Remaining(r) > 0 /\ Remaining(r) \in Int
    <3>1. RunningPrepared BY PreparedEverywhere
    <3> QED BY <1>t, <2>2, <2>3, <3>1, PromptType DEF RunningPrepared
  <2>6. PICK t \in Nat : t = Planned(r, tok) /\ t <= tok BY <1>t, PlannedBounds
  <2>7. t > 0
    <3> SUFFICES ASSUME t = 0 PROVE FALSE
      BY <2>6
    <3>1. ~Chunked BY <1>t, <2>1, <2>5, <2>6, PlannedBounds
    <3>2. running = <<>> BY <2>2, <3>1, NobodyRuns DEF Scheduling
    <3> QED BY <2>2, <3>2
  <2>8. /\ tok' = tok - t /\ slots' = slots + 1 /\ idx' = idx + 1
        /\ UNCHANGED <<prompt, running, waiting, computed, looked, owes, slices>>
        /\ phase' = IF slots + 1 >= MaxSeqs \/ tok - t <= 0
                    THEN "planned" ELSE "planRunning"
    BY <1>3, <2>3, <2>6, <2>7
       DEF PlanRunning, inputs, queues, progress, lookups
  <2>9. PICK m, c : Course(m, c)' /\ c[slots + 1] = b[slots] - Planned(r, b[slots])
    <3>1. CanTake(r, b[slots]) BY <2>1, <2>6, <2>7 DEF CanTake
    <3> QED BY <1>t, <2>1, <2>4, <2>5, <2>8, <3>1, CourseExtends
  <2>10. tok' = c[slots'] BY <2>1, <2>6, <2>8, <2>9
  <2>11. slots' <= Len(running') /\ slots' = idx' - 1 /\ slots' <= Width'
    BY <1>t, <2>1, <2>2, <2>8 DEF Width
  <2>12. phase' = "planned" => Stopped(c[slots])' /\ slices' = <<>>
    <3>1. slices' = <<>> BY <2>2, <2>8 DEF BatchInv, SliceInv, Scheduling
    <3>2. CASE slots + 1 >= MaxSeqs
      <4>1. slots < MaxSeqs BY <2>2 DEF BatchInv, TypeInv, SlotsLeft
      <4>2. slots' = MaxSeqs BY <1>t, <2>8, <3>2, <4>1
      <4> QED BY <3>1, <4>2 DEF Stopped
    <3>3. CASE tok - t <= 0
      <4>1. c[slots'] = 0 BY <1>t, <2>6, <2>8, <2>10, <3>3
      <4> QED BY <3>1, <4>1 DEF Stopped
    <3> QED BY <2>8, <3>2, <3>3
  <2>13. phase' = "planRunning" => tok' > 0 BY <1>t, <2>6, <2>8
  <2>14. phase' \in {"planned", "planRunning"} BY <2>8
  <2>15. Position(c)' BY <2>10, <2>11, <2>12, <2>13, <2>14 DEF Position
  <2> QED BY <2>9, <2>15 DEF CourseInv
<1>4. CASE PlanRunningDone
  <2>1. PICK l, b : /\ Course(l, b) /\ slots = idx - 1 /\ slots <= Len(running)
                    /\ tok = b[slots]
    BY <1>2, <1>4
  <2>2. /\ idx > Len(running) /\ phase' = "planWaiting" /\ idx' = 1
        /\ slots' = slots /\ tok' = tok
        /\ UNCHANGED <<prompt, running, waiting, computed, looked, owes, slices>>
    BY <1>4 DEF PlanRunningDone, inputs, queues, progress, lookups
  <2>3. Course(l, b)' BY <2>1, <2>2 DEF Course, Line, CanTake, Planned, Remaining, Tokens,
                                         CanScheduleLoadOnly, OwesLoad
  <2>4. slots' <= Width' /\ slots' = Len(running') + idx' - 1 /\ tok' = b[slots']
    BY <1>t, <2>1, <2>2 DEF Width
  <2>5. Position(b)' BY <2>2, <2>4 DEF Position
  <2> QED BY <2>3, <2>5 DEF CourseInv
<1> QED BY <1>1, <1>3, <1>4


\* The frontier over the waiting requests: lookups, the fast path, the counted
\* requests, and the one at which it stops.
LEMMA FrontierWaiting ==
    ASSUME BatchInv, CourseInv, [Next]_vars,
           LookupWaiting \/ FinishZeroMiss \/ PlanWaiting \/ PlanWaitingDone
    PROVE  CourseInv'
<1>t. /\ slots \in Nat /\ slots <= MaxSeqs /\ idx \in Nat /\ idx >= 1
      /\ tok \in Nat /\ tok <= MaxBatchedTokens
      /\ waiting \in Seq(Requests)
      /\ Len(waiting) \in Nat /\ Len(running) \in Nat
      /\ Width = Len(running) + Len(waiting)
      /\ MaxSeqs \in Nat
      /\ \A k \in 1..Width : Line(k) \in Requests
      /\ \A j \in 1..Len(waiting) : Line(Len(running) + j) = waiting[j]
      /\ TypeOK
  <2>1. TypeOK BY DEF BatchInv, TypeInv
  <2> QED BY <2>1, FrontierTypes
<1>0. phase = "planWaiting"
  BY DEF LookupWaiting, FinishZeroMiss, PlanWaiting, PlanWaitingDone, PlanningWaiting
<1>1. PICK l, b : /\ Course(l, b) /\ slots <= Width
                  /\ slots = Len(running) + idx - 1 /\ tok = b[slots]
  BY <1>0 DEF CourseInv, OnCourse, Position
<1>2. slices = <<>> BY <1>0 DEF BatchInv, SliceInv, Scheduling
<1>3. prompt' = prompt BY InputsFrame
<1>4. CASE LookupWaiting
  <2>1. PICK r \in Requests :
               /\ ~looked[r]
               /\ looked' = [looked EXCEPT ![r] = TRUE]
               /\ \A q \in Requests \ {r} : computed'[q] = computed[q] /\ owes'[q] = owes[q]
               /\ UNCHANGED <<queues, phase, budget>>
    <3>1. PICK r \in Requests : r = waiting[idx]
      BY <1>4, FrontierRequest DEF LookupWaiting
    <3>2. EnsureLookup(r) BY <1>4, <3>1 DEF LookupWaiting
    <3>3. computed \in [Requests -> Nat] /\ owes \in [Requests -> Nat] BY <1>t DEF TypeOK
    <3> QED BY <3>2, <3>3 DEF EnsureLookup, NeedsLookup
  <2>2. /\ slots' = slots /\ tok' = tok /\ idx' = idx /\ slices' = slices /\ phase' = phase
        /\ running' = running /\ waiting' = waiting
    BY <2>1 DEF queues, budget
  <2>3. ASSUME NEW k \in 1..slots
        PROVE  /\ Line(k)' = Line(k)
               /\ computed'[l[k]] = computed[l[k]] /\ looked'[l[k]]
               /\ owes'[l[k]] = owes[l[k]]
    <3>1. looked[l[k]] /\ l[k] \in Requests BY <1>1 DEF Course
    <3>2. l[k] # r BY <2>1, <3>1
    <3> QED BY <1>t, <2>1, <2>2, <3>1, <3>2 DEF Line, TypeOK
  <2>4. Course(l, b)' BY <1>t, <1>1, <1>3, <2>2, <2>3, CourseKept
  <2>5. Position(b)' BY <1>0, <1>1, <2>2 DEF Position, Width
  <2> QED BY <2>4, <2>5 DEF CourseInv
<1>5. CASE FinishZeroMiss
  <2>1. idx \in 1..Len(waiting) BY <1>5, FrontierRequest DEF FinishZeroMiss
  <2>2. /\ slots' = slots /\ tok' = tok /\ idx' = idx /\ slices' = slices /\ phase' = phase
        /\ running' = running /\ computed' = computed /\ looked' = looked /\ owes' = owes
        /\ waiting' = SubSeq(waiting, 1, idx - 1) \o SubSeq(waiting, idx + 1, Len(waiting))
    BY <1>5 DEF FinishZeroMiss, lookups, budget
  <2>3. /\ Len(waiting') = Len(waiting) - 1
        /\ \A j \in 1..(Len(waiting) - 1) :
               waiting'[j] = IF j < idx THEN waiting[j] ELSE waiting[j + 1]
    BY <1>t, <2>1, <2>2, WithoutType
  <2>4. ASSUME NEW k \in 1..slots PROVE Line(k)' = Line(k)
    <3>1. CASE k <= Len(running) BY <2>2, <3>1 DEF Line
    <3>2. CASE ~(k <= Len(running))
      <4>1. k - Len(running) \in 1..(Len(waiting) - 1) /\ k - Len(running) < idx
        BY <1>t, <1>1, <2>1, <3>2
      <4>2. waiting'[k - Len(running)] = waiting[k - Len(running)] BY <2>3, <4>1
      <4> QED BY <2>2, <3>2, <4>2 DEF Line
    <3> QED BY <3>1, <3>2
  <2>5. Course(l, b)'
    <3>1. \A k \in 1..slots : looked[l[k]] BY <1>1 DEF Course
    <3> QED BY <1>t, <1>1, <1>3, <2>2, <2>4, <3>1, CourseKept
  <2>6. slots' <= Width'
    <3>1. Width' = Len(running) + Len(waiting) - 1 BY <1>t, <2>2, <2>3 DEF Width
    <3> QED BY <1>t, <1>1, <2>1, <2>2, <3>1
  <2>7. Position(b)' BY <1>0, <1>1, <2>2, <2>6 DEF Position
  <2> QED BY <2>5, <2>7 DEF CourseInv
<1>6. CASE PlanWaiting
  <2>1. idx \in 1..Len(waiting) BY <1>6, FrontierRequest DEF PlanWaiting
  <2>2. PICK r \in Requests : r = waiting[idx] BY <1>t, <2>1
  <2>3. r = Line(slots + 1) /\ slots + 1 <= Width
    <3>1. slots + 1 = Len(running) + idx BY <1>t, <1>1, <2>1
    <3> QED BY <1>t, <2>1, <2>2, <3>1
  <2>4. PICK t \in Nat : t = Planned(r, tok) BY <1>t, PlannedBounds
  <2>5. /\ UNCHANGED <<prompt, running, waiting, computed, looked, owes, slices>>
        /\ looked[r] /\ (Remaining(r) > 0 \/ OwesLoad(r)) /\ slots < MaxSeqs
    BY <1>6, <2>2 DEF PlanWaiting, PlanningWaiting, inputs, queues, progress, lookups
  <2>6. CASE t > 0 \/ CanScheduleLoadOnly(r)
    <3>1. tok' = tok - t /\ slots' = slots + 1 /\ idx' = idx + 1 /\ phase' = phase
      BY <1>6, <2>2, <2>4, <2>6 DEF PlanWaiting
    <3>2. CanTake(r, b[slots]) BY <1>1, <2>4, <2>6 DEF CanTake
    <3>3. PICK m, c : Course(m, c)' /\ c[slots + 1] = b[slots] - Planned(r, b[slots])
      BY <1>t, <1>1, <2>3, <2>5, <3>1, <3>2, CourseExtends
    <3>4. tok' = c[slots'] BY <1>1, <2>4, <3>1, <3>3
    <3>5. slots' <= Width' /\ slots' = Len(running') + idx' - 1
      BY <1>t, <1>1, <2>1, <2>5, <3>1 DEF Width
    <3>6. Position(c)' BY <1>0, <3>1, <3>4, <3>5 DEF Position
    <3> QED BY <3>3, <3>6 DEF CourseInv
  <2>7. CASE ~(t > 0 \/ CanScheduleLoadOnly(r))
    <3>1. phase' = "planned" /\ UNCHANGED <<tok, slots, idx>>
      BY <1>6, <2>2, <2>4, <2>7 DEF PlanWaiting
    <3>2. \A k \in 1..slots : looked[l[k]] BY <1>1 DEF Course
    <3>3. Course(l, b)' BY <1>t, <1>1, <2>5, <3>1, <3>2, CourseKept DEF Line
    <3>4. Remaining(r) > 0
      <4>1. computed[r] <= Tokens(r) /\ computed[r] \in Nat /\ Tokens(r) \in Nat
        BY <1>t, PromptType DEF TypeOK, BatchInv, Credits, Credit
      <4> QED BY <2>5, <2>7, <4>1 DEF Remaining, CanScheduleLoadOnly
    <3>5. Stopped(b[slots])
      <4>1. Planned(r, b[slots]) = 0 BY <1>1, <2>4, <2>7
      <4>2. slots >= Len(running) /\ slots < Width BY <1>t, <1>1, <2>1
      <4> QED BY <2>3, <2>5, <3>4, <4>1, <4>2 DEF Stopped
    <3>6. Stopped(b[slots])'
      <4>1. Width' = Width /\ Line(slots + 1)' = Line(slots + 1) /\ slots' = slots
        BY <2>5, <3>1 DEF Width, Line
      <4>2. PICK u : u = b[slots] OBVIOUS
      <4>3. Stopped(u)' BY <2>5, <3>5, <4>1, <4>2, StoppedKept
      <4> QED BY <4>1, <4>2, <4>3
    <3>7. slots' <= Width' /\ slices' = <<>> BY <1>1, <1>2, <2>5, <3>1 DEF Width
    <3>8. Position(b)' BY <3>1, <3>6, <3>7 DEF Position
    <3> QED BY <3>3, <3>8 DEF CourseInv
  <2> QED BY <2>6, <2>7
<1>7. CASE PlanWaitingDone
  <2>1. /\ UNCHANGED <<prompt, running, waiting, computed, looked, owes, slices, slots>>
        /\ phase' = "planned" /\ ~PlanningWaiting
    BY <1>7 DEF PlanWaitingDone, inputs, queues, progress, lookups, budget
  <2>2. Course(l, b)'
    <3>1. \A k \in 1..slots : looked[l[k]] BY <1>1 DEF Course
    <3> QED BY <1>t, <1>1, <2>1, <3>1, CourseKept DEF Line
  <2>3. slots = Width \/ slots = MaxSeqs
    <3>0. /\ slots \in Nat /\ idx \in Nat /\ slots <= MaxSeqs /\ MaxSeqs \in Nat
          /\ Len(waiting) \in Nat /\ Len(running) \in Nat
          /\ Width = Len(running) + Len(waiting)
          /\ slots <= Width /\ slots = Len(running) + idx - 1
      BY <1>t, <1>1
    <3>1. CASE idx > Len(waiting) BY <3>0, <3>1
    <3>2. CASE ~(slots < MaxSeqs) BY <3>0, <3>2
    <3> QED BY <1>0, <2>1, <3>0, <3>1, <3>2 DEF PlanningWaiting
  <2>4. Width' = Width /\ slots' = slots BY <2>1 DEF Width
  <2>5. Stopped(b[slots])' BY <2>3, <2>4 DEF Stopped
  <2>6. Position(b)' BY <1>1, <1>2, <2>1, <2>4, <2>5 DEF Position
  <2> QED BY <2>2, <2>6 DEF CourseInv
<1> QED BY <1>4, <1>5, <1>6, <1>7


\* The scheduler walks the same line: where it is on the course, and what the
\* frontier knows of the request it looks at.
LEMMA SchedulerOnCourse ==
    ASSUME BatchInv, CourseInv, phase \in {"schedRunning", "schedWaiting"}
    PROVE  \E l, b :
               /\ Course(l, b)
               /\ slots <= Width /\ Width > 0 /\ Stopped(b[slots])
               /\ Len(slices) <= slots /\ Len(slices) <= Len(running)
               /\ tok = b[Len(slices)]
               /\ phase = "schedRunning" => idx = Len(slices) + 1
               /\ phase = "schedWaiting" /\ Len(slices) < slots => Len(slices) = Len(running)
               /\ Len(slices) < slots =>
                      /\ l[Len(slices) + 1] = Line(Len(slices) + 1)
                      /\ looked[Line(Len(slices) + 1)]
                      /\ CanTake(Line(Len(slices) + 1), tok)
                      /\ b[Len(slices) + 1] = tok - Planned(Line(Len(slices) + 1), tok)
<1>1. PICK l, b : Course(l, b) /\ Position(b) BY DEF CourseInv, OnCourse
<1>2. slots \in Nat /\ Len(slices) \in Nat
  BY FrontierTypes DEF BatchInv, TypeInv
<1>3. /\ slots <= Width /\ Width > 0 /\ Stopped(b[slots])
      /\ Len(slices) <= slots /\ Len(slices) <= Len(running)
      /\ tok = b[Len(slices)]
      /\ phase = "schedRunning" => idx = Len(slices) + 1
      /\ phase = "schedWaiting" /\ Len(slices) < slots => Len(slices) = Len(running)
  BY <1>1 DEF Position
<1>4. ASSUME Len(slices) < slots
      PROVE  /\ l[Len(slices) + 1] = Line(Len(slices) + 1)
             /\ looked[Line(Len(slices) + 1)]
             /\ CanTake(Line(Len(slices) + 1), tok)
             /\ b[Len(slices) + 1] = tok - Planned(Line(Len(slices) + 1), tok)
  <2>1. PICK k \in 1..slots : k = Len(slices) + 1 BY <1>2, <1>4
  <2>2. k - 1 = Len(slices) /\ k > Len(slices) BY <1>2, <2>1
  <2> QED BY <1>1, <1>3, <2>1, <2>2 DEF Course
<1> QED BY <1>1, <1>3, <1>4

\* The head of the queue at the moment the scheduler has given a slice to every
\* request the frontier counted: it is not admitted.
LEMMA HeadStaysOut ==
    ASSUME BatchInv, LookAheadInv, NEW b, Stopped(b[slots]),
           phase = "schedWaiting", slots <= Width, slots <= Len(running),
           tok = b[slots], Len(slices) = slots
    PROVE  ~CanAdmit
<1> SUFFICES ASSUME CanAdmit PROVE FALSE
  OBVIOUS
<1>t. /\ slots \in Nat /\ tok \in Nat /\ waiting \in Seq(Requests)
      /\ Len(waiting) \in Nat /\ Len(running) \in Nat
      /\ Width = Len(running) + Len(waiting)
      /\ \A j \in 1..Len(waiting) : Line(Len(running) + j) = waiting[j]
  BY FrontierTypes DEF BatchInv, TypeInv
<1>1. PICK x : x = Head(waiting) OBVIOUS
<1>2. /\ waiting # <<>> /\ slots < MaxSeqs
      /\ tok > 0 \/ looked[x]
      /\ Planned(x, tok) > 0 \/ CanScheduleLoadOnly(x)
  BY <1>1 DEF CanAdmit
<1>3. /\ 1 \in 1..Len(waiting) /\ x = waiting[1]
      /\ Len(waiting) >= 1 /\ DOMAIN waiting = 1..Len(waiting)
  BY <1>t, <1>1, <1>2
<1>4. slots # Width BY <1>t, <1>3
<1>5. CASE tok = 0
  <2>1. looked[x] /\ Planned(x, tok) = 0 BY <1>t, <1>2, <1>5 DEF Planned
  <2>2. Remaining(x) = 0 BY <1>2, <2>1 DEF CanScheduleLoadOnly
  <2>3. Len(running) + 1 > slots BY <1>t
  <2>4. Remaining(x) > 0 BY <1>3, <2>1, <2>3 DEF LookAheadInv
  <2> QED BY <2>2, <2>4
<1>6. CASE tok # 0
  <2>1. /\ slots >= Len(running)
        /\ Remaining(Line(slots + 1)) > 0 /\ Planned(Line(slots + 1), tok) = 0
    BY <1>2, <1>4, <1>6 DEF Stopped
  <2>2. slots + 1 = Len(running) + 1 BY <1>t, <2>1
  <2>3. Line(slots + 1) = x BY <1>t, <1>3, <2>2
  <2> QED BY <1>2, <2>1, <2>3 DEF CanScheduleLoadOnly
<1> QED BY <1>5, <1>6

\* When the scheduler is done, every counted request has its slice.
LEMMA AllCountedRun ==
    ASSUME BatchInv, CourseInv, phase = "schedWaiting", ~CanAdmit
    PROVE  Len(slices) = slots /\ slots <= Len(running)
<1>1. PICK l, b :
          /\ slots <= Width
          /\ Len(slices) <= slots /\ Len(slices) <= Len(running)
          /\ Len(slices) < slots =>
                 /\ Len(slices) = Len(running)
                 /\ looked[Line(Len(slices) + 1)]
                 /\ CanTake(Line(Len(slices) + 1), tok)
  BY SchedulerOnCourse
<1>t. /\ slots \in Nat /\ slots <= MaxSeqs /\ waiting \in Seq(Requests)
      /\ Len(waiting) \in Nat /\ Len(running) \in Nat /\ Len(slices) \in Nat
      /\ Width = Len(running) + Len(waiting) /\ MaxSeqs \in Nat
      /\ \A j \in 1..Len(waiting) : Line(Len(running) + j) = waiting[j]
  BY FrontierTypes DEF BatchInv, TypeInv
<1>2. ~(Len(slices) < slots)
  <2> SUFFICES ASSUME Len(slices) < slots PROVE FALSE
    OBVIOUS
  <2>1. Len(slices) = Len(running) /\ Len(slices) < MaxSeqs BY <1>1, <1>t
  <2>2. 1 \in 1..Len(waiting) BY <1>1, <1>t, <2>1
  <2>3. Line(Len(slices) + 1) = waiting[1] BY <1>t, <2>1, <2>2
  <2>4. waiting # <<>> /\ Head(waiting) = waiting[1] BY <1>t, <2>2
  <2> QED BY <1>1, <2>1, <2>3, <2>4 DEF CanAdmit, CanTake
<1> QED BY <1>1, <1>t, <1>2


LEMMA FrontierScheduled ==
    ASSUME BatchInv, CourseInv, LookAheadInv, [Next]_vars,
           BeginSchedule \/ ScheduleRunning \/ ScheduleRunningDone \/ AdmitWaiting
    PROVE  CourseInv'
<1>t. /\ slots \in Nat /\ slots <= MaxSeqs /\ idx \in Nat /\ idx >= 1
      /\ tok \in Nat /\ tok <= MaxBatchedTokens
      /\ waiting \in Seq(Requests) /\ running \in Seq(Requests) /\ slices \in Seq(Slices)
      /\ Len(waiting) \in Nat /\ Len(running) \in Nat /\ Len(slices) \in Nat
      /\ Width = Len(running) + Len(waiting)
      /\ MaxSeqs \in Nat /\ TypeOK
      /\ owes \in [Requests -> Nat]
      /\ \A k \in 1..Width : Line(k) \in Requests
      /\ \A k \in 1..Len(running) : Line(k) = running[k]
      /\ \A j \in 1..Len(waiting) : Line(Len(running) + j) = waiting[j]
  <2>1. TypeOK BY DEF BatchInv, TypeInv
  <2>2. owes \in [Requests -> Nat] BY <2>1 DEF TypeOK
  <2> QED BY <2>1, <2>2, FrontierTypes
<1>p. prompt' = prompt BY InputsFrame
<1>1. CASE BeginSchedule
  <2>1. PICK l, b : /\ Course(l, b) /\ slots <= Width /\ Stopped(b[slots]) /\ slices = <<>>
    BY <1>1 DEF BeginSchedule, CourseInv, OnCourse, Position
  <2>2. /\ UNCHANGED <<running, waiting, computed, looked, owes, slots>>
        /\ phase' = "schedRunning" /\ tok' = MaxBatchedTokens /\ idx' = 1 /\ slices' = <<>>
        /\ ~Idle
    BY <1>1 DEF BeginSchedule, queues, progress, lookups
  <2>3. Course(l, b)'
    <3>1. \A k \in 1..slots : looked[l[k]] BY <2>1 DEF Course
    <3> QED BY <1>t, <1>p, <2>1, <2>2, <3>1, CourseKept DEF Line
  <2>4. Width' = Width /\ Line(slots + 1)' = Line(slots + 1) /\ slots' = slots
    BY <2>2 DEF Width, Line
  <2>5. Stopped(b[slots])'
    <3>1. PICK u : u = b[slots] OBVIOUS
    <3>2. Stopped(u)' BY <1>p, <2>1, <2>2, <2>4, <3>1, StoppedKept
    <3> QED BY <2>4, <3>1, <3>2
  <2>6. Width > 0
    <3>1. waiting # <<>> => Len(waiting) > 0 BY <1>t
    <3>2. running # <<>> => Len(running) > 0 BY <1>t
    <3> QED BY <1>t, <2>2, <3>1, <3>2 DEF Idle
  <2>7. b[0] = MaxBatchedTokens BY <2>1 DEF Course
  <2>8. /\ Len(slices') = 0 /\ Len(slices') <= slots' /\ Len(slices') <= Len(running')
        /\ tok' = b[Len(slices')] /\ idx' = Len(slices') + 1
    BY <1>t, <2>2, <2>7
  <2>9. Position(b)' BY <2>1, <2>2, <2>4, <2>5, <2>6, <2>8 DEF Position
  <2> QED BY <2>3, <2>9 DEF CourseInv
<1>2. ASSUME phase \in {"schedRunning", "schedWaiting"}
      PROVE  \E l, b :
                 /\ Course(l, b)
                 /\ slots <= Width /\ Width > 0 /\ Stopped(b[slots])
                 /\ Len(slices) <= slots /\ Len(slices) <= Len(running)
                 /\ tok = b[Len(slices)]
                 /\ phase = "schedRunning" => idx = Len(slices) + 1
                 /\ phase = "schedWaiting" /\ Len(slices) < slots => Len(slices) = Len(running)
                 /\ Len(slices) < slots =>
                        /\ l[Len(slices) + 1] = Line(Len(slices) + 1)
                        /\ looked[Line(Len(slices) + 1)]
                        /\ CanTake(Line(Len(slices) + 1), tok)
                        /\ b[Len(slices) + 1] = tok - Planned(Line(Len(slices) + 1), tok)
  BY <1>2, SchedulerOnCourse
<1>3. CASE ScheduleRunning
  <2>0. phase = "schedRunning" BY <1>3 DEF ScheduleRunning
  <2>1. PICK l, b :
            /\ Course(l, b)
            /\ slots <= Width /\ Width > 0 /\ Stopped(b[slots])
            /\ Len(slices) <= slots /\ Len(slices) <= Len(running)
            /\ tok = b[Len(slices)]
            /\ idx = Len(slices) + 1
            /\ Len(slices) < slots =>
                   /\ CanTake(Line(Len(slices) + 1), tok)
                   /\ b[Len(slices) + 1] = tok - Planned(Line(Len(slices) + 1), tok)
    BY <1>2, <2>0
  <2>2. PICK r \in Requests : /\ r = running[idx] /\ idx \in 1..Len(running)
                              /\ owes[r] = 0 /\ ~CanScheduleLoadOnly(r)
    BY <1>3, <1>t, ContinuedRequest
  <2>3. r = Line(Len(slices) + 1) BY <1>t, <2>1, <2>2
  <2>4. PICK t \in Nat : t = Planned(r, tok) BY <1>t, PlannedBounds
  <2>5. /\ Len(slices) < MaxSeqs /\ tok > 0 /\ tok' = tok - t /\ idx' = idx + 1
        /\ t > 0 => slices' = Append(slices, SliceFor(r, t)) /\ ConsumeLoad(r)
        /\ UNCHANGED <<running, waiting, computed, looked, slots>> /\ phase' = phase
    BY <1>3, <2>2, <2>4 DEF ScheduleRunning, queues, progress, lookups
  <2>6. Len(slices) < slots
    <3> SUFFICES ASSUME Len(slices) = slots PROVE FALSE
      BY <1>t, <2>1
    <3>1. slots # MaxSeqs BY <2>5
    <3>2. slots # Width /\ ~(slots >= Len(running)) BY <1>t, <2>1, <2>2
    <3>3. b[slots] # 0 BY <1>t, <2>1, <2>5
    <3> QED BY <2>1, <3>1, <3>2, <3>3 DEF Stopped
  <2>7. t > 0 BY <2>1, <2>2, <2>3, <2>4, <2>6 DEF CanTake
  <2>8. owes' = owes BY <1>t, <2>2, <2>5, <2>7 DEF ConsumeLoad
  <2>9. Len(slices') = Len(slices) + 1
    <3>1. SliceFor(r, t) \in Slices BY <1>t DEF SliceFor, Slices, TypeOK
    <3> QED BY <1>t, <2>5, <2>7, <3>1
  <2>10. Course(l, b)'
    <3>1. \A k \in 1..slots : looked[l[k]] BY <2>1 DEF Course
    <3>2. \A k \in 1..slots : k > Len(slices') => k > Len(slices) BY <1>t, <2>9
    <3>3. \A k \in 1..slots : Line(k)' = Line(k) BY <2>5 DEF Line
    <3> QED BY <1>t, <1>p, <2>1, <2>5, <2>8, <3>1, <3>2, <3>3, CourseKept
  <2>11. Width' = Width /\ Line(slots + 1)' = Line(slots + 1) /\ slots' = slots
    BY <2>5 DEF Width, Line
  <2>12. Stopped(b[slots])'
    <3>1. PICK u : u = b[slots] OBVIOUS
    <3>2. Stopped(u)' BY <1>p, <2>1, <2>5, <2>11, <3>1, StoppedKept
    <3> QED BY <2>11, <3>1, <3>2
  <2>13. /\ tok' = b[Len(slices')] /\ idx' = Len(slices') + 1
         /\ Len(slices') <= slots' /\ Len(slices') <= Len(running')
    BY <1>t, <2>1, <2>2, <2>3, <2>4, <2>5, <2>6, <2>9
  <2>14. Position(b)' BY <2>0, <2>1, <2>5, <2>11, <2>12, <2>13 DEF Position
  <2> QED BY <2>10, <2>14 DEF CourseInv
<1>4. CASE ScheduleRunningDone
  <2>0. phase = "schedRunning" BY <1>4 DEF ScheduleRunningDone
  <2>1. PICK l, b :
            /\ Course(l, b)
            /\ slots <= Width /\ Width > 0 /\ Stopped(b[slots])
            /\ Len(slices) <= slots /\ Len(slices) <= Len(running)
            /\ tok = b[Len(slices)]
            /\ idx = Len(slices) + 1
            /\ Len(slices) < slots => CanTake(Line(Len(slices) + 1), tok)
    BY <1>2, <2>0
  <2>2. /\ UNCHANGED <<running, waiting, computed, looked, owes, slots, slices, tok>>
        /\ phase' = "schedWaiting"
        /\ idx <= Len(running) /\ Len(slices) < MaxSeqs
             => tok <= 0 /\ ~CanScheduleLoadOnly(running[idx])
    BY <1>4 DEF ScheduleRunningDone, queues, progress, lookups, budget
  <2>3. Len(slices) < slots => Len(slices) = Len(running)
    <3> SUFFICES ASSUME Len(slices) < slots, Len(slices) < Len(running) PROVE FALSE
      BY <1>t, <2>1
    <3>1. idx \in 1..Len(running) /\ Len(slices) < MaxSeqs BY <1>t, <2>1
    <3>2. tok <= 0 /\ ~CanScheduleLoadOnly(running[idx]) BY <1>t, <2>2, <3>1
    <3>3. Line(Len(slices) + 1) = running[idx] BY <1>t, <2>1, <3>1
    <3> QED BY <2>1, <3>2, <3>3 DEF CanTake, Planned
  <2>4. Course(l, b)'
    <3>1. \A k \in 1..slots : looked[l[k]] BY <2>1 DEF Course
    <3> QED BY <1>t, <1>p, <2>1, <2>2, <3>1, CourseKept DEF Line
  <2>5. Width' = Width /\ Line(slots + 1)' = Line(slots + 1) /\ slots' = slots
    BY <2>2 DEF Width, Line
  <2>6. Stopped(b[slots])'
    <3>1. PICK u : u = b[slots] OBVIOUS
    <3>2. Stopped(u)' BY <1>p, <2>1, <2>2, <2>5, <3>1, StoppedKept
    <3> QED BY <2>5, <3>1, <3>2
  <2>7. Position(b)' BY <2>1, <2>2, <2>3, <2>5, <2>6 DEF Position
  <2> QED BY <2>4, <2>7 DEF CourseInv
<1>5. CASE AdmitWaiting
  <2>0. phase = "schedWaiting" /\ CanAdmit BY <1>5 DEF AdmitWaiting
  <2>1. PICK l, b :
            /\ Course(l, b)
            /\ slots <= Width /\ Width > 0 /\ Stopped(b[slots])
            /\ Len(slices) <= slots /\ Len(slices) <= Len(running)
            /\ tok = b[Len(slices)]
            /\ Len(slices) < slots =>
                   /\ Len(slices) = Len(running)
                   /\ b[Len(slices) + 1] = tok - Planned(Line(Len(slices) + 1), tok)
    BY <1>2, <2>0
  <2>2. Len(slices) < slots
    <3> SUFFICES ASSUME Len(slices) = slots PROVE FALSE
      BY <1>t, <2>1
    <3> QED BY <2>0, <2>1, HeadStaysOut
  <2>3. PICK n \in Nat : n = Len(running) /\ n = Len(slices) /\ n < slots
    BY <1>t, <2>1, <2>2
  <2>4. PICK x \in Requests : x = Head(waiting) /\ waiting # <<>>
    BY <1>5, AdmittedRequest
  <2>5. /\ x = waiting[1] /\ 1 \in 1..Len(waiting)
        /\ Len(Tail(waiting)) = Len(waiting) - 1
        /\ \A j \in 1..(Len(waiting) - 1) : Tail(waiting)[j] = waiting[j + 1]
    BY <1>t, <2>4
  <2>6. x = Line(n + 1) BY <1>t, <2>3, <2>5
  <2>7. PICK t \in Nat : t = Planned(x, tok) BY <1>t, PlannedBounds
  <2>8. /\ waiting' = Tail(waiting) /\ running' = Append(running, x)
        /\ slices' = Append(slices, SliceFor(x, t)) /\ ConsumeLoad(x)
        /\ tok' = tok - t
        /\ UNCHANGED <<computed, looked, slots>> /\ phase' = phase
    BY <1>5, <2>4, <2>7 DEF AdmitWaiting, progress, lookups
  <2>9. Len(slices') = n + 1
    <3>1. SliceFor(x, t) \in Slices BY <1>t DEF SliceFor, Slices, TypeOK
    <3> QED BY <1>t, <2>3, <2>8, <3>1
  <2>10. /\ Len(running') = n + 1 /\ running'[n + 1] = x
         /\ \A k \in 1..n : running'[k] = running[k]
    <3>1. running \in Seq(Requests) BY <1>t
    <3>2. /\ Len(Append(running, x)) = Len(running) + 1
          /\ \A k \in 1..Len(running) : Append(running, x)[k] = running[k]
          /\ Append(running, x)[Len(running) + 1] = x
      BY <3>1, AppendProperties
    <3> QED BY <2>3, <2>8, <3>2
  <2>11. /\ Len(waiting') = Len(waiting) - 1
         /\ \A j \in 1..(Len(waiting) - 1) : waiting'[j] = waiting[j + 1]
    BY <2>5, <2>8
  <2>12. Width' = Width
    <3>1. Width' = Len(running') + Len(waiting') BY DEF Width
    <3> QED BY <1>t, <2>3, <2>10, <2>11, <3>1
  <2>13. ASSUME NEW k \in 1..Width PROVE Line(k)' = Line(k)
    <3>1. CASE k <= n
      <4>1. k \in 1..n /\ k <= Len(running') BY <2>10, <3>1
      <4>2. Line(k)' = running'[k] BY <4>1 DEF Line
      <4> QED BY <1>t, <2>3, <2>10, <4>1, <4>2
    <3>2. CASE k = n + 1
      <4>1. Line(k)' = running'[k] BY <2>10, <3>2 DEF Line
      <4> QED BY <2>6, <2>10, <3>2, <4>1
    <3>3. CASE k > n + 1
      <4>0. k - (n + 1) \in 1..(Len(waiting) - 1)
        <5>1. Width = n + Len(waiting) BY <1>t, <2>3
        <5> QED BY <1>t, <3>3, <5>1
      <4>1. PICK j \in 1..(Len(waiting) - 1) : j = k - (n + 1)
        BY <4>0
      <4>2. Line(k)' = waiting'[j]
        <5>1. ~(k <= Len(running')) /\ k - Len(running') = j BY <2>10, <3>3, <4>1
        <5> QED BY <5>1 DEF Line
      <4>3. j + 1 \in 1..Len(waiting) /\ k = n + (j + 1) BY <1>t, <4>1
      <4>4. Line(k) = waiting[j + 1] BY <1>t, <2>3, <4>3
      <4> QED BY <2>11, <4>1, <4>2, <4>4
    <3> QED BY <2>3, <3>1, <3>2, <3>3
  <2>14. ASSUME NEW k \in 1..slots, k > n + 1
         PROVE  owes'[l[k]] = owes[l[k]]
    <3>1. k \in 1..Width /\ l[k] = Line(k) BY <1>t, <2>1 DEF Course
    <3>2. PICK j \in 1..Len(waiting) : j = k - n /\ j > 1
      <4>1. Width = n + Len(waiting) BY <1>t, <2>3
      <4>2. k - n \in 1..Len(waiting) /\ k - n > 1 BY <1>t, <2>14, <3>1, <4>1
      <4> QED BY <4>2
    <3>3. Line(k) = waiting[j]
      <4>1. k = n + j BY <3>2
      <4> QED BY <1>t, <2>3, <3>2, <4>1
    <3>4. waiting[1] < waiting[j] /\ waiting[1] \in Nat /\ waiting[j] \in Requests
      <4>1. 1 \in DOMAIN waiting /\ j \in DOMAIN waiting BY <1>t, <2>5, <3>2
      <4>2. waiting[1] < waiting[j] BY <3>2, <4>1 DEF BatchInv, QueueInv
      <4>3. waiting \in Seq(Requests) BY <1>t
      <4>4. waiting[1] \in Requests /\ waiting[j] \in Requests BY <4>1, <4>3
      <4> QED BY <4>2, <4>4 DEF Requests
    <3>5. l[k] # x /\ l[k] \in Requests BY <2>5, <3>1, <3>3, <3>4
    <3> QED BY <1>t, <2>8, <3>5 DEF ConsumeLoad
  <2>15. Course(l, b)'
    <3>1. \A k \in 1..slots : looked[l[k]] BY <2>1 DEF Course
    <3>2. \A k \in 1..slots : Line(k)' = Line(k) BY <1>t, <2>1, <2>13
    <3>3. \A k \in 1..slots : k > Len(slices') => k > Len(slices) /\ owes'[l[k]] = owes[l[k]]
      BY <2>3, <2>9, <2>14
    <3> QED BY <1>t, <1>p, <2>1, <2>8, <3>1, <3>2, <3>3, CourseKept
  <2>16. Stopped(b[slots])'
    <3>1. PICK u : u = b[slots] OBVIOUS
    <3>2. slots < Width => Line(slots + 1)' = Line(slots + 1)
      <4>1. slots < Width => slots + 1 \in 1..Width BY <1>t
      <4>2. PICK k : k = slots + 1 OBVIOUS
      <4>3. Line(slots + 1)' = Line(k)' BY <2>8, <4>2
      <4> QED BY <2>13, <4>1, <4>2, <4>3
    <3>3. slots >= Len(running') BY <1>t, <2>3, <2>10
    <3>4. Stopped(u)' BY <1>p, <2>1, <2>8, <2>12, <3>1, <3>2, <3>3, StoppedKept
    <3> QED BY <2>8, <3>1, <3>4
  <2>17. tok' = b[Len(slices')] BY <2>1, <2>3, <2>6, <2>7, <2>8, <2>9
  <2>18. /\ Len(slices') <= slots' /\ Len(slices') <= Len(running')
         /\ Len(slices') = Len(running')
    BY <2>3, <2>8, <2>9, <2>10, <1>t
  <2>19. Position(b)' BY <2>0, <2>1, <2>8, <2>12, <2>16, <2>17, <2>18 DEF Position
  <2> QED BY <2>15, <2>19 DEF CourseInv
<1> QED BY <1>1, <1>3, <1>4, <1>5


LEMMA CourseFrame ==
    ASSUME [Next]_vars, ~BeginFrontier, ~PlanRunning, ~PlanRunningDone,
           ~LookupWaiting, ~FinishZeroMiss, ~PlanWaiting, ~PlanWaitingDone,
           ~BeginSchedule, ~ScheduleRunning, ~ScheduleRunningDone, ~AdmitWaiting
    PROVE  ~OnCourse' \/ UNCHANGED vars
BY DEF Next, Step, Terminated, OnCourse, Arrive, JumpToArrival, NothingLeft,
       ScheduleDone, Estimate, ApplySlice, EndIteration

LEMMA FrontierStep ==
    ASSUME BatchInv, WholeInv, CourseInv, LookAheadInv, [Next]_vars
    PROVE  CourseInv'
<1>1. CASE BeginFrontier \/ PlanRunning \/ PlanRunningDone
  BY <1>1, FrontierRunning
<1>2. CASE LookupWaiting \/ FinishZeroMiss \/ PlanWaiting \/ PlanWaitingDone
  BY <1>2, FrontierWaiting
<1>3. CASE BeginSchedule \/ ScheduleRunning \/ ScheduleRunningDone \/ AdmitWaiting
  BY <1>3, FrontierScheduled
<1>4. CASE ~OnCourse' BY <1>4 DEF CourseInv
<1>5. CASE UNCHANGED vars
  <2>1. /\ prompt' = prompt /\ running' = running /\ waiting' = waiting
        /\ looked' = looked /\ computed' = computed /\ owes' = owes
        /\ phase' = phase /\ tok' = tok /\ slots' = slots /\ idx' = idx
        /\ slices' = slices
    BY <1>5 DEF vars, inputs, queues, progress, lookups, budget
  <2>2. CASE OnCourse
    <3>1. PICK l, b : Course(l, b) /\ Position(b) BY <2>2 DEF CourseInv
    <3>2. Course(l, b)'
      BY <2>1, <3>1 DEF Course, Line, CanTake, Planned, Remaining, Tokens,
                        CanScheduleLoadOnly, OwesLoad
    <3>3. Position(b)'
      BY <2>1, <3>1 DEF Position, Stopped, Line, Width, Planned, Remaining, Tokens
    <3> QED BY <3>2, <3>3 DEF CourseInv
  <2>3. CASE ~OnCourse BY <2>1, <2>3 DEF CourseInv, OnCourse
  <2> QED BY <2>2, <2>3
<1> QED BY <1>1, <1>2, <1>3, <1>4, <1>5, CourseFrame

-----------------------------------------------------------------------------
(* What is left of the course when the batch is built.                       *)

LEMMA SlotsStep ==
    ASSUME BatchInv, CourseInv, SlotsInv, [Next]_vars
    PROVE  SlotsInv'
<1>1. CASE ScheduleDone
  <2>1. /\ Len(slices) = slots /\ slots <= Len(running)
        /\ UNCHANGED <<slices, slots, running>>
    BY <1>1, AllCountedRun DEF ScheduleDone, queues, budget
  <2> QED BY <2>1 DEF SlotsInv
<1>2. CASE ~ScheduleDone
  <2>1. \/ phase' \notin {"estimate", "apply"}
        \/ /\ phase \in {"estimate", "apply"} /\ (phase' = "estimate" => phase = "estimate")
           /\ UNCHANGED <<slices, slots, running>>
    BY <1>2 DEF Next, Step, Terminated, vars, inputs, queues, progress, lookups, caches,
           budget, Arrive, JumpToArrival, BeginFrontier, PlanRunning, PlanRunningDone,
           LookupWaiting, EnsureLookup, PlanningWaiting, FinishZeroMiss, PlanWaiting,
           PlanWaitingDone, NothingLeft, BeginSchedule, ScheduleRunning,
           ScheduleRunningDone, AdmitWaiting, Estimate, ApplySlice, EndIteration
  <2> QED BY <2>1 DEF SlotsInv
<1> QED BY <1>1, <1>2

\* An empty batch: the head of the queue does not fit the whole budget.
LEMMA StallStep ==
    ASSUME BatchInv, WholeInv, CourseInv, StallOnlyWhenTooLarge, [Next]_vars
    PROVE  StallOnlyWhenTooLarge'
<1>t. /\ slots \in Nat /\ waiting \in Seq(Requests) /\ running \in Seq(Requests)
      /\ Len(waiting) \in Nat /\ Len(running) \in Nat
      /\ Width = Len(running) + Len(waiting)
      /\ MaxSeqs >= 1 /\ MaxBatchedTokens \in Nat /\ MaxBatchedTokens >= 1
      /\ \A j \in 1..Len(waiting) : Line(Len(running) + j) = waiting[j] /\ waiting[j] \in Requests
      /\ TypeOK
  <2>1. TypeOK BY DEF BatchInv, TypeInv
  <2>2. \A j \in 1..Len(waiting) : waiting[j] \in Requests BY <2>1, FrontierTypes
  <2> QED BY <2>1, <2>2, FrontierTypes
<1>1. CASE ScheduleDone
  <2>1. /\ phase = "schedWaiting" /\ ~CanAdmit
        /\ phase' = "error" => slices = <<>>
        /\ UNCHANGED <<prompt, running, waiting, computed>>
    BY <1>1 DEF ScheduleDone, inputs, queues, progress
  <2> SUFFICES ASSUME slices = <<>>
               PROVE  /\ ~Chunked /\ running = <<>>
                      /\ Remaining(Head(waiting)) > MaxBatchedTokens
    BY <2>1 DEF StallOnlyWhenTooLarge, Remaining, Tokens
  <2>2. Len(slices) = slots /\ slots = 0
    <3>1. Len(slices) = 0 OBVIOUS
    <3> QED BY <2>1, <3>1, AllCountedRun
  <2>3. PICK l, b : Course(l, b) /\ Width > 0 /\ Stopped(b[slots])
    BY <2>1, SchedulerOnCourse
  <2>4. b[slots] = MaxBatchedTokens BY <2>2, <2>3 DEF Course
  <2>5. /\ 0 >= Len(running)
        /\ Remaining(Line(1)) > 0 /\ Planned(Line(1), MaxBatchedTokens) = 0
    <3>1. slots # MaxSeqs /\ slots # Width /\ b[slots] # 0 /\ slots + 1 = 1
      BY <1>t, <2>2, <2>3, <2>4
    <3> QED BY <2>2, <2>3, <2>4, <3>1 DEF Stopped
  <2>6. Len(running) = 0 /\ running = <<>> BY <1>t, <2>5
  <2>7. 1 \in 1..Len(waiting) BY <1>t, <2>3, <2>6
  <2>8. Line(1) = waiting[1] /\ Head(waiting) = waiting[1]
    <3>1. Len(running) + 1 = 1 BY <2>6
    <3> QED BY <1>t, <2>7, <3>1
  <2>9. PICK x \in Requests : x = Head(waiting) BY <1>t, <2>7, <2>8
  <2>10. ~Chunked /\ Remaining(x) > MaxBatchedTokens
    BY <1>t, <2>5, <2>8, <2>9, PlannedBounds
  <2> QED BY <2>6, <2>9, <2>10
<1>2. CASE ~ScheduleDone
  <2>1. phase' = "error" => phase = "error" /\ UNCHANGED vars
    BY <1>2 DEF Next, Step, Terminated, vars, inputs, queues, progress, lookups, caches,
           budget, Arrive, JumpToArrival, BeginFrontier, PlanRunning, PlanRunningDone,
           LookupWaiting, EnsureLookup, PlanningWaiting, FinishZeroMiss, PlanWaiting,
           PlanWaitingDone, NothingLeft, BeginSchedule, ScheduleRunning,
           ScheduleRunningDone, AdmitWaiting, Estimate, ApplySlice, EndIteration
  <2> QED BY <2>1 DEF StallOnlyWhenTooLarge, vars, inputs, queues, progress, Remaining, Tokens
<1> QED BY <1>1, <1>2


-----------------------------------------------------------------------------
(* Which waiting requests have been looked up.                               *)

LEMMA LookAheadStep ==
    ASSUME BatchInv, CourseInv, SlotsInv, LookAheadInv, [Next]_vars
    PROVE  LookAheadInv'
<1>t. /\ slots \in Nat /\ idx \in Nat /\ idx >= 1
      /\ waiting \in Seq(Requests) /\ running \in Seq(Requests)
      /\ Len(waiting) \in Nat /\ Len(running) \in Nat
      /\ DOMAIN waiting = 1..Len(waiting)
      /\ TypeOK
  <2>1. TypeOK BY DEF BatchInv, TypeInv
  <2>2. waiting \in Seq(Requests) BY <2>1 DEF TypeOK
  <2> QED BY <2>1, <2>2, FrontierTypes
<1>p. prompt' = prompt BY InputsFrame
<1> DEFINE Ahead(j) ==
        LET x == waiting[j]
        IN  /\ phase \in {"arrive", "planRunning"} => j = 1 /\ Remaining(x) > 0
            /\ phase = "planWaiting" => \/ j = 1 /\ Remaining(x) > 0
                                        \/ j < idx
                                        \/ j = idx /\ slots < MaxSeqs
            /\ phase \in {"planned", "schedRunning", "schedWaiting", "estimate", "apply"}
                 /\ Len(running) + j > slots
                 => Remaining(x) > 0 /\ (j = 1 \/ Len(running) + j = slots + 1)
<1>1. \A j \in DOMAIN waiting : looked[waiting[j]] => Ahead(j) BY DEF LookAheadInv
<1>2. (\A j \in DOMAIN waiting' : looked'[waiting'[j]] => Ahead(j)') => LookAheadInv'
  BY DEF LookAheadInv
<1> SUFFICES ASSUME NEW j \in DOMAIN waiting', looked'[waiting'[j]] PROVE Ahead(j)'
  BY <1>2
<1>3. CASE Arrive
  <2>1. /\ phase = "arrive" /\ phase' = "arrive" /\ arrived + 1 \in Requests
        /\ looked' = looked /\ computed' = computed
        /\ waiting' = Append(waiting, arrived + 1)
    BY <1>3, <1>t, RequestsAssumption DEF Arrive, Due, Requests, lookups, progress, TypeOK
  <2>2. CASE j \in DOMAIN waiting
    <3>1. waiting'[j] = waiting[j] BY <1>t, <2>1, <2>2
    <3>2. j = 1 /\ Remaining(waiting[j]) > 0 BY <1>1, <2>1, <2>2, <3>1
    <3> QED BY <1>p, <2>1, <3>1, <3>2 DEF Remaining, Tokens
  <2>3. CASE j \notin DOMAIN waiting
    <3>1. waiting'[j] = arrived + 1 BY <1>t, <2>1, <2>3
    <3>2. status[arrived + 1] = "pending"
      BY <1>t, <2>1 DEF BatchInv, Lifecycles, Lifecycle, TypeOK
    <3>3. ~looked[arrived + 1] BY <2>1, <3>2 DEF BatchInv, Lifecycles, Lifecycle
    <3> QED BY <2>1, <3>1, <3>3
  <2> QED BY <2>2, <2>3
<1>4. CASE LookupWaiting
  <2>1. /\ phase = "planWaiting" /\ slots < MaxSeqs /\ phase' = phase
        /\ slots' = slots /\ idx' = idx /\ waiting' = waiting
        /\ EnsureLookup(waiting[idx])
    BY <1>4 DEF LookupWaiting, PlanningWaiting, EnsureLookup, queues, budget
  <2>2. CASE j = idx BY <2>1, <2>2
  <2>3. CASE j # idx
    <3>1. PICK x \in Requests : x = waiting[j] BY <1>t, <2>1
    <3>2. idx \in DOMAIN waiting /\ waiting[idx] \in Requests
      BY <1>4, FrontierRequest DEF LookupWaiting
    <3>3. x # waiting[idx]
      <4>1. j \in Nat /\ j \in DOMAIN waiting BY <1>t, <2>1
      <4>2. waiting[j] < waiting[idx] \/ waiting[idx] < waiting[j]
        BY <1>t, <2>3, <3>2, <4>1 DEF BatchInv, QueueInv
      <4> QED BY <3>1, <3>2, <4>2 DEF Requests
    <3>4. looked'[x] = looked[x] /\ computed'[x] = computed[x]
      BY <1>t, <2>1, <3>2, <3>3 DEF EnsureLookup, TypeOK
    <3>5. Ahead(j) BY <1>1, <2>1, <3>1, <3>4
    <3>6. Remaining(x)' = Remaining(x) BY <1>p, <3>4, PlannedKept
    <3> QED BY <2>1, <3>1, <3>5, <3>6
  <2> QED BY <2>2, <2>3
<1>5. CASE FinishZeroMiss
  <2>1. idx \in 1..Len(waiting) BY <1>5, FrontierRequest DEF FinishZeroMiss
  <2>2. /\ phase = "planWaiting" /\ phase' = phase /\ slots' = slots /\ idx' = idx
        /\ looked' = looked /\ computed' = computed
        /\ waiting' = SubSeq(waiting, 1, idx - 1) \o SubSeq(waiting, idx + 1, Len(waiting))
    BY <1>5 DEF FinishZeroMiss, PlanningWaiting, lookups, budget
  <2>3. /\ waiting' \in Seq(Requests) /\ Len(waiting') = Len(waiting) - 1
        /\ \A i \in 1..(Len(waiting) - 1) :
               waiting'[i] = IF i < idx THEN waiting[i] ELSE waiting[i + 1]
    BY <1>t, <2>1, <2>2, WithoutType
  <2>4. j \in 1..(Len(waiting) - 1) BY <2>3
  <2>5. CASE j < idx BY <2>2, <2>5
  <2>6. CASE ~(j < idx)
    <3>1. j + 1 \in DOMAIN waiting /\ looked[waiting[j + 1]]
      BY <1>t, <2>2, <2>3, <2>4, <2>6
    <3>2. Ahead(j + 1) BY <1>1, <3>1
    <3> QED BY <1>t, <2>2, <2>4, <2>6, <3>2
  <2> QED BY <2>5, <2>6
<1>6. CASE AdmitWaiting
  <2>1. /\ phase = "schedWaiting" /\ phase' = phase /\ slots' = slots
        /\ looked' = looked /\ computed' = computed
        /\ waiting' = Tail(waiting) /\ running' = Append(running, Head(waiting))
        /\ waiting # <<>> /\ Head(waiting) \in Requests
    BY <1>6, AdmittedRequest DEF AdmitWaiting, lookups, progress
  <2>2. /\ j \in 1..(Len(waiting) - 1) /\ waiting'[j] = waiting[j + 1]
        /\ Len(running') = Len(running) + 1
    BY <1>t, <2>1
  <2>3. j + 1 \in DOMAIN waiting /\ looked[waiting[j + 1]] BY <1>t, <2>1, <2>2
  <2>4. Ahead(j + 1) BY <1>1, <2>3
  <2>5. Len(running') + j = Len(running) + (j + 1) BY <1>t, <2>2
  <2> QED BY <1>t, <1>p, <2>1, <2>2, <2>4, <2>5 DEF Remaining, Tokens
<1>7. CASE ~Arrive /\ ~LookupWaiting /\ ~FinishZeroMiss /\ ~AdmitWaiting
  <2>1. waiting' = waiting /\ (~EndIteration => running' = running)
    BY <1>7, StatusFrame
  <2>2. PICK x \in Requests : x = waiting[j] /\ x = waiting'[j]
    BY <1>t, <2>1
  <2>3. looked'[x] = looked[x] /\ computed'[x] = computed[x]
    <3>1. CASE ApplySlice
      <4>1. slices[idx].req # x
        <5>1. status[x] = "waiting" BY <2>1, <2>2 DEF BatchInv, QueueInv
        <5> QED BY <3>1, <5>1, AppliedSlice
      <4> QED BY <1>t, <3>1, <4>1 DEF ApplySlice, lookups, TypeOK
    <3>2. CASE ~ApplySlice BY <1>7, <3>2, CreditFrame
    <3> QED BY <3>1, <3>2
  <2>4. Ahead(j) BY <1>1, <2>1, <2>2, <2>3
  <2>5. Remaining(x)' = Remaining(x) BY <1>p, <2>3, PlannedKept
  <2>j. j \in Nat /\ j >= 1 /\ j <= Len(waiting) BY <1>t, <2>1
  <2>6. CASE PlanWaiting
    <3>1. /\ phase = "planWaiting" /\ slots = Len(running) + idx - 1
          /\ waiting' = waiting /\ running' = running
      BY <1>t, <2>1, <2>6 DEF PlanWaiting, PlanningWaiting, CourseInv, OnCourse, Position,
                             EndIteration
    <3>2. \/ phase' = phase /\ idx' = idx + 1
          \/ /\ phase' = "planned" /\ UNCHANGED <<slots, idx>>
             /\ ~(Planned(waiting[idx], tok) > 0 \/ CanScheduleLoadOnly(waiting[idx]))
             /\ Remaining(waiting[idx]) > 0 \/ OwesLoad(waiting[idx])
      BY <2>6 DEF PlanWaiting
    <3>3. CASE phase' = phase /\ idx' = idx + 1
      BY <1>t, <2>2, <2>4, <2>5, <2>j, <3>1, <3>3
    <3>4. CASE phase' = "planned" /\ UNCHANGED <<slots, idx>>
      <4>1. ASSUME j = idx PROVE Remaining(x) > 0
        <5>1. computed[x] <= Tokens(x) /\ computed[x] \in Nat /\ Tokens(x) \in Nat
          BY <1>t, PromptType DEF TypeOK, BatchInv, Credits, Credit
        <5> QED BY <2>2, <3>1, <3>2, <3>4, <4>1, <5>1 DEF Remaining, CanScheduleLoadOnly
      <4> QED BY <1>t, <2>2, <2>4, <2>5, <2>j, <3>1, <3>4, <4>1
    <3> QED BY <3>2, <3>3, <3>4
  <2>7. CASE PlanWaitingDone
    <3>1. /\ phase = "planWaiting" /\ phase' = "planned" /\ ~PlanningWaiting
          /\ UNCHANGED <<slots, idx, running>>
          /\ slots = Len(running) + idx - 1
      BY <2>7 DEF PlanWaitingDone, queues, budget, CourseInv, OnCourse, Position
    <3> QED BY <1>t, <2>2, <2>4, <2>5, <2>j, <3>1 DEF PlanningWaiting
  <2>8. CASE EndIteration
    <3>1. phase = "apply" /\ phase' \in {"arrive", "done"} /\ slots <= Len(running)
      BY <2>8 DEF EndIteration, SlotsInv
    <3> QED BY <1>t, <2>2, <2>4, <2>5, <2>j, <3>1
  <2>9. CASE ~PlanWaiting /\ ~PlanWaitingDone /\ ~EndIteration
    <3>1. \/ phase' \in {"done", "error"}
          \/ phase' \in {"arrive", "planRunning", "planWaiting", "planned"}
               /\ phase \in {"arrive", "planRunning"}
          \/ phase' = phase /\ UNCHANGED <<slots, idx>>
          \/ /\ phase \in {"planned", "schedRunning", "schedWaiting", "estimate", "apply"}
             /\ phase' \in {"planned", "schedRunning", "schedWaiting", "estimate", "apply"}
             /\ slots' = slots
          \/ NothingLeft
      BY <1>7, <2>9
         DEF Next, Step, Terminated, vars, budget, JumpToArrival, BeginFrontier,
             PlanRunning, PlanRunningDone, BeginSchedule, ScheduleRunning,
             ScheduleRunningDone, ScheduleDone, Estimate, ApplySlice
    <3>2. ~NothingLeft
      <4>1. NothingLeft => waiting = <<>> BY DEF NothingLeft, Idle
      <4> QED BY <2>1, <2>j, <4>1
    <3> QED BY <2>1, <2>2, <2>4, <2>5, <2>9, <3>1, <3>2
  <2> QED BY <2>6, <2>7, <2>8, <2>9
<1> QED BY <1>3, <1>4, <1>5, <1>6, <1>7


-----------------------------------------------------------------------------
(* Who has been scheduled first.                                             *)

\* A waiting request has not been scheduled, a scheduled one does not wait.
LEMMA WaitingUnset ==
    ASSUME BatchInv, NEW j \in DOMAIN waiting
    PROVE  waiting[j] \in Requests /\ firstAt[waiting[j]] = Unset
<1>1. waiting \in Seq(Requests) BY DEF BatchInv, TypeInv, TypeOK
<1>2. waiting[j] \in Requests /\ status[waiting[j]] = "waiting"
  BY <1>1 DEF BatchInv, QueueInv
<1> QED BY <1>2 DEF BatchInv, Lifecycles, Lifecycle

\* A request that leaves the queue is scheduled now: no later one has been
\* before.
LEMMA TimesStep ==
    ASSUME BatchInv, TimesInv, PassedInv, [Next]_vars
    PROVE  TimesInv'
<1>t. /\ now \in Nat /\ finishMs \in Nat /\ waiting \in Seq(Requests)
      /\ firstAt \in [Requests -> Nat \cup {Unset}]
      /\ start \in [Requests -> 0..MaxStart] /\ arrived \in 0..N /\ N \in Nat
      /\ MaxStart \in Nat
  BY RequestsAssumption DEF BatchInv, TypeInv, TypeOK
<1>1. /\ \A r \in Requests : firstAt[r] <= now
      /\ phase = "apply" => now <= finishMs
      /\ \A r, s \in Requests :
             r < s /\ firstAt[r] # Unset /\ firstAt[s] # Unset => firstAt[r] <= firstAt[s]
      /\ \A j \in DOMAIN waiting, s \in Requests :
             waiting[j] < s /\ firstAt[s] # Unset => firstAt[s] = now
  BY DEF TimesInv, PassedInv
<1>2. CASE FinishZeroMiss \/ AdmitWaiting
  <2>1. PICK j \in DOMAIN waiting :
            firstAt' = [firstAt EXCEPT ![waiting[j]] = now]
    <3>1. CASE FinishZeroMiss
      <4>1. idx \in DOMAIN waiting BY <1>t, <3>1, FrontierRequest DEF FinishZeroMiss
      <4>2. firstAt[waiting[idx]] = Unset BY <4>1, WaitingUnset
      <4>3. firstAt' = [firstAt EXCEPT ![waiting[idx]] = IF @ = Unset THEN now ELSE @]
        BY <3>1 DEF FinishZeroMiss
      <4> QED BY <4>1, <4>2, <4>3
    <3>2. CASE AdmitWaiting
      <4>1. waiting # <<>> BY <3>2, AdmittedRequest
      <4>2. 1 \in DOMAIN waiting /\ Head(waiting) = waiting[1] BY <1>t, <4>1
      <4>3. firstAt[waiting[1]] = Unset BY <4>2, WaitingUnset
      <4>4. firstAt' = [firstAt EXCEPT ![Head(waiting)] = IF @ = Unset THEN now ELSE @]
        BY <3>2 DEF AdmitWaiting
      <4> QED BY <4>2, <4>3, <4>4
    <3> QED BY <1>2, <3>1, <3>2
  <2>2. PICK x \in Requests : x = waiting[j] /\ firstAt' = [firstAt EXCEPT ![x] = now]
    BY <2>1, WaitingUnset
  <2>3. now' = now /\ phase' = phase /\ finishMs' = finishMs
    BY <1>2 DEF FinishZeroMiss, AdmitWaiting, budget
  <2>4. ASSUME NEW r \in Requests
        PROVE  firstAt'[r] = IF r = x THEN now ELSE firstAt[r]
    BY <1>t, <2>2
  <2>5. \A r \in Requests : firstAt'[r] <= now' BY <1>t, <1>1, <2>3, <2>4
  <2>6. ASSUME NEW r \in Requests, NEW s \in Requests,
               r < s, firstAt'[r] # Unset, firstAt'[s] # Unset
        PROVE  firstAt'[r] <= firstAt'[s]
    <3>1. CASE r = x
      <4>1. s # x BY <2>6, <3>1 DEF Requests
      <4>2. firstAt[s] = now BY <1>1, <2>2, <2>4, <2>6, <3>1, <4>1
      <4> QED BY <1>t, <2>4, <3>1, <4>1, <4>2
    <3>2. CASE s = x
      <4>1. r # x BY <2>6, <3>2 DEF Requests
      <4> QED BY <1>1, <2>4, <3>2, <4>1
    <3>3. CASE r # x /\ s # x BY <1>1, <2>4, <2>6, <3>3
    <3> QED BY <3>1, <3>2, <3>3
  <2> QED BY <1>1, <2>3, <2>5, <2>6 DEF TimesInv
<1>3. CASE ~FinishZeroMiss /\ ~AdmitWaiting
  <2>1. firstAt' = firstAt
    <3>1. CASE Arrive BY <3>1 DEF Arrive
    <3>2. CASE ~Arrive BY <1>3, <3>2, StatusFrame
    <3> QED BY <3>1, <3>2
  <2>2. now' \in Nat /\ now <= now' /\ (phase' = "apply" => now' <= finishMs')
    <3>1. CASE JumpToArrival
      <4>1. arrived + 1 \in Requests BY <1>t, <3>1 DEF JumpToArrival, Requests
      <4>2. start[arrived + 1] \in Nat BY <1>t, <4>1
      <4> QED BY <1>t, <3>1, <4>2 DEF JumpToArrival, Due
    <3>2. CASE NothingLeft
      <4>1. arrived < N => arrived + 1 \in Requests BY <1>t DEF Requests
      <4>2. arrived < N => start[arrived + 1] \in Nat BY <1>t, <4>1
      <4> QED BY <1>t, <3>2, <4>2 DEF NothingLeft, MaxOf
    <3>3. CASE EndIteration BY <1>t, <1>1, <3>3 DEF EndIteration
    <3>4. CASE Estimate
      <4>1. PICK d \in Durations : finishMs' = now + d /\ now' = now BY <3>4 DEF Estimate
      <4>2. d \in Nat BY DurationsAssumption
      <4> QED BY <1>t, <4>1, <4>2
    <3>5. CASE ~JumpToArrival /\ ~NothingLeft /\ ~EndIteration /\ ~Estimate
      <4>1. now' = now /\ (phase' = "apply" => phase = "apply" /\ finishMs' = finishMs)
        BY <1>3, <3>5
           DEF Next, Step, Terminated, vars, budget, Arrive, BeginFrontier,
               PlanRunning, PlanRunningDone, LookupWaiting, EnsureLookup, PlanningWaiting,
               PlanWaiting, PlanWaitingDone, BeginSchedule, ScheduleRunning,
               ScheduleRunningDone, ScheduleDone, ApplySlice
      <4> QED BY <1>t, <1>1, <4>1
    <3> QED BY <3>1, <3>2, <3>3, <3>4, <3>5
  <2>3. \A r \in Requests : firstAt'[r] <= now'
    <3> SUFFICES ASSUME NEW r \in Requests PROVE firstAt'[r] <= now'
      OBVIOUS
    <3>1. firstAt[r] <= now /\ firstAt[r] \in Int BY <1>t, <1>1 DEF Unset
    <3> QED BY <1>t, <2>1, <2>2, <3>1
  <2> QED BY <1>1, <2>1, <2>2, <2>3 DEF TimesInv
<1> QED BY <1>2, <1>3


LEMMA PassedStep ==
    ASSUME BatchInv, CourseInv, SlotsInv, PassedInv, [Next]_vars
    PROVE  PassedInv'
<1>t. /\ slots \in Nat /\ idx \in Nat /\ idx >= 1 /\ now \in Nat
      /\ waiting \in Seq(Requests) /\ running \in Seq(Requests)
      /\ Len(waiting) \in Nat /\ Len(running) \in Nat
      /\ DOMAIN waiting = 1..Len(waiting)
      /\ firstAt \in [Requests -> Nat \cup {Unset}]
      /\ status \in [Requests -> {"pending", "waiting", "running", "finished"}]
      /\ arrived \in 0..N /\ N \in Nat
  <2>1. TypeOK BY DEF BatchInv, TypeInv
  <2>2. waiting \in Seq(Requests) BY <2>1 DEF TypeOK
  <2> QED BY <2>1, <2>2, FrontierTypes, RequestsAssumption DEF TypeOK
<1>1. \A j \in DOMAIN waiting, s \in Requests :
          waiting[j] < s /\ firstAt[s] # Unset =>
              /\ firstAt[s] = now
              /\ Len(running) + j <= slots
              /\ phase \notin {"arrive", "planRunning"}
  BY DEF PassedInv
<1> SUFFICES ASSUME NEW j \in DOMAIN waiting', NEW s \in Requests,
                    waiting'[j] < s, firstAt'[s] # Unset
             PROVE  /\ firstAt'[s] = now'
                    /\ Len(running') + j <= slots'
                    /\ phase' \notin {"arrive", "planRunning"}
  BY DEF PassedInv
<1>2. CASE Arrive
  <2>1. /\ phase = "arrive" /\ arrived + 1 \in Requests
        /\ firstAt' = firstAt /\ waiting' = Append(waiting, arrived + 1)
    BY <1>2, <1>t DEF Arrive, Due, Requests
  <2>2. CASE j \in DOMAIN waiting
    <3>1. waiting'[j] = waiting[j] BY <1>t, <2>1, <2>2
    <3> QED BY <1>1, <2>1, <2>2, <3>1
  <2>3. CASE j \notin DOMAIN waiting
    <3>1. waiting'[j] = arrived + 1 BY <1>t, <2>1, <2>3
    <3>2. s > arrived BY <1>t, <3>1 DEF Requests
    <3>3. firstAt[s] = Unset BY <3>2 DEF BatchInv, Lifecycles, Lifecycle
    <3> QED BY <2>1, <3>3
  <2> QED BY <2>2, <2>3
<1>3. CASE FinishZeroMiss
  <2>1. idx \in 1..Len(waiting) BY <1>3, FrontierRequest DEF FinishZeroMiss
  <2>2. /\ phase = "planWaiting" /\ phase' = phase /\ slots' = slots
        /\ now' = now /\ running' = running
        /\ waiting' = SubSeq(waiting, 1, idx - 1) \o SubSeq(waiting, idx + 1, Len(waiting))
        /\ firstAt' = [firstAt EXCEPT ![waiting[idx]] = IF @ = Unset THEN now ELSE @]
    BY <1>3 DEF FinishZeroMiss, PlanningWaiting, budget
  <2>3. /\ waiting' \in Seq(Requests) /\ Len(waiting') = Len(waiting) - 1
        /\ \A i \in 1..(Len(waiting) - 1) :
               waiting'[i] = IF i < idx THEN waiting[i] ELSE waiting[i + 1]
    BY <1>t, <2>1, <2>2, WithoutType
  <2>4. j \in 1..(Len(waiting) - 1) BY <2>3
  <2>5. PICK k \in 1..Len(waiting) : /\ waiting'[j] = waiting[k] /\ k >= j
                                     /\ k < idx => k = j
    <3>1. CASE j < idx
      <4>1. j \in 1..Len(waiting) /\ waiting'[j] = waiting[j] BY <1>t, <2>3, <2>4, <3>1
      <4> QED BY <4>1, <2>4
    <3>2. CASE ~(j < idx)
      <4>1. j + 1 \in 1..Len(waiting) /\ waiting'[j] = waiting[j + 1]
        BY <1>t, <2>3, <2>4, <3>2
      <4>2. j + 1 >= j /\ ~(j + 1 < idx) BY <1>t, <2>4, <3>2
      <4> QED BY <4>1, <4>2
    <3> QED BY <3>1, <3>2
  <2>6. CASE s = waiting[idx]
    <3>1. firstAt'[s] = now /\ s \in Requests
      <4>1. firstAt[s] = Unset BY <1>t, <2>1, <2>6, WaitingUnset
      <4> QED BY <1>t, <2>2, <2>6, <4>1
    <3>2. k < idx
      <4>1. ~(idx < k) /\ k # idx
        <5>1. waiting[k] \in Requests /\ waiting[idx] \in Requests BY <1>t, <2>1
        <5>2. waiting[k] < waiting[idx] BY <2>5, <2>6
        <5>3. idx < k => waiting[idx] < waiting[k]
          BY <1>t, <2>1 DEF BatchInv, QueueInv
        <5> QED BY <5>1, <5>2, <5>3 DEF Requests
      <4> QED BY <1>t, <4>1
    <3>3. slots = Len(running) + idx - 1
      BY <2>2 DEF CourseInv, OnCourse, Position
    <3>4. Len(running) + j <= slots BY <1>t, <2>4, <2>5, <3>2, <3>3
    <3> QED BY <2>2, <3>1, <3>4
  <2>7. CASE s # waiting[idx]
    <3>1. firstAt'[s] = firstAt[s] BY <1>t, <2>2, <2>7
    <3>2. firstAt[s] = now /\ Len(running) + k <= slots
      BY <1>1, <1>t, <2>5, <3>1
    <3> QED BY <1>t, <2>2, <2>4, <2>5, <3>1, <3>2
  <2> QED BY <2>6, <2>7
<1>4. CASE AdmitWaiting
  <2>1. /\ phase' = phase /\ phase = "schedWaiting" /\ slots' = slots /\ now' = now
        /\ waiting' = Tail(waiting) /\ running' = Append(running, Head(waiting))
        /\ waiting # <<>> /\ Head(waiting) \in Requests
        /\ firstAt' = [firstAt EXCEPT ![Head(waiting)] = IF @ = Unset THEN now ELSE @]
    BY <1>4, AdmittedRequest DEF AdmitWaiting
  <2>2. /\ j \in 1..(Len(waiting) - 1) /\ waiting'[j] = waiting[j + 1]
        /\ Len(running') = Len(running) + 1 /\ Head(waiting) = waiting[1]
    BY <1>t, <2>1
  <2>3. 1 \in DOMAIN waiting /\ j + 1 \in DOMAIN waiting /\ 1 < j + 1 BY <1>t, <2>2
  <2>4. s # Head(waiting)
    <3>1. waiting[1] < waiting[j + 1] BY <2>3 DEF BatchInv, QueueInv
    <3>2. waiting[1] \in Requests /\ waiting[j + 1] \in Requests
      BY <2>3, WaitingUnset
    <3>3. waiting[j + 1] < s BY <2>2
    <3> QED BY <2>2, <3>1, <3>2, <3>3 DEF Requests
  <2>5. firstAt'[s] = firstAt[s] BY <1>t, <2>1, <2>4
  <2>6. firstAt[s] = now /\ Len(running) + (j + 1) <= slots
    BY <1>1, <2>2, <2>3, <2>5
  <2> QED BY <1>t, <2>1, <2>2, <2>5, <2>6
<1>5. CASE ~Arrive /\ ~FinishZeroMiss /\ ~AdmitWaiting
  <2>1. UNCHANGED <<waiting, firstAt>> /\ (~EndIteration => running' = running)
    BY <1>5, StatusFrame
  <2>2. /\ firstAt[s] = now /\ Len(running) + j <= slots
        /\ phase \notin {"arrive", "planRunning"}
    BY <1>1, <2>1
  <2>j. j \in Nat /\ j >= 1 BY <1>t, <2>1
  <2>3. ~EndIteration
    <3>1. EndIteration => slots <= Len(running) BY DEF EndIteration, SlotsInv
    <3> QED BY <1>t, <2>2, <2>j, <3>1
  <2>4. ~NothingLeft
    <3>1. NothingLeft => waiting = <<>> BY DEF NothingLeft, Idle
    <3> QED BY <1>t, <2>1, <2>j, <3>1
  <2>5. /\ now' = now /\ phase' \notin {"arrive", "planRunning"}
        /\ slots' = slots \/ slots' = slots + 1
    BY <1>5, <2>2, <2>3, <2>4
       DEF Next, Step, Terminated, vars, budget, JumpToArrival, BeginFrontier,
           PlanRunning, PlanRunningDone, LookupWaiting, EnsureLookup, PlanningWaiting,
           PlanWaiting, PlanWaitingDone, BeginSchedule, ScheduleRunning,
           ScheduleRunningDone, ScheduleDone, Estimate, ApplySlice
  <2> QED BY <1>t, <2>1, <2>2, <2>3, <2>j, <2>5
<1> QED BY <1>2, <1>3, <1>4, <1>5

-----------------------------------------------------------------------------
(* What the frontier guarantees.                                             *)

FrontierInvariant ==
    /\ BatchInv
    /\ WholeInv
    /\ CourseInv
    /\ SlotsInv
    /\ StallOnlyWhenTooLarge
    /\ LookAheadInv
    /\ TimesInv
    /\ PassedInv

THEOREM FrontierInvariance == Spec => []FrontierInvariant
<1>1. Init => FrontierInvariant
  <2> SUFFICES ASSUME Init PROVE FrontierInvariant
    OBVIOUS
  <2>1. BatchInv BY BatchInit
  <2>2. /\ phase = "arrive" /\ now = 0 /\ waiting = <<>>
        /\ \A r \in Requests : status[r] = "pending" /\ firstAt[r] = -1
    BY DEF Init, Unset
  <2>3. WholeInv BY <2>2 DEF WholeInv
  <2>4. CourseInv /\ SlotsInv /\ StallOnlyWhenTooLarge
    BY <2>2 DEF CourseInv, OnCourse, SlotsInv, StallOnlyWhenTooLarge
  <2>5. LookAheadInv /\ PassedInv BY <2>2 DEF LookAheadInv, PassedInv
  <2>6. TimesInv BY <2>2 DEF TimesInv, Unset
  <2> QED BY <2>1, <2>3, <2>4, <2>5, <2>6 DEF FrontierInvariant
<1>2. FrontierInvariant /\ [Next]_vars => FrontierInvariant'
  BY BatchStep, WholeStep, FrontierStep, SlotsStep, StallStep, LookAheadStep,
     TimesStep, PassedStep
     DEF FrontierInvariant
<1> QED BY <1>1, <1>2, PTL DEF Spec

\* A batch is empty only when the head of the queue is too large for the whole
\* budget, chunking is off and nobody else runs: then no later iteration could
\* schedule it either.
THEOREM StallsOnlyWhenTooLarge == Spec => []StallOnlyWhenTooLarge
<1>1. FrontierInvariant => StallOnlyWhenTooLarge BY DEF FrontierInvariant
<1> QED BY <1>1, FrontierInvariance, PTL

\* Between iterations at most the head of the queue has been looked up.
THEOREM LookAheadIsOneDeep == Spec => []LookAheadIsHead
<1>1. FrontierInvariant => LookAheadIsHead
  BY DEF FrontierInvariant, LookAheadInv, LookAheadIsHead
<1> QED BY <1>1, FrontierInvariance, PTL

\* The batch has the slices the frontier counted, and the scheduler reads the
\* remaining tokens of looked-up requests only, so require_cache_lookup never
\* raises.
THEOREM FrontierCoversScheduler == Spec => []FrontierCoversSchedule
<1>1. FrontierInvariant => FrontierCoversSchedule
  <2> SUFFICES ASSUME FrontierInvariant PROVE FrontierCoversSchedule
    OBVIOUS
  <2>1. phase = "estimate" => Len(slices) = slots BY DEF FrontierInvariant, SlotsInv
  <2>2. ASSUME phase = "schedWaiting", waiting # <<>>, Len(slices) < MaxSeqs, tok > 0
        PROVE  looked[Head(waiting)]
    <3>t. /\ slots \in Nat /\ tok \in Nat /\ waiting \in Seq(Requests)
          /\ Len(waiting) \in Nat /\ Len(running) \in Nat /\ Len(slices) \in Nat
          /\ Width = Len(running) + Len(waiting)
          /\ \A j \in 1..Len(waiting) : Line(Len(running) + j) = waiting[j]
      BY FrontierTypes DEF FrontierInvariant, BatchInv, TypeInv
    <3>1. PICK l, b :
              /\ Stopped(b[slots])
              /\ Len(slices) <= slots /\ Len(slices) <= Len(running)
              /\ tok = b[Len(slices)]
              /\ Len(slices) < slots => Len(slices) = Len(running)
              /\ Len(slices) < slots => looked[Line(Len(slices) + 1)]
      BY <2>2, SchedulerOnCourse DEF FrontierInvariant
    <3>2. /\ 1 \in 1..Len(waiting) /\ Head(waiting) = waiting[1] /\ Len(waiting) >= 1
          /\ Line(Len(running) + 1) = waiting[1]
      <4>1. /\ 1 \in 1..Len(waiting) /\ Head(waiting) = waiting[1] /\ Len(waiting) >= 1
        BY <3>t, <2>2
      <4> QED BY <3>t, <4>1
    <3>3. CASE Len(slices) < slots BY <3>1, <3>2, <3>3
    <3>4. CASE Len(slices) = slots
      <4>1. slots # MaxSeqs /\ slots # Width /\ b[slots] # 0
        BY <2>2, <3>t, <3>1, <3>2, <3>4
      <4>2. slots >= Len(running) /\ looked[Line(slots + 1)] BY <3>1, <4>1 DEF Stopped
      <4>3. slots = Len(running) BY <3>t, <3>1, <3>4, <4>2
      <4> QED BY <3>2, <4>2, <4>3
    <3> QED BY <3>t, <3>1, <3>3, <3>4
  <2> QED BY <2>1, <2>2 DEF FrontierCoversSchedule
<1> QED BY <1>1, FrontierInvariance, PTL

\* First come, first served, for every schedule.
THEOREM NobodyOvertakes == Spec => []NoOvertaking
<1>1. FrontierInvariant => NoOvertaking
  <2> SUFFICES ASSUME FrontierInvariant, phase = "arrive",
                      NEW r \in Requests, NEW s \in Requests,
                      r < s, firstAt[s] # Unset
               PROVE  firstAt[r] # Unset /\ firstAt[r] <= firstAt[s]
    BY DEF NoOvertaking
  <2>1. /\ status[r] \in {"pending", "waiting", "running", "finished"}
        /\ Lifecycle(r) /\ Lifecycle(s) /\ arrived \in Nat
    BY DEF FrontierInvariant, BatchInv, TypeInv, TypeOK, Lifecycles
  <2>2. status[r] # "pending"
    <3>1. ~(s > arrived) BY <2>1 DEF Lifecycle
    <3> QED BY <2>1, <3>1 DEF Lifecycle, Requests
  <2>3. status[r] # "waiting"
    <3> SUFFICES ASSUME status[r] = "waiting" PROVE FALSE
      OBVIOUS
    <3>1. PICK j \in DOMAIN waiting : waiting[j] = r
      BY DEF FrontierInvariant, BatchInv, QueueInv
    <3> QED BY <3>1 DEF FrontierInvariant, PassedInv
  <2>4. firstAt[r] # Unset BY <2>1, <2>2, <2>3 DEF Lifecycle
  <2> QED BY <2>4 DEF FrontierInvariant, TimesInv
<1> QED BY <1>1, FrontierInvariance, PTL

=========================================================================
