-------------------------- MODULE AlgorithmProofs --------------------------
(***************************************************************************)
(* Proofs about Algorithms, for any block size, any number of dropped      *)
(* blocks and prompts of any length.  The accounting of a lookup credits   *)
(* the longest prefix it may.  The infinite-HBM replay credits what a      *)
(* request shares with finished requests: its invariant says what is       *)
(* visible at a time, in terms of the results made so far (VisibleIsStored *)
(* below), and the chained keys turn common keys into common prefixes.     *)
(***************************************************************************)
EXTENDS Algorithms, PrefixCacheProofs

-----------------------------------------------------------------------------
(* The accounting of a lookup.                                               *)

LEMMA ProductOrder ==
    ASSUME NEW a \in Int, NEW b \in Int
    PROVE  a * BlockSize <= b * BlockSize <=> a <= b
<1>1. BlockSize \in Nat /\ BlockSize > 0 BY BlockSizeAssumption
<1>2. CASE a <= b
  <2>1. a * BlockSize <= b * BlockSize BY <1>1, <1>2
  <2> QED BY <1>2, <2>1
<1>3. CASE ~(a <= b)
  <2>1. b + 1 <= a BY <1>3
  <2>2. (b + 1) * BlockSize <= a * BlockSize BY <1>1, <2>1
  <2>3. (b + 1) * BlockSize = b * BlockSize + BlockSize BY <1>1
  <2>4. b * BlockSize \in Int /\ a * BlockSize \in Int BY <1>1
  <2> QED BY <1>1, <1>3, <2>2, <2>3, <2>4
<1> QED BY <1>2, <1>3

\* The number of whole blocks a limit allows.
LEMMA WholeBlocks ==
    ASSUME NEW limit \in Nat
    PROVE  /\ limit \div BlockSize \in Nat
           /\ \A k \in Nat : k * BlockSize <= limit <=> k <= limit \div BlockSize
<1>1. BlockSize \in Nat \ {0} BY BlockSizeAssumption
<1>2. PICK c : c = limit \div BlockSize OBVIOUS
<1>3. c \in Nat /\ c * BlockSize <= limit /\ limit < c * BlockSize + BlockSize
  BY <1>1, <1>2
<1>4. ASSUME NEW k \in Nat PROVE k * BlockSize <= limit <=> k <= c
  <2>1. k * BlockSize \in Int /\ c * BlockSize \in Int BY <1>1, <1>3
  <2>2. CASE k <= c
    <3>1. k * BlockSize <= c * BlockSize BY <1>3, <2>2, ProductOrder
    <3> QED BY <1>3, <2>1, <2>2, <3>1
  <2>3. CASE ~(k <= c)
    <3>1. c + 1 <= k /\ c + 1 \in Int BY <1>3, <2>3
    <3>2. (c + 1) * BlockSize <= k * BlockSize BY <3>1, ProductOrder
    <3>3. (c + 1) * BlockSize = c * BlockSize + BlockSize BY <1>1, <1>3
    <3> QED BY <1>1, <1>3, <2>1, <2>3, <3>2, <3>3
  <2> QED BY <2>2, <2>3
<1> QED BY <1>2, <1>3, <1>4

\* The loop stops where a block does not fit, and nowhere else.
LEMMA FullPrefixIs ==
    ASSUME NEW sizes, NEW limit, Len(sizes) \in Nat, NEW m \in 0..Len(sizes),
           \A i \in 1..m : Fits(sizes, limit, i),
           m < Len(sizes) => ~Fits(sizes, limit, m + 1)
    PROVE  FullPrefix(sizes, limit) = m
<1> DEFINE Stops(n) == /\ \A i \in 1..n : Fits(sizes, limit, i)
                       /\ n < Len(sizes) => ~Fits(sizes, limit, n + 1)
<1>1. \A n \in 0..Len(sizes) : Stops(n) => n = m
  <2> SUFFICES ASSUME NEW n \in 0..Len(sizes), Stops(n), n # m PROVE FALSE
    OBVIOUS
  <2>1. CASE n < m
    <3>1. n + 1 \in 1..m /\ n < Len(sizes) BY <2>1
    <3> QED BY <3>1
  <2>2. CASE m < n
    <3>1. m + 1 \in 1..n /\ m < Len(sizes) BY <2>2
    <3> QED BY <3>1
  <2> QED BY <2>1, <2>2
<1>2. Stops(m) OBVIOUS
<1>3. FullPrefix(sizes, limit) = CHOOSE n \in 0..Len(sizes) : Stops(n) BY DEF FullPrefix
<1> HIDE DEF Stops
<1> QED BY <1>1, <1>2, <1>3

\* The block counts of a prompt, and which of its blocks are whole.
LEMMA BlockSizes ==
    ASSUME NEW n \in Nat
    PROVE  /\ BlockCount(n) \in Nat
           /\ BlockTokens(n) \in Seq(Int) /\ Len(BlockTokens(n)) = BlockCount(n)
           /\ \A i \in 1..BlockCount(n) : BlockTokens(n)[i] = BlockSize <=> i * BlockSize <= n
<1>1. BlockSize \in Nat \ {0} BY BlockSizeAssumption
<1>2. BlockCount(n) \in Nat
  <2>1. n + BlockSize - 1 \in Nat BY <1>1
  <2> QED BY <2>1, WholeBlocks DEF BlockCount
<1>3. PICK c \in Nat : c = BlockCount(n) BY <1>2
<1>4. ASSUME NEW i \in 1..c
      PROVE  /\ MinOf(BlockSize, n - (i - 1) * BlockSize) \in Int
             /\ MinOf(BlockSize, n - (i - 1) * BlockSize) = BlockSize <=> i * BlockSize <= n
  <2>1. i * BlockSize \in Int /\ (i - 1) * BlockSize = i * BlockSize - BlockSize BY <1>1
  <2>2. PICK x \in Int : x = i * BlockSize BY <2>1
  <2>3. (i - 1) * BlockSize = x - BlockSize BY <2>1, <2>2
  <2>4. n - (i - 1) * BlockSize = n - x + BlockSize BY <1>1, <2>2, <2>3
  <2>5. MinOf(BlockSize, n - x + BlockSize) = BlockSize <=> x <= n
    BY <1>1, <2>2 DEF MinOf
  <2>6. MinOf(BlockSize, n - x + BlockSize) \in Int BY <1>1, <2>2 DEF MinOf
  <2> QED BY <2>2, <2>4, <2>5, <2>6
<1>5. BlockTokens(n) = [i \in 1..c |-> MinOf(BlockSize, n - (i - 1) * BlockSize)]
  BY <1>3 DEF BlockTokens
<1> QED BY <1>3, <1>4, <1>5

\* Where the blocks that fit are those up to number c, the loop stops after them.
LEMMA FullPrefixUpTo ==
    ASSUME NEW sizes, NEW limit, Len(sizes) \in Nat, NEW c \in Nat,
           \A i \in 1..Len(sizes) : Fits(sizes, limit, i) <=> i <= c
    PROVE  FullPrefix(sizes, limit) = MinOf(Len(sizes), c)
<1> DEFINE m == MinOf(Len(sizes), c)
<1>1. m \in 0..Len(sizes) /\ m <= c /\ (m < Len(sizes) => m = c) BY DEF MinOf
<1>2. \A i \in 1..m : Fits(sizes, limit, i) BY <1>1
<1>3. m < Len(sizes) => ~Fits(sizes, limit, m + 1) BY <1>1
<1> HIDE DEF m
<1>4. FullPrefix(sizes, limit) = m BY <1>1, <1>2, <1>3, FullPrefixIs
<1> QED BY <1>4 DEF m

\* The credit of the definition: as many of the resident blocks as a limit
\* allows, without the dropped ones.
LEMMA CreditedIs ==
    ASSUME NEW n \in Nat, NEW hits \in Nat
    PROVE  LET allowed == MaxCacheHitLength(n) \div BlockSize
           IN  /\ MaxCacheHitLength(n) \in Nat /\ MaxCacheHitLength(n) <= n
               /\ allowed \in Nat
               /\ Credited(n, hits) = MaxOf(MinOf(hits, allowed) - DropBlocks, 0)
<1> DEFINE limit == MaxCacheHitLength(n)
           allowed == limit \div BlockSize
           m == MinOf(hits, allowed)
           skippable == {k \in 0..hits : k * BlockSize <= limit}
<1>1. limit \in Nat /\ limit <= n /\ limit = MaxOf(n - KeptTokens, 0)
  BY DropBlocksAssumption DEF MaxCacheHitLength, MaxOf
<1> HIDE DEF limit
<1>2. allowed \in Nat /\ \A k \in Nat : k * BlockSize <= limit <=> k <= allowed
  BY <1>1, WholeBlocks
<1> HIDE DEF allowed
<1>3. skippable = {k \in 0..hits : k <= allowed} BY <1>2
<1>4. m \in skippable /\ \A j \in skippable : j <= m BY <1>2, <1>3 DEF MinOf
<1>5. skippable \subseteq Int OBVIOUS
<1>6. Credited(n, hits) =
        MaxOf((CHOOSE k \in skippable : \A j \in skippable : j <= k) - DropBlocks, 0)
  BY <1>1 DEF Credited
<1> HIDE DEF skippable, m
<1>7. (CHOOSE k \in skippable : \A j \in skippable : j <= k) = m
  <2>1. \A k \in skippable : (\A j \in skippable : j <= k) => k = m BY <1>4, <1>5
  <2> QED BY <1>4, <2>1
<1>8. Credited(n, hits) = MaxOf(MinOf(hits, allowed) - DropBlocks, 0) BY <1>6, <1>7 DEF m
<1> QED BY <1>1, <1>2, <1>8 DEF limit, allowed

\* The accounting of h blocks hit in HBM and d blocks hit behind them in DDR.
LEMMA AccountCredits ==
    ASSUME NEW n \in Nat, NEW h \in Nat, NEW d \in Nat, h + d <= BlockCount(n)
    PROVE  LET sizes == BlockTokens(n)
               credited == Credited(n, h + d)
               inHbm    == MinOf(credited, h)
           IN  Account(n, SubSeq(sizes, 1, h), SubSeq(sizes, h + 1, h + d))
                 = [cap  |-> credited * BlockSize,
                    hbm  |-> inHbm * BlockSize,
                    ddr  |-> (credited - inHbm) * BlockSize,
                    miss |-> n - credited * BlockSize]
<1> DEFINE sizes == BlockTokens(n)
           hbm == SubSeq(sizes, 1, h)
           ddr == SubSeq(sizes, h + 1, h + d)
           limit == MaxCacheHitLength(n)
           allowed == limit \div BlockSize
           m == MinOf(h + d, allowed)
           c == Credited(n, h + d)
           x == MinOf(c, h)
<1>1. BlockCount(n) \in Nat /\ sizes \in Seq(Int) /\ Len(sizes) = BlockCount(n)
  BY BlockSizes
<1>2. \A i \in 1..(h + d) : sizes[i] = BlockSize <=> i * BlockSize <= n
  <2>1. \A i \in 1..BlockCount(n) : sizes[i] = BlockSize <=> i * BlockSize <= n BY BlockSizes
  <2> HIDE DEF sizes
  <2> QED BY <1>1, <2>1
<1>3. limit \in Nat /\ limit <= n /\ allowed \in Nat BY CreditedIs
<1>4. c = MaxOf(m - DropBlocks, 0) BY CreditedIs
<1>5. \A k \in Nat : k * BlockSize <= limit <=> k <= allowed BY <1>3, WholeBlocks
<1>6. BlockSize \in Nat /\ BlockSize > 0 /\ DropBlocks \in Nat
  BY BlockSizeAssumption, DropBlocksAssumption
<1> HIDE DEF sizes, limit, allowed, c
<1>7. /\ hbm \in Seq(Int) /\ Len(hbm) = h /\ \A i \in 1..h : hbm[i] = sizes[i]
      /\ ddr \in Seq(Int) /\ Len(ddr) = d /\ \A i \in 1..d : ddr[i] = sizes[h + i]
  <2>1. hbm \in Seq(Int) /\ Len(hbm) = h /\ \A i \in 1..h : hbm[i] = sizes[i] BY <1>1
  <2>2. ddr \in Seq(Int) /\ Len(ddr) = d BY <1>1
  <2>3. \A i \in 1..d : ddr[i] = sizes[h + i] BY <1>1
  <2> QED BY <2>1, <2>2, <2>3
<1> HIDE DEF hbm, ddr
<1>8. Len(hbm \o ddr) = h + d /\ \A i \in 1..(h + d) : (hbm \o ddr)[i] = sizes[i]
  <2>1. Len(hbm \o ddr) = h + d BY <1>7
  <2>2. ASSUME NEW i \in 1..(h + d) PROVE (hbm \o ddr)[i] = sizes[i]
    <3>1. (hbm \o ddr)[i] = IF i <= h THEN hbm[i] ELSE ddr[i - h]
      BY <1>7, ConcatProperties
    <3>2. CASE i <= h BY <1>7, <3>1, <3>2
    <3>3. CASE ~(i <= h)
      <4>1. i - h \in 1..d /\ h + (i - h) = i BY <3>3
      <4>2. ddr[i - h] = sizes[h + (i - h)] BY <1>7, <4>1
      <4> QED BY <3>1, <3>3, <4>1, <4>2
    <3> QED BY <3>2, <3>3
  <2> QED BY <2>1, <2>2
<1>9. m \in Nat /\ m <= allowed /\ m <= h + d BY <1>3 DEF MinOf
<1>10. FullPrefix(hbm \o ddr, limit) = m
  <2>1. ASSUME NEW i \in 1..(h + d) PROVE Fits(hbm \o ddr, limit, i) <=> i <= allowed
    <3>1. i * BlockSize \in Int /\ i \in Nat BY <1>6
    <3>2. i * BlockSize <= limit <=> i <= allowed BY <1>5, <3>1
    <3>3. (hbm \o ddr)[i] = BlockSize <=> i * BlockSize <= n BY <1>2, <1>8
    <3>4. i * BlockSize <= limit => i * BlockSize <= n BY <1>3, <3>1
    <3>5. (Fits(hbm \o ddr, limit, i)) <=> i * BlockSize <= limit
      BY <3>3, <3>4 DEF Fits
    <3> QED BY <3>2, <3>5
  <2>2. PICK both : both = hbm \o ddr OBVIOUS
  <2>3. Len(both) = h + d /\ \A i \in 1..Len(both) : Fits(both, limit, i) <=> i <= allowed
    BY <1>8, <2>1, <2>2
  <2>4. FullPrefix(both, limit) = MinOf(Len(both), allowed) BY <1>3, <2>3, FullPrefixUpTo
  <2> QED BY <2>2, <2>3, <2>4
<1> HIDE DEF m
<1>11. c \in Nat /\ c <= m BY <1>4, <1>6, <1>9 DEF MaxOf
<1>12. \A i \in 1..(h + d) : i <= c => sizes[i] = BlockSize
  <2> SUFFICES ASSUME NEW i \in 1..(h + d), i <= c PROVE sizes[i] = BlockSize OBVIOUS
  <2>1. i * BlockSize <= limit /\ i * BlockSize \in Int BY <1>3, <1>5, <1>6, <1>9, <1>11
  <2> QED BY <1>2, <1>3, <2>1
<1>13. x \in Nat /\ x <= c /\ x <= h /\ (x < h => x = c) BY <1>11 DEF MinOf
<1>14. FullPrefix(hbm, c * BlockSize) = x
  <2>1. ASSUME NEW i \in 1..h PROVE Fits(hbm, c * BlockSize, i) <=> i <= c
    <3>1. i * BlockSize <= c * BlockSize <=> i <= c BY <1>11, ProductOrder
    <3>2. i \in 1..(h + d) /\ hbm[i] = sizes[i] BY <1>7
    <3>3. i <= c => hbm[i] = BlockSize BY <1>12, <3>2
    <3> QED BY <3>1, <3>3 DEF Fits
  <2>2. FullPrefix(hbm, c * BlockSize) = MinOf(h, c) BY <1>7, <1>11, <2>1, FullPrefixUpTo
  <2> QED BY <1>11, <2>2 DEF MinOf
<1> HIDE DEF x
<1>15. c * BlockSize - x * BlockSize = (c - x) * BlockSize BY <1>6, <1>11, <1>13
<1>16. c - x \in Nat /\ c - x <= d BY <1>9, <1>11, <1>13
<1>17. FullPrefix(ddr, (c - x) * BlockSize) = c - x
  <2>1. ASSUME NEW i \in 1..d PROVE Fits(ddr, (c - x) * BlockSize, i) <=> i <= c - x
    <3>1. i * BlockSize <= (c - x) * BlockSize <=> i <= c - x BY <1>16, ProductOrder
    <3>2. i <= c - x => h + i <= c BY <1>11, <1>13
    <3>3. i <= c - x => ddr[i] = BlockSize BY <1>7, <1>12, <3>2
    <3> QED BY <3>1, <3>3 DEF Fits
  <2>2. FullPrefix(ddr, (c - x) * BlockSize) = MinOf(d, c - x)
    BY <1>7, <1>16, <2>1, FullPrefixUpTo
  <2> QED BY <1>16, <2>2 DEF MinOf
<1>18. MinOf(m, allowed) = m BY <1>3, <1>9 DEF MinOf
<1>19. n - x * BlockSize - (c - x) * BlockSize = n - c * BlockSize
  <2>1. c * BlockSize \in Int /\ x * BlockSize \in Int BY <1>6, <1>11, <1>13
  <2> QED BY <1>15, <2>1
<1>20. Account(n, hbm, ddr)
         = [cap |-> c * BlockSize, hbm |-> x * BlockSize, ddr |-> (c - x) * BlockSize,
            miss |-> n - x * BlockSize - (c - x) * BlockSize]
  <2>1. FullPrefix(hbm \o ddr, MaxCacheHitLength(n)) = m BY <1>10 DEF limit
  <2>2. MinOf(m, MaxCacheHitLength(n) \div BlockSize) = m BY <1>18 DEF limit, allowed
  <2> QED BY <1>4, <1>14, <1>15, <1>17, <2>1, <2>2 DEF Account
<1> QED BY <1>19, <1>20 DEF sizes, hbm, ddr, c, x

\* The result of a lookup is not there yet or is the accounting of it.
LookupInv ==
    /\ lookup \in Lookups
    /\ result # <<>> =>
         LET sizes == BlockTokens(lookup.tokens)
         IN  result = <<Account(lookup.tokens, SubSeq(sizes, 1, lookup.hbmHits),
                                SubSeq(sizes, lookup.hbmHits + 1, lookup.hbmHits + lookup.ddrHits))>>

LEMMA LookupInvariance == Spec => []LookupInv
<1>1. Init => LookupInv
  <2> SUFFICES ASSUME Init PROVE LookupInv OBVIOUS
  <2>1. NoLookup \in Lookups
    <3>1. BlockCount(0) \in Nat BY BlockSizes
    <3>2. 0 \in 0..MaxTokens BY MaxTokensAssumption
    <3> QED BY <3>1, <3>2 DEF NoLookup, Lookups
  <2> QED BY <2>1 DEF Init, LookupInv
<1>2. LookupInv /\ [Next]_<<replayVars, lookup, result>> => LookupInv'
  <2> SUFFICES ASSUME LookupInv, [Next]_<<replayVars, lookup, result>> PROVE LookupInv' OBVIOUS
  <2>1. CASE Compute BY <2>1 DEF Compute, LookupInv
  <2>2. CASE UNCHANGED <<lookup, result>> BY <2>2 DEF LookupInv
  <2> QED BY <2>1, <2>2 DEF Next
<1> QED BY <1>1, <1>2, PTL DEF Spec

\* A lookup credits the longest prefix of whole resident blocks that leaves a
\* token to compute, without the blocks speculative decoding drops, and splits it
\* where the tiers meet (cache/cached_token_accounting.py): for prompts of any
\* length, any block size and any number of dropped blocks.
THEOREM CreditsLongest == Spec => []CreditsLongestPrefix
<1>1. LookupInv => CreditsLongestPrefix
  <2> SUFFICES ASSUME LookupInv, result # <<>> PROVE CreditsLongestPrefix
    BY DEF CreditsLongestPrefix
  <2>1. /\ lookup.tokens \in Nat /\ lookup.hbmHits \in Nat /\ lookup.ddrHits \in Nat
        /\ lookup.hbmHits + lookup.ddrHits <= BlockCount(lookup.tokens)
    BY MaxTokensAssumption DEF LookupInv, Lookups
  <2>2. LET sizes == BlockTokens(lookup.tokens)
            credited == Credited(lookup.tokens, lookup.hbmHits + lookup.ddrHits)
            inHbm    == MinOf(credited, lookup.hbmHits)
        IN  Account(lookup.tokens, SubSeq(sizes, 1, lookup.hbmHits),
                    SubSeq(sizes, lookup.hbmHits + 1, lookup.hbmHits + lookup.ddrHits))
              = [cap  |-> credited * BlockSize,
                 hbm  |-> inHbm * BlockSize,
                 ddr  |-> (credited - inHbm) * BlockSize,
                 miss |-> lookup.tokens - credited * BlockSize]
    BY <2>1, AccountCredits
  <2>3. result[1] = Account(lookup.tokens, SubSeq(BlockTokens(lookup.tokens), 1, lookup.hbmHits),
                            SubSeq(BlockTokens(lookup.tokens), lookup.hbmHits + 1,
                                   lookup.hbmHits + lookup.ddrHits))
    BY DEF LookupInv
  <2> QED BY <2>2, <2>3 DEF CreditsLongestPrefix
<1> QED BY <1>1, LookupInvariance, PTL

-----------------------------------------------------------------------------
(* The keys of a prompt.                                                     *)

\* The blocks of a prompt up to its whole ones.
LEMMA BlocksOf ==
    ASSUME NEW n \in Nat
    PROVE  /\ n \div BlockSize \in Nat /\ n \div BlockSize <= BlockCount(n)
           /\ \A k \in Nat : k * BlockSize <= n <=> k <= n \div BlockSize
           /\ \A k \in Nat : k * BlockSize < n + BlockSize <=> k <= BlockCount(n)
<1>1. BlockSize \in Nat /\ BlockSize > 0 BY BlockSizeAssumption
<1>2. n \div BlockSize \in Nat /\ \A k \in Nat : k * BlockSize <= n <=> k <= n \div BlockSize
  BY WholeBlocks
<1>3. /\ BlockCount(n) \in Nat
      /\ \A k \in Nat : k * BlockSize <= n + BlockSize - 1 <=> k <= BlockCount(n)
  <2>1. n + BlockSize - 1 \in Nat BY <1>1
  <2> QED BY <2>1, WholeBlocks DEF BlockCount
<1>4. PICK d \in Nat : d = n \div BlockSize BY <1>2
<1>5. d * BlockSize <= n /\ d * BlockSize \in Nat BY <1>1, <1>2, <1>4
<1>6. d * BlockSize <= n + BlockSize - 1 BY <1>1, <1>5
<1>7. d <= BlockCount(n) BY <1>3, <1>6
<1>8. ASSUME NEW k \in Nat PROVE k * BlockSize < n + BlockSize <=> k <= BlockCount(n)
  <2>1. PICK x \in Nat : x = k * BlockSize BY <1>1
  <2>2. x < n + BlockSize <=> x <= n + BlockSize - 1 BY <1>1
  <2> QED BY <1>3, <2>1, <2>2
<1> QED BY <1>2, <1>4, <1>7, <1>8

\* The tenant that goes into the keys.
KeyTenant(request, scope) == IF scope = Isolated THEN request.tenant ELSE ""

\* c is the chain of the keys of a request, from that of no block.
IsChain(c, request, scope, n) ==
    c = [i \in 0..n |->
            IF i = 0 THEN <<>>
            ELSE <<c[i - 1], request.model, KeyTenant(request, scope), Content(request.tokens, i)>>]

LEMMA ChainExists ==
    ASSUME NEW request, NEW scope, NEW n \in Nat
    PROVE  \E c : IsChain(c, request, scope, n)
<1> DEFINE Link(k, i) == <<k, request.model, KeyTenant(request, scope), Content(request.tokens, i)>>
           S == {m \in Nat : \E c : c = [i \in 0..m |-> IF i = 0 THEN <<>> ELSE Link(c[i - 1], i)]}
<1> HIDE DEF Link
<1>1. 0 \in S
  <2>1. PICK c : c = [i \in 0..0 |-> <<>>] OBVIOUS
  <2>2. c = [i \in 0..0 |-> IF i = 0 THEN <<>> ELSE Link(c[i - 1], i)] BY <2>1
  <2> QED BY <2>2
<1>2. ASSUME NEW m \in Nat, m \in S PROVE m + 1 \in S
  <2>1. PICK c : c = [i \in 0..m |-> IF i = 0 THEN <<>> ELSE Link(c[i - 1], i)] BY <1>2
  <2>2. PICK d : d = [i \in 0..(m + 1) |-> IF i = m + 1 THEN Link(c[m], m + 1) ELSE c[i]]
    OBVIOUS
  <2>3. ASSUME NEW i \in 0..(m + 1)
        PROVE  d[i] = IF i = 0 THEN <<>> ELSE Link(d[i - 1], i)
    <3>1. CASE i = m + 1
      <4>1. m \in 0..(m + 1) /\ m # m + 1 /\ i - 1 = m /\ i # 0 BY <3>1
      <4>2. d[m] = c[m] /\ d[i] = Link(c[m], m + 1) BY <2>2, <3>1, <4>1
      <4> QED BY <3>1, <4>1, <4>2
    <3>2. CASE i # m + 1 /\ i # 0
      <4>1. i \in 0..m /\ i - 1 \in 0..(m + 1) /\ i - 1 # m + 1 BY <3>2
      <4>2. d[i] = c[i] /\ d[i - 1] = c[i - 1] BY <2>2, <3>2, <4>1
      <4>3. c[i] = Link(c[i - 1], i) BY <2>1, <3>2, <4>1
      <4> QED BY <3>2, <4>2, <4>3
    <3>3. CASE i = 0
      <4>1. d[i] = c[i] /\ c[i] = <<>> BY <2>1, <2>2, <3>3
      <4> QED BY <3>3, <4>1
    <3> QED BY <3>1, <3>2, <3>3
  <2>4. d = [i \in 0..(m + 1) |-> IF i = 0 THEN <<>> ELSE Link(d[i - 1], i)]
    <3>1. d = [i \in 0..(m + 1) |-> d[i]] BY <2>2
    <3> QED BY <2>3, <3>1
  <2> QED BY <2>4
<1>3. n \in S
  <2> HIDE DEF S
  <2> QED BY <1>1, <1>2, SetInduction
<1> QED BY <1>3 DEF IsChain, Link

\* c holds the n keys of a request, each with the one before it in itself.
HoldsKeys(c, request, scope, n) ==
    /\ n \in Nat
    /\ BlockKeys(request, scope) = [i \in 1..n |-> c[i]]
    /\ c[0] = <<>>
    /\ \A i \in 1..n : c[i] = <<c[i - 1], request.model, KeyTenant(request, scope),
                               Content(request.tokens, i)>>

LEMMA KeysAreChain ==
    ASSUME NEW request, NEW scope, Len(request.tokens) \in Nat
    PROVE  \E c : HoldsKeys(c, request, scope, BlockCount(Len(request.tokens)))
<1> DEFINE n == BlockCount(Len(request.tokens))
<1>1. n \in Nat BY BlockSizes
<1>2. PICK c : c = CHOOSE d : IsChain(d, request, scope, n) OBVIOUS
<1>3. IsChain(c, request, scope, n) BY <1>1, <1>2, ChainExists
<1>4. BlockKeys(request, scope) = [i \in 1..n |-> c[i]]
  <2>1. BlockKeys(request, scope)
          = [i \in 1..n |-> (CHOOSE d : IsChain(d, request, scope, n))[i]]
    BY Zenon DEF BlockKeys, IsChain, KeyTenant
  <2> QED BY <1>2, <2>1
<1>5. c[0] = <<>> BY <1>1, <1>3 DEF IsChain
<1>6. ASSUME NEW i \in 1..n
      PROVE  c[i] = <<c[i - 1], request.model, KeyTenant(request, scope),
                      Content(request.tokens, i)>>
  <2>1. i \in 0..n /\ i # 0 BY <1>1
  <2> QED BY <1>3, <2>1 DEF IsChain
<1> QED BY <1>1, <1>4, <1>5, <1>6 DEF HoldsKeys

\* Two keys are equal only at the same place, of the same model and tenant, and
\* after the same blocks: the chain is unwound from its end.
LEMMA EqualKeys ==
    ASSUME NEW p, NEW q, NEW scope, Len(p.tokens) \in Nat, Len(q.tokens) \in Nat,
           NEW i \in 1..BlockCount(Len(p.tokens)), NEW j \in 1..BlockCount(Len(q.tokens)),
           BlockKeys(p, scope)[i] = BlockKeys(q, scope)[j]
    PROVE  /\ i = j /\ p.model = q.model /\ KeyTenant(p, scope) = KeyTenant(q, scope)
           /\ \A k \in 1..i : Content(p.tokens, k) = Content(q.tokens, k)
<1> DEFINE a == BlockCount(Len(p.tokens))
           b == BlockCount(Len(q.tokens))
           P(k) == Content(p.tokens, k)
           Q(k) == Content(q.tokens, k)
<1>a. PICK c : HoldsKeys(c, p, scope, a) BY KeysAreChain
<1>b. PICK d : HoldsKeys(d, q, scope, b) BY KeysAreChain
<1> HIDE DEF a, b
<1>1. /\ a \in Nat /\ BlockKeys(p, scope) = [k \in 1..a |-> c[k]] /\ c[0] = <<>>
      /\ \A k \in 1..a : c[k] = <<c[k - 1], p.model, KeyTenant(p, scope), P(k)>>
  BY <1>a DEF HoldsKeys
<1>2. /\ b \in Nat /\ BlockKeys(q, scope) = [k \in 1..b |-> d[k]] /\ d[0] = <<>>
      /\ \A k \in 1..b : d[k] = <<d[k - 1], q.model, KeyTenant(q, scope), Q(k)>>
  BY <1>b DEF HoldsKeys
<1> DEFINE Good == {m \in Nat : \A n \in Nat : m <= a /\ n <= b /\ c[m] = d[n]
                                  => m = n /\ \A k \in 1..m : P(k) = Q(k)}
<1> HIDE DEF P, Q
<1>3. 0 \in Good
  <2> SUFFICES ASSUME NEW n \in Nat, n <= b, c[0] = d[n] PROVE n = 0 OBVIOUS
  <2>1. CASE n # 0
    <3>1. d[n] = <<d[n - 1], q.model, KeyTenant(q, scope), Q(n)>> BY <1>2, <2>1
    <3>2. <<d[n - 1], q.model, KeyTenant(q, scope), Q(n)>> # <<>> OBVIOUS
    <3> QED BY <1>1, <3>1, <3>2
  <2> QED BY <2>1
<1>4. ASSUME NEW m \in Nat, m \in Good PROVE m + 1 \in Good
  <2> SUFFICES ASSUME NEW n \in Nat, m + 1 <= a, n <= b, c[m + 1] = d[n]
               PROVE  m + 1 = n /\ \A k \in 1..(m + 1) : P(k) = Q(k)
    OBVIOUS
  <2>1. c[m + 1] = <<c[m], p.model, KeyTenant(p, scope), P(m + 1)>>
    <3>1. m + 1 \in 1..a /\ (m + 1) - 1 = m BY <1>1
    <3> QED BY <1>1, <3>1
  <2>2. n # 0
    <3> SUFFICES ASSUME n = 0 PROVE FALSE OBVIOUS
    <3>1. <<c[m], p.model, KeyTenant(p, scope), P(m + 1)>> # <<>> OBVIOUS
    <3> QED BY <1>2, <2>1, <3>1
  <2>3. d[n] = <<d[n - 1], q.model, KeyTenant(q, scope), Q(n)>> BY <1>2, <2>2
  <2>4. c[m] = d[n - 1] /\ P(m + 1) = Q(n) 
    <3>1. c[m + 1][1] = c[m] /\ c[m + 1][4] = P(m + 1) BY <2>1
    <3>2. d[n][1] = d[n - 1] /\ d[n][4] = Q(n) BY <2>3
    <3> QED BY <3>1, <3>2
  <2>5. n - 1 \in Nat /\ n - 1 <= b /\ m <= a BY <1>1, <1>2, <2>2
  <2>6. m = n - 1 /\ \A k \in 1..m : P(k) = Q(k) BY <1>4, <2>4, <2>5
  <2> QED BY <2>4, <2>6
<1>5. i \in Good
  <2>1. \A m \in Nat : m \in Good
    <3> HIDE DEF Good
    <3> QED BY <1>3, <1>4, SetInduction
  <2> QED BY <1>1, <2>1 DEF a
<1>6. c[i] = d[j] BY <1>1, <1>2 DEF a, b
<1>7. i \in 1..a /\ j \in 1..b BY DEF a, b
<1>8. i = j /\ \A k \in 1..i : P(k) = Q(k) BY <1>1, <1>2, <1>5, <1>6, <1>7
<1>9. p.model = q.model /\ KeyTenant(p, scope) = KeyTenant(q, scope)
  <2>1. c[i] = <<c[i - 1], p.model, KeyTenant(p, scope), P(i)>> BY <1>1, <1>7
  <2>2. d[j] = <<d[j - 1], q.model, KeyTenant(q, scope), Q(j)>> BY <1>2, <1>7
  <2>3. c[i][2] = p.model /\ c[i][3] = KeyTenant(p, scope) BY <2>1
  <2>4. d[j][2] = q.model /\ d[j][3] = KeyTenant(q, scope) BY <2>2
  <2> QED BY <1>6, <2>3, <2>4
<1> QED BY <1>8, <1>9 DEF P, Q

\* After the same blocks, for the same model and tenant, the keys are equal.
LEMMA SameKeys ==
    ASSUME NEW p, NEW q, NEW scope, Len(p.tokens) \in Nat, Len(q.tokens) \in Nat,
           NEW i \in 1..BlockCount(Len(p.tokens)), i <= BlockCount(Len(q.tokens)),
           p.model = q.model, KeyTenant(p, scope) = KeyTenant(q, scope),
           \A k \in 1..i : Content(p.tokens, k) = Content(q.tokens, k)
    PROVE  BlockKeys(p, scope)[i] = BlockKeys(q, scope)[i]
<1> DEFINE a == BlockCount(Len(p.tokens))
           b == BlockCount(Len(q.tokens))
           P(k) == Content(p.tokens, k)
           Q(k) == Content(q.tokens, k)
<1>a. PICK c : HoldsKeys(c, p, scope, a) BY KeysAreChain
<1>b. PICK d : HoldsKeys(d, q, scope, b) BY KeysAreChain
<1> HIDE DEF a, b
<1>1. /\ a \in Nat /\ BlockKeys(p, scope) = [k \in 1..a |-> c[k]] /\ c[0] = <<>>
      /\ \A k \in 1..a : c[k] = <<c[k - 1], p.model, KeyTenant(p, scope), P(k)>>
  BY <1>a DEF HoldsKeys
<1>2. /\ b \in Nat /\ BlockKeys(q, scope) = [k \in 1..b |-> d[k]] /\ d[0] = <<>>
      /\ \A k \in 1..b : d[k] = <<d[k - 1], q.model, KeyTenant(q, scope), Q(k)>>
  BY <1>b DEF HoldsKeys
<1>3. i \in 1..a /\ i <= b /\ \A k \in 1..i : P(k) = Q(k) BY DEF a, b
<1> DEFINE Good == {m \in Nat : m <= i => c[m] = d[m]}
<1> HIDE DEF P, Q
<1>4. 0 \in Good BY <1>1, <1>2
<1>5. ASSUME NEW m \in Nat, m \in Good PROVE m + 1 \in Good
  <2> SUFFICES ASSUME m + 1 <= i PROVE c[m + 1] = d[m + 1] OBVIOUS
  <2>1. m + 1 \in 1..a /\ m + 1 \in 1..b /\ m + 1 \in 1..i /\ (m + 1) - 1 = m /\ m <= i
    BY <1>1, <1>2, <1>3
  <2>2. c[m + 1] = <<c[m], p.model, KeyTenant(p, scope), P(m + 1)>> BY <1>1, <2>1
  <2>3. d[m + 1] = <<d[m], q.model, KeyTenant(q, scope), Q(m + 1)>> BY <1>2, <2>1
  <2>4. c[m] = d[m] /\ P(m + 1) = Q(m + 1) BY <1>3, <1>5, <2>1
  <2> QED BY <2>2, <2>3, <2>4
<1>6. i \in Good
  <2>1. \A m \in Nat : m \in Good
    <3> HIDE DEF Good
    <3> QED BY <1>4, <1>5, SetInduction
  <2> QED BY <1>1, <1>3, <2>1
<1> QED BY <1>1, <1>2, <1>3, <1>6

\* The tokens of a block.
LEMMA ContentIs ==
    ASSUME NEW s \in Seq(Nat), NEW i \in 1..BlockCount(Len(s))
    PROVE  LET size == MinOf(i * BlockSize, Len(s)) - (i - 1) * BlockSize
           IN  /\ size \in 1..BlockSize
               /\ size = BlockSize <=> i * BlockSize <= Len(s)
               /\ Content(s, i) \in Seq(Nat) /\ Len(Content(s, i)) = size
               /\ \A o \in 1..size : Content(s, i)[o] = s[(i - 1) * BlockSize + o]
<1>1. BlockSize \in Nat /\ BlockSize > 0 BY BlockSizeAssumption
<1>2. PICK n \in Nat : n = Len(s) OBVIOUS
<1>3. BlockCount(n) \in Nat /\ i \in Nat /\ i >= 1 BY <1>2, BlockSizes
<1>4. PICK x \in Nat : x = (i - 1) * BlockSize BY <1>1, <1>3
<1>5. i * BlockSize = x + BlockSize BY <1>1, <1>3, <1>4
<1>6. x < n
  <2>1. i * BlockSize < n + BlockSize BY <1>2, <1>3, BlocksOf
  <2> QED BY <1>1, <1>2, <1>5, <2>1
<1>7. PICK e \in Nat : e = MinOf(x + BlockSize, n)
  <2>1. MinOf(x + BlockSize, n) \in Nat BY <1>1 DEF MinOf
  <2> QED BY <2>1
<1>8. e <= n /\ e - x \in 1..BlockSize /\ (e - x = BlockSize <=> x + BlockSize <= n)
  BY <1>1, <1>2, <1>6, <1>7 DEF MinOf
<1>9. Content(s, i) = SubSeq(s, x + 1, e) BY <1>2, <1>4, <1>5, <1>7 DEF Content
<1>10. /\ SubSeq(s, x + 1, e) \in Seq(Nat) /\ Len(SubSeq(s, x + 1, e)) = e - x
       /\ \A o \in 1..(e - x) : SubSeq(s, x + 1, e)[o] = s[x + o]
  <2>1. \A o \in 1..(e - x) : (x + 1) + o - 1 = x + o OBVIOUS
  <2>2. x + 1 \in 1..(n + 1) /\ e \in x..n BY <1>6, <1>8
  <2> QED BY <1>2, <1>8, <2>1, <2>2, SubSeqProperties
<1>11. MinOf(i * BlockSize, Len(s)) - (i - 1) * BlockSize = e - x
  BY <1>2, <1>4, <1>5, <1>7
<1> QED BY <1>2, <1>4, <1>5, <1>8, <1>9, <1>10, <1>11

\* A position of a prompt is in one of its blocks.
LEMMA BlockOf ==
    ASSUME NEW k \in Nat, NEW x \in 1..(k * BlockSize)
    PROVE  \E i \in 1..k : \E o \in 1..BlockSize : x = (i - 1) * BlockSize + o
<1>1. BlockSize \in Nat /\ BlockSize > 0 BY BlockSizeAssumption
<1>2. k * BlockSize \in Nat BY <1>1
<1>3. x - 1 \in Nat BY <1>2
<1>4. PICK c \in Nat : c = (x - 1) \div BlockSize BY <1>3, WholeBlocks
<1>5. c * BlockSize <= x - 1 /\ c * BlockSize \in Nat
  BY <1>1, <1>3, <1>4, WholeBlocks
<1>6. ~((c + 1) * BlockSize <= x - 1)
  <2>1. c + 1 \in Nat /\ ~(c + 1 <= c) OBVIOUS
  <2> QED BY <1>3, <1>4, <2>1, WholeBlocks
<1>7. (c + 1) * BlockSize = c * BlockSize + BlockSize BY <1>1
<1>8. PICK y \in Nat : y = c * BlockSize BY <1>5
<1>9. x - y \in 1..BlockSize BY <1>1, <1>2, <1>5, <1>6, <1>7, <1>8
<1>10. c + 1 <= k
  <2>1. c * BlockSize < k * BlockSize BY <1>2, <1>3, <1>5
  <2>2. ~(k * BlockSize <= c * BlockSize) BY <1>2, <1>5, <2>1
  <2>3. ~(k <= c) BY <2>2, ProductOrder
  <2> QED BY <2>3
<1>11. c + 1 \in 1..k /\ (c + 1) - 1 = c BY <1>10
<1>12. x = c * BlockSize + (x - y) BY <1>2, <1>8
<1> QED BY <1>9, <1>11, <1>12

\* Two prompts share their first k blocks, where those of the first are whole,
\* exactly if the keys' contents are the same.
LEMMA SharedBlocks ==
    ASSUME NEW s \in Seq(Nat), NEW t \in Seq(Nat), NEW k \in 1..(Len(s) \div BlockSize)
    PROVE  SamePrefix(s, t, k * BlockSize)
             <=> /\ k <= BlockCount(Len(t))
                 /\ \A i \in 1..k : Content(s, i) = Content(t, i)
<1>1. BlockSize \in Nat /\ BlockSize > 0 BY BlockSizeAssumption
<1>2. Len(s) \in Nat /\ Len(t) \in Nat OBVIOUS
<1>3. /\ Len(s) \div BlockSize \in Nat /\ Len(s) \div BlockSize <= BlockCount(Len(s))
      /\ BlockCount(Len(s)) \in Nat /\ BlockCount(Len(t)) \in Nat
  BY <1>2, BlocksOf, BlockSizes
<1>4. k \in Nat /\ k >= 1 BY <1>3
<1>5. PICK n \in Nat : n = k * BlockSize BY <1>1, <1>4
<1>6. n <= Len(s) BY <1>2, <1>3, <1>4, <1>5, BlocksOf
<1>7. ASSUME NEW i \in 1..k
      PROVE  /\ i \in 1..BlockCount(Len(s)) /\ i * BlockSize \in Nat
             /\ (i - 1) * BlockSize \in Nat /\ (i - 1) * BlockSize + BlockSize = i * BlockSize
             /\ i * BlockSize <= n
  <2>1. i \in Nat /\ i <= k /\ i >= 1 BY <1>4
  <2>2. i * BlockSize <= k * BlockSize BY <1>4, <2>1, ProductOrder
  <2>3. i \in 1..BlockCount(Len(s)) BY <1>3, <2>1
  <2>4. i * BlockSize \in Nat /\ (i - 1) * BlockSize \in Nat BY <1>1, <2>1
  <2>5. (i - 1) * BlockSize + BlockSize = i * BlockSize BY <1>1, <2>1
  <2> QED BY <1>5, <2>2, <2>3, <2>4, <2>5
<1>8. ASSUME SamePrefix(s, t, n)
      PROVE  k <= BlockCount(Len(t)) /\ \A i \in 1..k : Content(s, i) = Content(t, i)
  <2>1. n <= Len(t) /\ SubSeq(s, 1, n) = SubSeq(t, 1, n) BY <1>2, <1>8 DEF SamePrefix
  <2>2. k <= BlockCount(Len(t))
    <3>1. n < Len(t) + BlockSize BY <1>1, <1>2, <2>1
    <3> QED BY <1>2, <1>4, <1>5, <3>1, BlocksOf
  <2>3. \A x \in 1..n : s[x] = t[x]
    <3> SUFFICES ASSUME NEW x \in 1..n PROVE s[x] = t[x] OBVIOUS
    <3>1. SubSeq(s, 1, n)[x] = s[x] BY <1>6
    <3>2. SubSeq(t, 1, n)[x] = t[x] BY <2>1
    <3> QED BY <2>1, <3>1, <3>2
  <2>4. ASSUME NEW i \in 1..k PROVE Content(s, i) = Content(t, i)
    <3>1. i \in 1..BlockCount(Len(t)) BY <1>3, <2>2
    <3>2. i * BlockSize <= Len(s) /\ i * BlockSize <= Len(t) BY <1>2, <1>6, <1>7, <2>1
    <3>3. /\ Content(s, i) \in Seq(Nat) /\ Len(Content(s, i)) = BlockSize
          /\ \A o \in 1..BlockSize : Content(s, i)[o] = s[(i - 1) * BlockSize + o]
      BY <1>7, <3>2, ContentIs
    <3>4. /\ Content(t, i) \in Seq(Nat) /\ Len(Content(t, i)) = BlockSize
          /\ \A o \in 1..BlockSize : Content(t, i)[o] = t[(i - 1) * BlockSize + o]
      BY <3>1, <3>2, ContentIs
    <3>5. ASSUME NEW o \in 1..BlockSize PROVE Content(s, i)[o] = Content(t, i)[o]
      <4>1. (i - 1) * BlockSize + o \in 1..n BY <1>1, <1>7
      <4> QED BY <2>3, <3>3, <3>4, <4>1
    <3>6. PICK a \in Seq(Nat) : a = Content(s, i) BY <3>3
    <3>7. PICK b \in Seq(Nat) : b = Content(t, i) BY <3>4
    <3>8. Len(a) = Len(b) /\ \A o \in 1..Len(a) : a[o] = b[o] BY <3>3, <3>4, <3>5, <3>6, <3>7
    <3>9. a = b BY <3>8, SeqEqual
    <3> QED BY <3>6, <3>7, <3>9
  <2> QED BY <2>2, <2>4
<1>9. ASSUME k <= BlockCount(Len(t)), \A i \in 1..k : Content(s, i) = Content(t, i)
      PROVE  SamePrefix(s, t, n)
  <2>1. ASSUME NEW i \in 1..k
        PROVE  /\ i * BlockSize <= Len(t)
               /\ \A o \in 1..BlockSize :
                    s[(i - 1) * BlockSize + o] = t[(i - 1) * BlockSize + o]
    <3>1. i \in 1..BlockCount(Len(t)) BY <1>3, <1>9
    <3>2. i * BlockSize <= Len(s) BY <1>2, <1>6, <1>7
    <3>3. /\ Len(Content(s, i)) = BlockSize
          /\ \A o \in 1..BlockSize : Content(s, i)[o] = s[(i - 1) * BlockSize + o]
      BY <1>7, <3>2, ContentIs
    <3>4. Content(s, i) = Content(t, i) BY <1>9
    <3>5. /\ Len(Content(t, i)) = BlockSize => i * BlockSize <= Len(t)
          /\ \A o \in 1..Len(Content(t, i)) : Content(t, i)[o] = t[(i - 1) * BlockSize + o]
      BY <3>1, ContentIs
    <3> QED BY <3>3, <3>4, <3>5
  <2>2. n <= Len(t)
    <3>1. k \in 1..k BY <1>4
    <3> QED BY <1>5, <2>1, <3>1
  <2>3. ASSUME NEW x \in 1..n PROVE s[x] = t[x]
    <3>1. PICK i \in 1..k : \E o \in 1..BlockSize : x = (i - 1) * BlockSize + o
      BY <1>4, <1>5, BlockOf
    <3> QED BY <2>1, <3>1
  <2>4. /\ SubSeq(s, 1, n) \in Seq(Nat) /\ Len(SubSeq(s, 1, n)) = n
        /\ \A x \in 1..n : SubSeq(s, 1, n)[x] = s[x]
    BY <1>2, <1>6
  <2>5. /\ SubSeq(t, 1, n) \in Seq(Nat) /\ Len(SubSeq(t, 1, n)) = n
        /\ \A x \in 1..n : SubSeq(t, 1, n)[x] = t[x]
    BY <1>2, <2>2
  <2>6. PICK a \in Seq(Nat) : a = SubSeq(s, 1, n) BY <2>4
  <2>7. PICK b \in Seq(Nat) : b = SubSeq(t, 1, n) BY <2>5
  <2>8. Len(a) = Len(b) /\ \A x \in 1..Len(a) : a[x] = b[x] BY <2>3, <2>4, <2>5, <2>6, <2>7
  <2>9. a = b BY <2>8, SeqEqual
  <2> QED BY <2>2, <2>6, <2>7, <2>9 DEF SamePrefix
<1> QED BY <1>5, <1>8, <1>9

-----------------------------------------------------------------------------
(* The replay.                                                               *)

BlockSet(request) == {Blocks(request)[i] : i \in DOMAIN Blocks(request)}

MayShare(r, q) ==
    /\ q.instance = r.instance /\ q.model = r.model
    /\ trace.scope = Isolated => q.tenant = r.tenant

LEMMA BlocksAre ==
    ASSUME NEW r, r.tokens \in Seq(Nat)
    PROVE  /\ BlockCount(Len(r.tokens)) \in Nat
           /\ Blocks(r) = [i \in 1..BlockCount(Len(r.tokens)) |->
                            <<r.instance, BlockKeys(r, trace.scope)[i]>>]
           /\ Len(Blocks(r)) = BlockCount(Len(r.tokens))
<1> DEFINE n == BlockCount(Len(r.tokens))
<1>1. Len(r.tokens) \in Nat OBVIOUS
<1>2. n \in Nat BY <1>1, BlockSizes
<1>3. PICK c : HoldsKeys(c, r, trace.scope, n) BY <1>1, KeysAreChain
<1>4. DOMAIN BlockKeys(r, trace.scope) = 1..n BY <1>3 DEF HoldsKeys
<1>5. Blocks(r) = [i \in 1..n |-> <<r.instance, BlockKeys(r, trace.scope)[i]>>]
  BY <1>4 DEF Blocks
<1> HIDE DEF n
<1>6. Len(Blocks(r)) = n BY <1>2, <1>5
<1> QED BY <1>2, <1>5, <1>6 DEF n

\* When a block of one request is one of another.
LEMMA SharedBlock ==
    ASSUME NEW r, r.tokens \in Seq(Nat), NEW q, q.tokens \in Seq(Nat),
           NEW k \in 1..BlockCount(Len(r.tokens))
    PROVE  Blocks(r)[k] \in BlockSet(q)
             <=> /\ MayShare(r, q)
                 /\ k <= BlockCount(Len(q.tokens))
                 /\ \A i \in 1..k : Content(r.tokens, i) = Content(q.tokens, i)
<1> DEFINE a == BlockCount(Len(r.tokens))
           b == BlockCount(Len(q.tokens))
           R(i) == BlockKeys(r, trace.scope)[i]
           Q(i) == BlockKeys(q, trace.scope)[i]
<1>1. Len(r.tokens) \in Nat /\ Len(q.tokens) \in Nat OBVIOUS
<1>2. a \in Nat /\ Blocks(r) = [i \in 1..a |-> <<r.instance, R(i)>>] BY BlocksAre
<1>3. b \in Nat /\ Blocks(q) = [i \in 1..b |-> <<q.instance, Q(i)>>] BY BlocksAre
<1>4. ASSUME Blocks(r)[k] \in BlockSet(q)
      PROVE  /\ MayShare(r, q) /\ k <= b
             /\ \A i \in 1..k : Content(r.tokens, i) = Content(q.tokens, i)
  <2>1. PICK j \in 1..b : Blocks(r)[k] = Blocks(q)[j]
    <3> HIDE DEF a, b, R, Q
    <3> QED BY <1>3, <1>4 DEF BlockSet
  <2>2. Blocks(r)[k] = <<r.instance, R(k)>> /\ Blocks(q)[j] = <<q.instance, Q(j)>>
    <3>1. k \in 1..a OBVIOUS
    <3> HIDE DEF a, b, R, Q
    <3> QED BY <1>2, <1>3, <3>1
  <2>3. r.instance = q.instance /\ R(k) = Q(j)
    <3> HIDE DEF R, Q
    <3>1. Blocks(r)[k][1] = r.instance /\ Blocks(r)[k][2] = R(k) BY <2>2
    <3>2. Blocks(q)[j][1] = q.instance /\ Blocks(q)[j][2] = Q(j) BY <2>2
    <3> QED BY <2>1, <3>1, <3>2
  <2>4. /\ k = j /\ r.model = q.model
        /\ KeyTenant(r, trace.scope) = KeyTenant(q, trace.scope)
        /\ \A i \in 1..k : Content(r.tokens, i) = Content(q.tokens, i)
    BY <1>1, <2>3, EqualKeys
  <2>5. trace.scope = Isolated => q.tenant = r.tenant BY <2>4 DEF KeyTenant
  <2>6. k <= b
    <3> HIDE DEF b
    <3> QED BY <1>3, <2>4
  <2> QED BY <2>3, <2>4, <2>5, <2>6 DEF MayShare
<1>5. ASSUME MayShare(r, q), k <= b,
             \A i \in 1..k : Content(r.tokens, i) = Content(q.tokens, i)
      PROVE  Blocks(r)[k] \in BlockSet(q)
  <2>1. KeyTenant(r, trace.scope) = KeyTenant(q, trace.scope)
    BY <1>5 DEF KeyTenant, MayShare
  <2>2. R(k) = Q(k) BY <1>1, <1>5, <2>1, SameKeys DEF MayShare
  <2>3. k \in 1..a OBVIOUS
  <2> HIDE DEF a, b, R, Q
  <2>4. k \in 1..b BY <1>2, <1>3, <1>5, <2>3
  <2>5. Blocks(r)[k] = Blocks(q)[k] BY <1>2, <1>3, <1>5, <2>2, <2>3, <2>4 DEF MayShare
  <2>6. k \in DOMAIN Blocks(q) BY <1>3, <2>4
  <2> QED BY <2>5, <2>6 DEF BlockSet
<1> QED BY <1>4, <1>5

\* The loop of lookup_prefix stops somewhere.
LEMMA LookupStops ==
    ASSUME NEW blocks, NEW cached, Len(blocks) \in Nat
    PROVE  LET h == LookupPrefix(blocks, cached)
           IN  /\ h \in 0..Len(blocks)
               /\ \A i \in 1..h : blocks[i] \in cached
               /\ h < Len(blocks) => blocks[h + 1] \notin cached
<1> DEFINE Stops(n) == /\ \A i \in 1..n : blocks[i] \in cached
                       /\ n < Len(blocks) => blocks[n + 1] \notin cached
           good == {i \in 1..Len(blocks) : blocks[i] \in cached}
<1>1. PICK n \in 0..Len(blocks) : /\ \A i \in 1..n : i \in good
                                  /\ n < Len(blocks) => n + 1 \notin good
  BY FirstFailure
<1>2. Stops(n)
  <2>1. n < Len(blocks) => n + 1 \in 1..Len(blocks) OBVIOUS
  <2> QED BY <1>1, <2>1
<1>3. LookupPrefix(blocks, cached) = CHOOSE m \in 0..Len(blocks) : Stops(m)
  BY DEF LookupPrefix
<1> HIDE DEF Stops
<1>4. PICK h : h = CHOOSE m \in 0..Len(blocks) : Stops(m) OBVIOUS
<1>5. h \in 0..Len(blocks) /\ Stops(h) BY <1>2, <1>4
<1> QED BY <1>3, <1>4, <1>5 DEF Stops

\* Where the blocks of a set of requests are resident, a lookup hits, of the whole
\* blocks, the longest prefix shared with one of them; the credit asks for no more.
LEMMA HitsAreShared ==
    ASSUME NEW r, r.tokens \in Seq(Nat), NEW F, \A q \in F : q.tokens \in Seq(Nat),
           NEW V, V = UNION {BlockSet(q) : q \in F}
    PROVE  LET n == Len(r.tokens)
               h == LookupPrefix(Blocks(r), V)
               common == {k \in 0..(n \div BlockSize) :
                            k = 0 \/ \E q \in {q \in F : MayShare(r, q)} :
                                        SamePrefix(r.tokens, q.tokens, k * BlockSize)}
           IN  /\ h \in Nat /\ h <= BlockCount(n)
               /\ Credited(n, h) = Credited(n, CHOOSE k \in common : \A j \in common : j <= k)
<1> DEFINE n == Len(r.tokens)
           d == n \div BlockSize
           h == LookupPrefix(Blocks(r), V)
           Shares(k) == \E q \in {q \in F : MayShare(r, q)} :
                            SamePrefix(r.tokens, q.tokens, k * BlockSize)
           common == {k \in 0..d : k = 0 \/ Shares(k)}
<1>1. n \in Nat /\ d \in Nat /\ d <= BlockCount(n) /\ BlockCount(n) \in Nat
  <2>1. n \in Nat OBVIOUS
  <2> HIDE DEF n
  <2> QED BY <2>1, BlocksOf, BlockSizes
<1>2. Len(Blocks(r)) = BlockCount(n) BY BlocksAre
<1>3. /\ h \in 0..BlockCount(n)
      /\ \A i \in 1..h : Blocks(r)[i] \in V
      /\ h < BlockCount(n) => Blocks(r)[h + 1] \notin V
  <2>1. Len(Blocks(r)) \in Nat BY <1>1, <1>2
  <2> QED BY <1>2, <2>1, LookupStops
<1> HIDE DEF h
<1>4. ASSUME NEW k \in 1..d PROVE Shares(k) <=> k <= h
  <2>1. k \in 1..BlockCount(n) BY <1>1
  <2>2. ASSUME k <= h PROVE Shares(k)
    <3>1. Blocks(r)[k] \in V BY <1>1, <1>3, <2>2
    <3>2. PICK q \in F : Blocks(r)[k] \in BlockSet(q) BY <3>1
    <3>3. MayShare(r, q) /\ SamePrefix(r.tokens, q.tokens, k * BlockSize)
      BY <2>1, <3>2, SharedBlock, SharedBlocks
    <3> QED BY <3>3
  <2>3. ASSUME Shares(k), ~(k <= h) PROVE FALSE
    <3>1. PICK q \in F : MayShare(r, q) /\ SamePrefix(r.tokens, q.tokens, k * BlockSize)
      BY <2>3
    <3>2. k <= BlockCount(Len(q.tokens)) /\ \A i \in 1..k : Content(r.tokens, i) = Content(q.tokens, i)
      BY <3>1, SharedBlocks
    <3>3. h + 1 \in 1..BlockCount(n) /\ h + 1 <= k /\ h < BlockCount(n) BY <1>1, <1>3, <2>1, <2>3
    <3>4. BlockCount(Len(q.tokens)) \in Nat
      <4>1. Len(q.tokens) \in Nat OBVIOUS
      <4> QED BY <4>1, BlockSizes
    <3>5. h + 1 <= BlockCount(Len(q.tokens)) BY <1>1, <3>2, <3>3, <3>4
    <3>6. \A i \in 1..(h + 1) : Content(r.tokens, i) = Content(q.tokens, i) BY <3>2, <3>3
    <3>7. Blocks(r)[h + 1] \in BlockSet(q) BY <3>1, <3>3, <3>5, <3>6, SharedBlock
    <3> QED BY <1>3, <3>3, <3>7
  <2> QED BY <2>2, <2>3
<1> HIDE DEF Shares, n, d
<1> DEFINE m == MinOf(h, d)
<1>5. m \in common /\ \A j \in common : j <= m
  <2>1. m \in 0..d /\ m <= h BY <1>1, <1>3 DEF MinOf
  <2>2. m = 0 \/ Shares(m)
    <3> HIDE DEF m
    <3> QED BY <1>1, <1>4, <2>1
  <2>3. ASSUME NEW j \in common PROVE j <= m
    <3>1. j \in 0..d /\ j <= h BY <1>1, <1>3, <1>4
    <3> QED BY <1>1, <1>3, <3>1 DEF MinOf
  <2> QED BY <2>1, <2>2, <2>3
<1>6. common \subseteq Int BY <1>1
<1> HIDE DEF m, common
<1>7. (CHOOSE k \in common : \A j \in common : j <= k) = m
  <2>1. \A k \in common : (\A j \in common : j <= k) => k = m BY <1>5, <1>6
  <2> QED BY <1>5, <2>1
<1>8. Credited(n, h) = Credited(n, m)
  <2>1. PICK allowed : allowed = MaxCacheHitLength(n) \div BlockSize OBVIOUS
  <2>2. m \in Nat /\ h \in Nat BY <1>1, <1>3 DEF m, MinOf
  <2>3. /\ MaxCacheHitLength(n) \in Nat /\ MaxCacheHitLength(n) <= n /\ allowed \in Nat
        /\ Credited(n, h) = MaxOf(MinOf(h, allowed) - DropBlocks, 0)
        /\ Credited(n, m) = MaxOf(MinOf(m, allowed) - DropBlocks, 0)
    BY <1>1, <2>1, <2>2, CreditedIs
  <2>4. allowed <= d
    <3>1. allowed * BlockSize <= MaxCacheHitLength(n) BY <2>1, <2>3, WholeBlocks
    <3>2. allowed * BlockSize \in Int BY <2>3, BlockSizeAssumption
    <3>3. allowed * BlockSize <= n BY <1>1, <2>3, <3>1, <3>2
    <3> QED BY <1>1, <2>3, <3>3, BlocksOf DEF d
  <2>5. MinOf(h, allowed) = MinOf(m, allowed) BY <1>1, <1>3, <2>3, <2>4 DEF m, MinOf
  <2> QED BY <2>3, <2>5
<1>9. Credited(n, h) = Credited(n, CHOOSE k \in common : \A j \in common : j <= k)
  BY <1>7, <1>8
<1>10. h \in Nat /\ h <= BlockCount(n) BY <1>1, <1>3
<1> QED BY <1>9, <1>10 DEF n, d, h, common, Shares

\* The requests of the results that have finished by now, and what they stored.
FinishedBy(now) == {results[m].request :
                       m \in {m \in DOMAIN results : results[m].request.time + trace.ttft <= now}}
StoredBy(now) == UNION {BlockSet(q) : q \in FinishedBy(now)}

Served == [request : {trace.requests[n] : n \in DOMAIN trace.requests}, hit : Int, miss : Int]

ReplayTyped ==
    /\ trace \in Traces
    /\ unserved \subseteq DOMAIN trace.requests
    /\ results \in Seq(Served)
    /\ \A e \in events : e.finish \in Int

\* Requests are served in the order of their start.
InStartOrder ==
    \A n \in unserved : \A m \in DOMAIN results :
        results[m].request.time <= trace.requests[n].time

\* While there are requests to serve, what is visible from the start of the last
\* one on is what the finished requests are made of, those of their blocks that
\* were hits included: a later request sees at least what an earlier one saw.
VisibleIsStored ==
    unserved # {} =>
        \A now \in Int :
            (\A m \in DOMAIN results : results[m].request.time <= now)
              => Visible(now) = StoredBy(now)

ReplayInv == ReplayTyped /\ InStartOrder /\ VisibleIsStored /\ HitsAreCommonPrefixes

LEMMA ServedTypes ==
    ASSUME ReplayTyped
    PROVE  /\ trace.ttft \in Int
           /\ \A n \in DOMAIN trace.requests : /\ trace.requests[n].time \in Int
                                               /\ trace.requests[n].tokens \in Seq(Nat)
           /\ Len(results) \in Nat /\ DOMAIN results = 1..Len(results)
           /\ \A m \in DOMAIN results : /\ results[m] \in Served
                                        /\ results[m].request.time \in Int
                                        /\ results[m].request.tokens \in Seq(Nat)
<1>1. /\ trace.ttft \in Int
      /\ \A n \in DOMAIN trace.requests : /\ trace.requests[n].time \in Int
                                          /\ trace.requests[n].tokens \in Seq(Nat)
  BY TracesAssumption DEF ReplayTyped
<1>2. Len(results) \in Nat /\ DOMAIN results = 1..Len(results) BY DEF ReplayTyped
<1>3. ASSUME NEW m \in DOMAIN results
      PROVE  /\ results[m] \in Served
             /\ results[m].request.time \in Int /\ results[m].request.tokens \in Seq(Nat)
  <2>1. results[m] \in Served BY <1>2 DEF ReplayTyped
  <2>2. PICK n \in DOMAIN trace.requests : results[m].request = trace.requests[n]
    BY <2>1 DEF Served
  <2> QED BY <1>1, <2>1, <2>2
<1> QED BY <1>1, <1>2, <1>3

\* The request served and what it is credited with.
LEMMA ServeOutcome ==
    ASSUME ReplayInv, NEW n \in unserved, Serve(n)
    PROVE  LET r == trace.requests[n]
               common == {k \in 0..(Len(r.tokens) \div BlockSize) :
                            k = 0 \/ \E q \in {q \in FinishedBy(r.time) : MayShare(r, q)} :
                                        SamePrefix(r.tokens, q.tokens, k * BlockSize)}
               c == Credited(Len(r.tokens), CHOOSE k \in common : \A j \in common : j <= k)
           IN  /\ c \in Nat
               /\ Visible(r.time) = StoredBy(r.time)
               /\ \E h \in Nat :
                    /\ h = LookupPrefix(Blocks(r), Visible(r.time))
                    /\ h <= BlockCount(Len(r.tokens))
                    /\ \A i \in 1..h : Blocks(r)[i] \in Visible(r.time)
               /\ results' = Append(results, [request |-> r, hit |-> c * BlockSize,
                                              miss |-> Len(r.tokens) - c * BlockSize])
<1> DEFINE r == trace.requests[n]
           len == Len(r.tokens)
           V == Visible(r.time)
           h == LookupPrefix(Blocks(r), V)
           common == {k \in 0..(len \div BlockSize) :
                        k = 0 \/ \E q \in {q \in FinishedBy(r.time) : MayShare(r, q)} :
                                    SamePrefix(r.tokens, q.tokens, k * BlockSize)}
           c == Credited(len, CHOOSE k \in common : \A j \in common : j <= k)
           sizes == BlockTokens(len)
           credit == Account(len, SubSeq(sizes, 1, h), <<>>)
<1>1. ReplayTyped /\ InStartOrder /\ VisibleIsStored BY DEF ReplayInv
<1>2. r.time \in Int /\ r.tokens \in Seq(Nat) BY <1>1, ServedTypes DEF ReplayTyped
<1>3. V = StoredBy(r.time)
  <2>1. \A m \in DOMAIN results : results[m].request.time <= r.time BY <1>1 DEF InStartOrder
  <2> QED BY <1>1, <1>2, <2>1 DEF VisibleIsStored
<1>4. \A q \in FinishedBy(r.time) : q.tokens \in Seq(Nat) BY <1>1, ServedTypes DEF FinishedBy
<1>5. h \in Nat /\ h <= BlockCount(len) /\ Credited(len, h) = c
  <2>1. V = UNION {BlockSet(q) : q \in FinishedBy(r.time)} BY <1>3 DEF StoredBy
  <2> HIDE DEF r, V
  <2> QED BY <1>2, <1>4, <2>1, HitsAreShared
<1>6. len \in Nat /\ BlockCount(len) \in Nat /\ Len(Blocks(r)) = BlockCount(len)
  <2>1. len \in Nat BY <1>2
  <2> QED BY <1>2, <2>1, BlockSizes, BlocksAre
<1>7. \A i \in 1..h : Blocks(r)[i] \in V
  <2> HIDE DEF r, V
  <2> QED BY <1>6, LookupStops
<1> HIDE DEF h
<1>8. c \in Nat /\ c <= h
  <2>1. PICK a \in Nat : Credited(len, h) = MaxOf(MinOf(h, a) - DropBlocks, 0)
    <3> HIDE DEF r
    <3> QED BY <1>5, <1>6, CreditedIs
  <2> HIDE DEF c
  <2> QED BY <1>5, <2>1, DropBlocksAssumption DEF MaxOf, MinOf
<1>9. credit.hbm = c * BlockSize /\ credit.miss = len - c * BlockSize
  <2>1. SubSeq(sizes, h + 1, h + 0) = <<>>
    <3>1. h + 1 \in Int /\ h + 0 \in Int /\ h + 0 < h + 1 BY <1>5
    <3> HIDE DEF sizes
    <3> QED BY <3>1, SubSeqEmpty
  <2>2. Account(len, SubSeq(sizes, 1, h), SubSeq(sizes, h + 1, h + 0))
          = [cap  |-> Credited(len, h + 0) * BlockSize,
             hbm  |-> MinOf(Credited(len, h + 0), h) * BlockSize,
             ddr  |-> (Credited(len, h + 0) - MinOf(Credited(len, h + 0), h)) * BlockSize,
             miss |-> len - Credited(len, h + 0) * BlockSize]
    <3>1. 0 \in Nat /\ h + 0 <= BlockCount(len) BY <1>5
    <3> HIDE DEF r
    <3> QED BY <1>5, <1>6, <3>1, AccountCredits
  <2>3. h + 0 = h BY <1>5
  <2>4. MinOf(c, h) = c
    <3> HIDE DEF c
    <3> QED BY <1>5, <1>8 DEF MinOf
  <2>5. Credited(len, h + 0) = c BY <1>5, <2>3
  <2> HIDE DEF c, sizes
  <2>6. credit = [cap  |-> c * BlockSize, hbm  |-> MinOf(c, h) * BlockSize,
                  ddr  |-> (c - MinOf(c, h)) * BlockSize, miss |-> len - c * BlockSize]
    BY <2>1, <2>2, <2>5
  <2> HIDE DEF credit, r
  <2> QED BY <2>4, <2>6
<1>10. results' = Append(results, [request |-> r, hit |-> credit.hbm, miss |-> credit.miss])
  BY DEF Serve, h
<1> HIDE DEF credit, c
<1>11. results' = Append(results, [request |-> r, hit |-> c * BlockSize,
                                   miss |-> len - c * BlockSize])
  BY <1>9, <1>10
<1>12. \E i \in Nat : /\ i = LookupPrefix(Blocks(r), V)
                      /\ i <= BlockCount(len)
                      /\ \A j \in 1..i : Blocks(r)[j] \in V
  BY <1>5, <1>7 DEF h
<1> QED BY <1>3, <1>8, <1>11, <1>12 DEF c

\* Appending a result leaves the earlier ones, and what they should be.
LEMMA AppendServed ==
    ASSUME ReplayTyped, trace' = trace, NEW x \in Served, results' = Append(results, x)
    PROVE  /\ results' \in Seq(Served)
           /\ DOMAIN results = 1..Len(results) /\ DOMAIN results' = 1..(Len(results) + 1)
           /\ \A m \in DOMAIN results : results'[m] = results[m]
           /\ results'[Len(results) + 1] = x
           /\ \A n \in DOMAIN results : Expected(n)' = Expected(n)
<1>1. PICK l \in Nat : l = Len(results) /\ DOMAIN results = 1..l BY ServedTypes
<1>2. /\ results' \in Seq(Served) /\ DOMAIN results' = 1..(l + 1)
      /\ \A m \in 1..l : results'[m] = results[m]
      /\ results'[l + 1] = x
  <2>1. results \in Seq(Served) BY DEF ReplayTyped
  <2> QED BY <1>1, <2>1, AppendProperties
<1>3. ASSUME NEW n \in 1..l PROVE Expected(n)' = Expected(n)
  <2>1. results'[n] = results[n] BY <1>2
  <2>2. \A m \in 1..(n - 1) : results'[m] = results[m] BY <1>2
  <2>3. {results'[m].request : m \in 1..(n - 1)} = {results[m].request : m \in 1..(n - 1)}
    BY <2>2
  <2>4. Finished(n)' = Finished(n) BY <2>1, <2>3 DEF Finished
  <2> QED BY <2>1, <2>4 DEF Expected
<1> QED BY <1>1, <1>2, <1>3

LEMMA ServeHits ==
    ASSUME ReplayInv, NEW n \in unserved, Serve(n)
    PROVE  /\ ReplayTyped'
           /\ InStartOrder'
           /\ HitsAreCommonPrefixes'
<1> DEFINE r == trace.requests[n]
           len == Len(r.tokens)
           common == {k \in 0..(len \div BlockSize) :
                        k = 0 \/ \E q \in {q \in FinishedBy(r.time) : MayShare(r, q)} :
                                    SamePrefix(r.tokens, q.tokens, k * BlockSize)}
           c == Credited(len, CHOOSE k \in common : \A j \in common : j <= k)
           x == [request |-> r, hit |-> c * BlockSize, miss |-> len - c * BlockSize]
<1>1. ReplayTyped /\ InStartOrder /\ VisibleIsStored /\ HitsAreCommonPrefixes BY DEF ReplayInv
<1>2. n \in DOMAIN trace.requests /\ r.time \in Int /\ r.tokens \in Seq(Nat)
  BY <1>1, ServedTypes DEF ReplayTyped
<1>3. c \in Nat /\ results' = Append(results, x) BY ServeOutcome
<1>4. trace' = trace /\ unserved' = unserved \ {n} BY DEF Serve
<1>5. len \in Nat
  <2> HIDE DEF r
  <2> QED BY <1>2
<1>6. x \in Served
  <2>1. c * BlockSize \in Int /\ len - c * BlockSize \in Int
    <3> HIDE DEF c, len
    <3> QED BY <1>3, <1>5, BlockSizeAssumption
  <2>2. r \in {trace.requests[m] : m \in DOMAIN trace.requests} BY <1>2
  <2> HIDE DEF c, r, len
  <2> QED BY <2>1, <2>2 DEF Served
<1>7. x.request = r /\ x.hit = c * BlockSize /\ x.miss = len - c * BlockSize OBVIOUS
<1> HIDE DEF x
<1>8. PICK l \in Nat : l = Len(results) BY <1>1, ServedTypes
<1>9. /\ results' \in Seq(Served)
      /\ DOMAIN results = 1..l /\ DOMAIN results' = 1..(l + 1)
      /\ \A m \in 1..l : results'[m] = results[m]
      /\ results'[l + 1] = x
      /\ \A m \in 1..l : Expected(m)' = Expected(m)
  BY <1>1, <1>3, <1>4, <1>6, <1>8, AppendServed
<1>10. ReplayTyped'
  <2>1. \A e \in events' : e.finish \in Int
    <3>1. trace.ttft \in Int /\ r.time + trace.ttft \in Int BY <1>1, <1>2, ServedTypes
    <3>2. ASSUME NEW e \in events', e \notin events PROVE e.finish = r.time + trace.ttft
      BY <3>2 DEF Serve
    <3> QED BY <1>1, <3>1, <3>2 DEF ReplayTyped
  <2>2. Served' = Served BY <1>4 DEF Served
  <2> QED BY <1>1, <1>4, <1>9, <2>1, <2>2 DEF ReplayTyped
<1>11. InStartOrder'
  <2> SUFFICES ASSUME NEW m \in unserved', NEW k \in DOMAIN results'
               PROVE  results'[k].request.time <= trace.requests[m].time
    BY <1>4 DEF InStartOrder
  <2>1. m \in unserved BY <1>4
  <2>2. CASE k \in 1..l BY <1>1, <1>9, <2>1, <2>2 DEF InStartOrder
  <2>3. CASE k = l + 1
    <3>1. r.time <= trace.requests[m].time
      <4>1. trace.requests[m].time \in Int BY <1>1, <2>1, ServedTypes DEF ReplayTyped
      <4> QED BY <1>2, <2>1, <4>1 DEF Serve, ServedNext
    <3> QED BY <1>7, <1>9, <2>3, <3>1
  <2> QED BY <1>8, <1>9, <2>2, <2>3
<1>12. HitsAreCommonPrefixes'
  <2>1. ASSUME NEW k \in 1..l
        PROVE  /\ results'[k].hit = Expected(k)' * BlockSize
               /\ results'[k].miss = Len(results'[k].request.tokens) - results'[k].hit
    BY <1>1, <1>9 DEF HitsAreCommonPrefixes
  <2>2. Expected(l + 1)' = c
    <3>1. results'[l + 1].request = r BY <1>7, <1>9
    <3>2. {results'[m].request : m \in 1..l} = {results[m].request : m \in 1..l} BY <1>9
    <3>3. Finished(l + 1)' = {q \in {results[m].request : m \in 1..l} :
                                 /\ q.instance = r.instance /\ q.model = r.model
                                 /\ trace.scope = Isolated => q.tenant = r.tenant
                                 /\ q.time + trace.ttft <= r.time}
      <4>1. (l + 1) - 1 = l OBVIOUS
      <4> HIDE DEF r
      <4> QED BY <1>4, <3>1, <3>2, <4>1 DEF Finished
    <3>4. Finished(l + 1)' = {q \in FinishedBy(r.time) : MayShare(r, q)}
      <4> HIDE DEF r
      <4> QED BY <1>9, <3>3 DEF FinishedBy, MayShare
    <3> QED BY <3>1, <3>4 DEF Expected
  <2> HIDE DEF c
  <2>3. /\ results'[l + 1].hit = Expected(l + 1)' * BlockSize
        /\ results'[l + 1].miss = Len(results'[l + 1].request.tokens) - results'[l + 1].hit
    BY <1>7, <1>9, <2>2
  <2>4. DOMAIN results' = 1..l \cup {l + 1} BY <1>9
  <2> QED BY <2>1, <2>3, <2>4 DEF HitsAreCommonPrefixes
<1> QED BY <1>10, <1>11, <1>12

LEMMA ServeStores ==
    ASSUME ReplayInv, NEW n \in unserved, Serve(n)
    PROVE  VisibleIsStored'
<1> DEFINE r == trace.requests[n]
           finish == r.time + trace.ttft
<1>1. ReplayTyped /\ InStartOrder /\ VisibleIsStored BY DEF ReplayInv
<1>2. r.time \in Int /\ r.tokens \in Seq(Nat) /\ trace.ttft \in Int /\ finish \in Int
  BY <1>1, ServedTypes DEF ReplayTyped
<1>3. PICK h \in Nat : /\ h = LookupPrefix(Blocks(r), Visible(r.time))
                       /\ h <= BlockCount(Len(r.tokens))
                       /\ \A i \in 1..h : Blocks(r)[i] \in Visible(r.time)
  BY ServeOutcome
<1>4. PICK b \in Nat : b = Len(Blocks(r)) /\ DOMAIN Blocks(r) = 1..b /\ h <= b
  <2> HIDE DEF r
  <2>1. /\ BlockCount(Len(r.tokens)) \in Nat
        /\ Len(Blocks(r)) = BlockCount(Len(r.tokens))
        /\ DOMAIN Blocks(r) = 1..BlockCount(Len(r.tokens))
    BY <1>2, BlocksAre
  <2> QED BY <1>3, <2>1
<1> DEFINE misses == {Blocks(r)[i] : i \in (h + 1)..b}
<1>5. /\ resident' = Visible(r.time)
      /\ events' = {e \in events : ~Due(e, r.time)}
                     \cup {e \in {[finish |-> finish, blocks |-> misses]} : misses # {}}
      /\ trace' = trace /\ unserved' \subseteq unserved
  BY <1>3, <1>4 DEF Serve
<1>6. BlockSet(r) \subseteq Visible(r.time) \cup misses /\ misses \subseteq BlockSet(r)
  <2>1. BlockSet(r) = {Blocks(r)[i] : i \in 1..b} BY <1>4 DEF BlockSet
  <2>2. \A i \in 1..b : i \in 1..h \/ i \in (h + 1)..b BY <1>3, <1>4
  <2>3. \A i \in (h + 1)..b : i \in 1..b BY <1>3, <1>4
  <2> HIDE DEF r
  <2> QED BY <1>3, <2>1, <2>2, <2>3
<1>7. PICK x \in Served : x.request = r /\ results' = Append(results, x)
  <2> DEFINE common == {k \in 0..(Len(r.tokens) \div BlockSize) :
                          k = 0 \/ \E q \in {q \in FinishedBy(r.time) : MayShare(r, q)} :
                                      SamePrefix(r.tokens, q.tokens, k * BlockSize)}
             c == Credited(Len(r.tokens), CHOOSE k \in common : \A j \in common : j <= k)
  <2>1. c \in Nat /\ results' = Append(results, [request |-> r, hit |-> c * BlockSize,
                                                 miss |-> Len(r.tokens) - c * BlockSize])
    BY ServeOutcome
  <2> HIDE DEF c
  <2>2. c * BlockSize \in Int /\ Len(r.tokens) \in Int
    <3> HIDE DEF r
    <3> QED BY <1>2, <2>1, BlockSizeAssumption
  <2>3. r \in {trace.requests[m] : m \in DOMAIN trace.requests} BY <1>1 DEF ReplayTyped
  <2>4. Len(r.tokens) - c * BlockSize \in Int BY <2>2
  <2> HIDE DEF r
  <2>5. [request |-> r, hit |-> c * BlockSize, miss |-> Len(r.tokens) - c * BlockSize] \in Served
    BY <2>2, <2>3, <2>4 DEF Served
  <2> QED BY <2>1, <2>5
<1>8. PICK l \in Nat : l = Len(results) BY <1>1, ServedTypes
<1>9. /\ DOMAIN results = 1..l /\ DOMAIN results' = 1..(l + 1)
      /\ \A m \in 1..l : results'[m] = results[m]
      /\ results'[l + 1].request = r
  BY <1>1, <1>5, <1>7, <1>8, AppendServed
<1>10. \A q : BlockSet(q)' = BlockSet(q) BY <1>5 DEF BlockSet, Blocks
<1> SUFFICES ASSUME NEW now \in Int,
                    \A m \in DOMAIN results' : results'[m].request.time <= now
             PROVE  Visible(now)' = StoredBy(now)'
  BY DEF VisibleIsStored
<1>11. r.time <= now
  <2>1. l + 1 \in DOMAIN results' BY <1>9
  <2> QED BY <1>9, <2>1
<1>12. Visible(now) = StoredBy(now) /\ Visible(r.time) \subseteq Visible(now)
  <2>1. \A m \in DOMAIN results : results[m].request.time <= now
    <3>1. \A m \in 1..l : m \in DOMAIN results' BY <1>9
    <3> QED BY <1>9, <3>1
  <2>2. ASSUME NEW e \in events, Due(e, r.time) PROVE Due(e, now)
    <3>1. e.finish \in Int BY <1>1 DEF ReplayTyped
    <3> QED BY <1>2, <1>11, <2>2, <3>1 DEF Due
  <2> HIDE DEF r
  <2>3. Visible(r.time) \subseteq Visible(now) BY <2>2 DEF Visible
  <2> QED BY <1>1, <2>1, <2>3 DEF VisibleIsStored
<1>13. Visible(now)' = Visible(now) \cup (IF finish <= now THEN misses ELSE {})
  <2>1. Visible(now)' = Visible(r.time) \cup UNION {e.blocks : e \in {e \in events' : Due(e, now)}}
    BY <1>5 DEF Visible, Due
  <2> DEFINE new == [finish |-> finish, blocks |-> misses]
  <2>2. new.finish = finish /\ new.blocks = misses OBVIOUS
  <2>3. Due(new, now) <=> finish <= now BY <2>2 DEF Due
  <2>4. events' = {e \in events : ~Due(e, r.time)} \cup {e \in {new} : misses # {}} BY <1>5
  <2> HIDE DEF new, misses, finish, r
  <2>5. ASSUME NEW y, y \in Visible(now)'
        PROVE  y \in Visible(now) \cup (IF finish <= now THEN misses ELSE {})
    <3>1. CASE y \in Visible(r.time) BY <1>12, <3>1
    <3>2. CASE y \notin Visible(r.time)
      <4>1. PICK e \in events' : Due(e, now) /\ y \in e.blocks BY <2>1, <2>5, <3>2
      <4>2. CASE e \in events BY <4>1, <4>2 DEF Visible
      <4>3. CASE e = new BY <2>2, <2>3, <4>1, <4>3
      <4> QED BY <2>4, <4>1, <4>2, <4>3
    <3> QED BY <3>1, <3>2
  <2>6. ASSUME NEW y \in Visible(now) PROVE y \in Visible(now)'
    <3>1. CASE y \in resident BY <2>1, <3>1 DEF Visible
    <3>2. CASE y \notin resident
      <4>1. PICK e \in events : Due(e, now) /\ y \in e.blocks BY <3>2 DEF Visible
      <4>2. CASE Due(e, r.time)
        <5>1. y \in Visible(r.time) BY <4>1, <4>2 DEF Visible
        <5> QED BY <2>1, <5>1
      <4>3. CASE ~Due(e, r.time)
        <5>1. e \in events' BY <2>4, <4>3
        <5> QED BY <2>1, <4>1, <5>1
      <4> QED BY <4>2, <4>3
    <3> QED BY <3>1, <3>2
  <2>7. ASSUME finish <= now, NEW y \in misses PROVE y \in Visible(now)'
    <3>1. new \in events' /\ Due(new, now) BY <2>3, <2>4, <2>7
    <3> QED BY <2>1, <2>2, <2>7, <3>1
  <2> QED BY <2>5, <2>6, <2>7
<1>14. StoredBy(now)' = StoredBy(now) \cup (IF finish <= now THEN BlockSet(r) ELSE {})
  <2>1. FinishedBy(now)' = {results'[m].request :
                              m \in {m \in 1..(l + 1) : results'[m].request.time + trace.ttft <= now}}
    BY <1>5, <1>9 DEF FinishedBy
  <2>2. FinishedBy(now) = {results'[m].request :
                             m \in {m \in 1..l : results'[m].request.time + trace.ttft <= now}}
    BY <1>9 DEF FinishedBy
  <2>3. \A m \in 1..(l + 1) : m \in 1..l \/ m = l + 1 OBVIOUS
  <2>4. \A m \in 1..l : m \in 1..(l + 1) OBVIOUS
  <2>5. results'[l + 1].request = r /\ results'[l + 1].request.time + trace.ttft = finish
    BY <1>9
  <2>6. l + 1 \in 1..(l + 1) OBVIOUS
  <2> HIDE DEF r, finish
  <2>7. FinishedBy(now)' = FinishedBy(now) \cup {q \in {r} : finish <= now}
    BY <2>1, <2>2, <2>3, <2>4, <2>5, <2>6
  <2>8. StoredBy(now)' = UNION {BlockSet(q) : q \in FinishedBy(now)'}
    BY <1>10 DEF StoredBy
  <2> QED BY <2>7, <2>8 DEF StoredBy
<1> HIDE DEF r, finish, misses
<1> QED BY <1>6, <1>12, <1>13, <1>14

LEMMA SameResults ==
    ASSUME HitsAreCommonPrefixes, trace' = trace, results' = results
    PROVE  HitsAreCommonPrefixes'
<1>1. ASSUME NEW n PROVE Expected(n)' = Expected(n)
  <2>1. Finished(n)' = Finished(n) BY DEF Finished
  <2> QED BY <2>1 DEF Expected
<1> QED BY <1>1 DEF HitsAreCommonPrefixes

LEMMA ReplayInvariance == Spec => []ReplayInv
<1>1. Init => ReplayInv
  <2> SUFFICES ASSUME Init PROVE ReplayInv OBVIOUS
  <2>1. /\ trace \in Traces /\ unserved = DOMAIN trace.requests
        /\ resident = {} /\ events = {} /\ results = <<>>
    BY DEF Init, ReplayInit
  <2>2. results \in Seq(Served) /\ DOMAIN results = {} BY <2>1
  <2>3. \A now : Visible(now) = {} BY <2>1 DEF Visible
  <2>4. \A now : StoredBy(now) = {} BY <2>2 DEF StoredBy, FinishedBy
  <2> QED BY <2>1, <2>2, <2>3, <2>4
          DEF ReplayInv, ReplayTyped, InStartOrder, VisibleIsStored, HitsAreCommonPrefixes
<1>2. ReplayInv /\ [Next]_<<replayVars, lookup, result>> => ReplayInv'
  <2> SUFFICES ASSUME ReplayInv, [Next]_<<replayVars, lookup, result>> PROVE ReplayInv' OBVIOUS
  <2>1. ASSUME NEW n \in unserved, Serve(n) PROVE ReplayInv'
    BY <2>1, ServeHits, ServeStores DEF ReplayInv
  <2>2. CASE FlushAll
    <3>1. /\ trace' = trace /\ unserved' = unserved /\ results' = results
          /\ unserved = {} /\ events' = {}
      BY <2>2 DEF FlushAll
    <3>2. ReplayTyped' /\ InStartOrder' /\ VisibleIsStored'
      BY <3>1 DEF ReplayInv, ReplayTyped, InStartOrder, VisibleIsStored, Served
    <3>3. HitsAreCommonPrefixes'
      BY <3>1, SameResults DEF ReplayInv
    <3> QED BY <3>2, <3>3 DEF ReplayInv
  <2>3. CASE UNCHANGED replayVars
    <3>1. /\ trace' = trace /\ unserved' = unserved /\ resident' = resident
          /\ events' = events /\ results' = results
      BY <2>3 DEF replayVars
    <3>2. ReplayTyped' /\ InStartOrder'
      BY <3>1 DEF ReplayInv, ReplayTyped, InStartOrder, Served
    <3>3. ASSUME NEW now PROVE Visible(now)' = Visible(now) /\ StoredBy(now)' = StoredBy(now)
      <4>1. Visible(now)' = Visible(now) BY <3>1 DEF Visible, Due
      <4>2. FinishedBy(now)' = FinishedBy(now) BY <3>1 DEF FinishedBy
      <4>3. \A q : BlockSet(q)' = BlockSet(q) BY <3>1 DEF BlockSet, Blocks
      <4> QED BY <4>1, <4>2, <4>3 DEF StoredBy
    <3>4. VisibleIsStored' BY <3>1, <3>3 DEF ReplayInv, VisibleIsStored
    <3>5. HitsAreCommonPrefixes' BY <3>1, SameResults DEF ReplayInv
    <3> QED BY <3>2, <3>4, <3>5 DEF ReplayInv
  <2> QED BY <2>1, <2>2, <2>3 DEF Next, ReplayNext
<1> QED BY <1>1, <1>2, PTL DEF Spec

\* The infinite-HBM replay (instance/replay.py) credits a request exactly the
\* longest prefix of whole blocks it shares with a request that was served before
\* it, that it may share a cache with, and that has finished when it starts: for
\* any number of requests, with any prompts, times and block size.
THEOREM HitsAreExact == Spec => []HitsAreCommonPrefixes
<1>1. ReplayInv => HitsAreCommonPrefixes BY DEF ReplayInv
<1> QED BY <1>1, ReplayInvariance, PTL
====
