---------------------------- MODULE Algorithms ----------------------------
(***************************************************************************)
(* Two computations with a definition of what they should return.          *)
(*   - The accounting of a lookup: the first hbmHits blocks of a prompt    *)
(*     are hits of the HBM tier, the next ddrHits blocks of the DDR tier.  *)
(*     An initial state is a lookup; one step computes the result.         *)
(*   - The infinite-HBM replay, request by request.                        *)
(* A behaviour does one of them: lookups go with a trace without requests. *)
(***************************************************************************)
EXTENDS InfiniteHBM

CONSTANT MaxTokens      \* longest prompt of a lookup

ASSUME MaxTokensAssumption == MaxTokens \in Nat

VARIABLES lookup, result

Lookups ==
    {l \in [tokens : 0..MaxTokens, hbmHits : 0..MaxTokens, ddrHits : 0..MaxTokens] :
        l.hbmHits + l.ddrHits <= BlockCount(l.tokens)}

NoLookup == [tokens |-> 0, hbmHits |-> 0, ddrHits |-> 0]

Init ==
    /\ ReplayInit
    /\ lookup \in IF trace.requests = <<>> THEN Lookups ELSE {NoLookup}
    /\ result = <<>>

Compute ==
    LET sizes == BlockTokens(lookup.tokens)
        both  == lookup.hbmHits + lookup.ddrHits
    IN  /\ trace.requests = <<>>
        /\ result = <<>>
        /\ result' = <<Account(lookup.tokens, SubSeq(sizes, 1, lookup.hbmHits),
                               SubSeq(sizes, lookup.hbmHits + 1, both))>>
        /\ UNCHANGED lookup

Next == \/ Compute /\ UNCHANGED replayVars
        \/ ReplayNext /\ UNCHANGED <<lookup, result>>

Spec == Init /\ [][Next]_<<replayVars, lookup, result>>

\* A prompt of n tokens of which hits blocks are resident: the blocks credited
\* are the longest prefix of whole blocks that leaves a token to compute, shorter
\* by the blocks speculative decoding drops.
Credited(n, hits) ==
    LET skippable == {k \in 0..hits : k * BlockSize <= MaxOf(n - KeptTokens, 0)}
    IN  MaxOf((CHOOSE k \in skippable : \A j \in skippable : j <= k) - DropBlocks, 0)

\* The accounting loops over two lists with two budgets credit that prefix, and
\* split it where the tiers meet: a DDR block is never credited behind an HBM
\* block that is not, whichever tier the dropped blocks fall in.
CreditsLongestPrefix ==
    result # <<>> =>
        LET credited == Credited(lookup.tokens, lookup.hbmHits + lookup.ddrHits)
            inHbm    == MinOf(credited, lookup.hbmHits)
        IN  result[1] = [cap  |-> credited * BlockSize,
                         hbm  |-> inHbm * BlockSize,
                         ddr  |-> (credited - inHbm) * BlockSize,
                         miss |-> lookup.tokens - credited * BlockSize]

SamePrefix(a, b, n) == Len(b) >= n /\ SubSeq(a, 1, n) = SubSeq(b, 1, n)

\* The requests that request n of the results may share blocks with: those of its
\* instance and model, and its tenant if tenants are isolated, that were served
\* before it and have finished when it starts.
Finished(n) ==
    LET r == results[n].request
    IN  {q \in {results[m].request : m \in 1..(n - 1)} :
            /\ q.instance = r.instance /\ q.model = r.model
            /\ trace.scope = Isolated => q.tenant = r.tenant
            /\ q.time + trace.ttft <= r.time}

\* What the replay should credit request n of the results with: the longest
\* common prefix, in whole blocks, with one of those.
Expected(n) ==
    LET r == results[n].request
        common == {k \in 0..(Len(r.tokens) \div BlockSize) :
                    k = 0 \/ \E q \in Finished(n) : SamePrefix(r.tokens, q.tokens, k * BlockSize)}
    IN  Credited(Len(r.tokens), CHOOSE k \in common : \A j \in common : j <= k)

\* Through keys that are chained hashes, a heap of events and a cache that
\* stores only what was missed, a request is credited exactly the tokens it
\* shares with finished requests it may share a cache with: a block is visible
\* to a request that starts when another finishes, but not to one that starts
\* with it, unless the TTFT is zero.
HitsAreCommonPrefixes ==
    \A n \in DOMAIN results :
        /\ results[n].hit = Expected(n) * BlockSize
        /\ results[n].miss = Len(results[n].request.tokens) - results[n].hit
=========================================================================
