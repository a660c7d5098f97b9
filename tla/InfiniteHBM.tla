--------------------------- MODULE InfiniteHBM ---------------------------
(***************************************************************************)
(* instance/replay.py and cache/infinite_hbm.py: requests are replayed one *)
(* by one on caches that never evict; the blocks a request misses become   *)
(* visible when it finishes, ttft after its start.  The materialization    *)
(* events of all instances wait in one heap, of which the caches keep only *)
(* sets of blocks, so the order of events that are due does not matter.    *)
(* Blocks are kept per instance: a block is a pair of instance and key.    *)
(***************************************************************************)
EXTENDS RequestBlocks

CONSTANT Traces     \* what is replayed: [requests |-> a list of requests,
                    \*   scope |-> cache_scope, ttft |-> default_ttft_ms]

ASSUME TracesAssumption ==
    \A t \in Traces :
        /\ t.ttft \in Int
        /\ \A n \in DOMAIN t.requests : /\ t.requests[n].time \in Int
                                        /\ t.requests[n].tokens \in Seq(Nat)

VARIABLES
    trace,
    unserved,       \* positions in trace.requests
    resident,       \* the blocks of the caches
    events,         \* _events, of [finish, blocks]
    results         \* of [request, hit, miss], in tokens

replayVars == <<trace, unserved, resident, events, results>>

ReplayInit ==
    /\ trace \in Traces
    /\ unserved = DOMAIN trace.requests
    /\ resident = {}
    /\ events = {}
    /\ results = <<>>

\* Mutation: a request does not see what is stored when it starts.
DueStrict(event, now) == event.finish < now

Due(event, now) == event.finish <= now

\* What is resident after _flush_events_until(now).
Visible(now) == resident \cup UNION {e.blocks : e \in {e \in events : Due(e, now)}}

Blocks(request) ==
    LET keys == BlockKeys(request, trace.scope)
    IN  [i \in DOMAIN keys |-> <<request.instance, keys[i]>>]

\* InfiniteHBMCache.lookup_prefix: the number of leading blocks that are resident.
LookupPrefix(blocks, cached) ==
    CHOOSE n \in 0..Len(blocks) :
        /\ \A i \in 1..n : blocks[i] \in cached
        /\ n < Len(blocks) => blocks[n + 1] \notin cached

\* sorted(requests, key=service_start_time) is stable.
ServedNext(n) ==
    \A m \in unserved :
        \/ trace.requests[n].time < trace.requests[m].time
        \/ trace.requests[n].time = trace.requests[m].time /\ n <= m

\* One turn of the loop of run; the raw misses are stored, not those of the credit.
Serve(n) ==
    LET request == trace.requests[n]
        now     == request.time
        blocks  == Blocks(request)
        hits    == LookupPrefix(blocks, Visible(now))
        misses  == {blocks[i] : i \in (hits + 1)..Len(blocks)}
        sizes   == BlockTokens(Len(request.tokens))
        credit  == Account(Len(request.tokens), SubSeq(sizes, 1, hits), <<>>)
    IN  /\ ServedNext(n)
        /\ resident' = Visible(now)
        /\ events' = {e \in events : ~Due(e, now)}
                       \cup {e \in {[finish |-> now + trace.ttft, blocks |-> misses]} : misses # {}}
        /\ results' = Append(results, [request |-> request, hit |-> credit.hbm, miss |-> credit.miss])
        /\ unserved' = unserved \ {n}
        /\ UNCHANGED trace

\* The last flush, at infinity.
FlushAll ==
    /\ unserved = {}
    /\ events # {}
    /\ resident' = resident \cup UNION {e.blocks : e \in events}
    /\ events' = {}
    /\ UNCHANGED <<trace, unserved, results>>

ReplayNext == (\E n \in unserved : Serve(n)) \/ FlushAll
=========================================================================
