---------------------------- MODULE CacheEvents ----------------------------
(***************************************************************************)
(* The cache events of a replay: what the two tiers emit (hbm_lru.py,      *)
(* ddr_lru.py), how TieredPrefixCache merges the streams (tiered.py), when *)
(* the replay drains them, and what a sink makes of them (event_sink.py,   *)
(* report/cache_events.py).  The instances of a trace are replayed one     *)
(* after the other, each on its own cache, into one sink.                  *)
(***************************************************************************)
EXTENDS PrefixCacheOps

CONSTANTS
    InstanceCount,      \* number of instances of the trace
    Paths,              \* block sequences a request may look up or store
    HBMCapacity,        \* capacity_blocks of the HBM tier
    DDRCapacity,        \* capacity_blocks of the DDR tier, 0 for an HBM-only cache
    MaxEvents,          \* max_events of the sink, 0 when there is no limit
    MaxCalls            \* bound of the model: calls per instance

ASSUME InstancesAssumption == InstanceCount \in Nat \ {0}
\* Chain hashes: no prompt has a key twice (request/block_hasher.py).
ASSUME PathsAssumption ==
    \A ks \in Paths :
        /\ ks \in Seq(Resident(ks))
        /\ \A i, j \in DOMAIN ks : ks[i] = ks[j] => i = j
ASSUME EventCapacitiesAssumption ==
    /\ HBMCapacity \in Nat \ {0}
    /\ DDRCapacity \in Nat
    /\ MaxEvents \in Nat
    /\ MaxCalls \in Nat

VARIABLES
    instance,   \* the instance being replayed
    calls,      \* calls its cache has served
    hbm, ddr,   \* the tiers of its cache, as recency orders
    lists,      \* the event lists: _events of each tier, and of TieredPrefixCache
    batch,      \* events emit_many is consuming
    kept,       \* events the sink keeps: a list, or the rows of a CSV file
    stats,      \* CacheEventStats
    phase,      \* "replay", "emit", "done", or "full": MemoryError was raised
    peaks       \* history: largest occupancy of each tier so far

caches == <<hbm, ddr>>
vars == <<instance, calls, caches, lists, batch, kept, stats, phase, peaks>>

Tiered == DDRCapacity > 0

NoEvents == [hbm |-> <<>>, ddr |-> <<>>, merged |-> <<>>]

NoStats == [total |-> 0, lookup_hit |-> 0, lookup_miss |-> 0, materialize |-> 0,
            evict |-> 0, store |-> 0, peakHBM |-> 0, finalHBM |-> 0,
            peakDDR |-> 0, finalDDR |-> 0]

Init ==
    /\ instance = 1
    /\ calls = 0
    /\ hbm = <<>>
    /\ ddr = <<>>
    /\ lists = NoEvents
    /\ batch = <<>>
    /\ kept = <<>>
    /\ stats = NoStats
    /\ phase = "replay"
    /\ peaks = [hbm |-> 0, ddr |-> 0]

-----------------------------------------------------------------------------
(* The events of one call.                                                   *)

Event(type, tier, key, hbmUsed, ddrUsed) ==
    [type |-> type, tier |-> tier, key |-> key, instance |-> instance,
     hbmUsed |-> hbmUsed, ddrUsed |-> ddrUsed]

\* An event of the HBM tier knows nothing of DDR; one of the DDR tier carries
\* the HBM occupancy it was called with.
TierEvent(type, tier, key, own, hbmUsed) ==
    IF tier = "hbm" THEN Event(type, tier, key, own, 0)
                    ELSE Event(type, tier, key, hbmUsed, own)

\* lookup_prefix of a tier: hits up to the first missing block, then a miss for
\* every block after it.
LookupEvents(tier, lru, ks, hbmUsed) ==
    [i \in DOMAIN ks |->
        TierEvent(IF i <= HitCount(lru, ks) THEN "lookup_hit" ELSE "lookup_miss",
                  tier, ks[i], Len(lru), hbmUsed)]

\* Mutation: the insertion is recorded before the eviction that makes room.
StoreBlockInsertFirst(tier, capacity, hbmUsed, at, k) ==
    LET full   == Len(at.lru) >= capacity
        lru    == Append(IF full THEN Tail(at.lru) ELSE at.lru, k)
        insert == TierEvent(IF tier = "hbm" THEN "materialize" ELSE "store",
                            tier, k, Len(lru), hbmUsed)
    IN  IF k \in Resident(at.lru) THEN [at EXCEPT !.lru = Touch(at.lru, <<k>>)]
        ELSE [lru    |-> lru,
              events |-> at.events \o <<insert>> \o
                IF full THEN <<TierEvent("evict", tier, Head(at.lru), Len(at.lru) - 1, hbmUsed)>>
                        ELSE <<>>]

\* Mutation: room is made when the tier is over its capacity, not when it is full.
StoreBlockLate(tier, capacity, hbmUsed, at, k) ==
    LET full   == Len(at.lru) > capacity
        room   == IF full THEN Tail(at.lru) ELSE at.lru
        insert == <<TierEvent(IF tier = "hbm" THEN "materialize" ELSE "store",
                              tier, k, Len(room) + 1, hbmUsed)>>
    IN  IF k \in Resident(at.lru)
        THEN [at EXCEPT !.lru = Touch(at.lru, <<k>>)]
        ELSE [lru |-> Append(room, k), events |-> at.events \o insert]

\* One block of materialize (HBM) or store (DDR): a resident block is touched
\* silently; for another one room is made first.
StoreBlock(tier, capacity, hbmUsed, at, k) ==
    LET full   == Len(at.lru) >= capacity
        room   == IF full THEN Tail(at.lru) ELSE at.lru
        evict  == IF full THEN <<TierEvent("evict", tier, Head(at.lru), Len(room), hbmUsed)>>
                          ELSE <<>>
        insert == <<TierEvent(IF tier = "hbm" THEN "materialize" ELSE "store",
                              tier, k, Len(room) + 1, hbmUsed)>>
    IN  IF k \in Resident(at.lru)
        THEN [at EXCEPT !.lru = Touch(at.lru, <<k>>)]
        ELSE [lru |-> Append(room, k), events |-> at.events \o evict \o insert]

Stored(tier, lru, ks, capacity, hbmUsed) ==
    LET at[n \in 0..Len(ks)] ==
            IF n = 0 THEN [lru |-> lru, events |-> <<>>]
            ELSE StoreBlock(tier, capacity, hbmUsed, at[n - 1], ks[n])
    IN  at[Len(ks)]

-----------------------------------------------------------------------------
(* The event lists.  A tier appends to its own; a tiered cache moves what    *)
(* the tiers have to its list, the list an HBM-only cache does not have.     *)

Emit(q, tier, events) == [q EXCEPT ![tier] = @ \o events]

\* Mutation: take_events of a tier hands its events out and keeps them.
DrainTierKeep(q, tier) == [q EXCEPT !.merged = @ \o q[tier]]

\* _drain_hbm_events, _drain_ddr_events: take_events of the tier empties its list.
DrainTier(q, tier) == [q EXCEPT !.merged = @ \o q[tier], ![tier] = <<>>]

\* Mutation: both tiers are drained after the call, DDR first.
AfterCallDDRFirst(q, h, d) ==
    LET emitted == Emit(Emit(q, "hbm", h), "ddr", d)
    IN  IF Tiered THEN DrainTier(DrainTier(emitted, "ddr"), "hbm") ELSE Emit(q, "hbm", h)

\* A call that makes HBM emit h and DDR emit d: HBM is called and drained, then
\* DDR is.
AfterCall(q, h, d) ==
    LET emitted == Emit(q, "hbm", h)
    IN  IF Tiered THEN DrainTier(Emit(DrainTier(emitted, "hbm"), "ddr", d), "ddr")
                  ELSE emitted

\* What take_events of the cache finds: the tiers are drained once more.
Gathered(q) == IF Tiered THEN DrainTier(DrainTier(q, "hbm"), "ddr") ELSE q

\* The list take_events of the cache returns and empties.
Outlet == IF Tiered THEN "merged" ELSE "hbm"

-----------------------------------------------------------------------------
(* Calls of the replay on the cache of the current instance.                 *)

Larger(a, b) == IF a > b THEN a ELSE b

CanCall == phase = "replay" /\ calls < MaxCalls

\* TieredPrefixCache.lookup_prefix (HBMCache.lookup_prefix without DDR).
Lookup(ks) ==
    /\ CanCall
    /\ LET rest == SubSeq(ks, HitCount(hbm, ks) + 1, Len(ks))
       IN  /\ hbm' = AfterLookup(hbm, ks)
           /\ ddr' = AfterLookup(ddr, rest)
           /\ lists' = AfterCall(lists, LookupEvents("hbm", hbm, ks, 0),
                                 LookupEvents("ddr", ddr, rest, Len(hbm)))
    /\ calls' = calls + 1
    /\ UNCHANGED <<instance, batch, kept, stats, phase, peaks>>

\* Write-through: HBM first, then DDR with the HBM occupancy after that.
Materialize(ks) ==
    /\ CanCall
    /\ LET h == Stored("hbm", hbm, ks, HBMCapacity, 0)
           d == IF Tiered THEN Stored("ddr", ddr, ks, DDRCapacity, Len(h.lru))
                          ELSE [lru |-> ddr, events |-> <<>>]
       IN  /\ hbm' = h.lru
           /\ ddr' = d.lru
           /\ lists' = AfterCall(lists, h.events, d.events)
           /\ peaks' = [hbm |-> Larger(peaks.hbm, Len(h.lru)),
                        ddr |-> Larger(peaks.ddr, Len(d.lru))]
    /\ calls' = calls + 1
    /\ UNCHANGED <<instance, batch, kept, stats, phase>>

\* _drain_cache_events: what take_events returns goes to emit_many, if anything.
Drain ==
    /\ phase = "replay"
    /\ Gathered(lists)[Outlet] # <<>>
    /\ batch' = Gathered(lists)[Outlet]
    /\ lists' = [Gathered(lists) EXCEPT ![Outlet] = <<>>]
    /\ phase' = "emit"
    /\ UNCHANGED <<instance, calls, caches, kept, stats, peaks>>

\* Mutation: an event of the HBM tier leaves the DDR peak to the next one.
RecordLast(s, e) ==
    [s EXCEPT !.total = @ + 1, ![e.type] = @ + 1,
              !.peakHBM = Larger(@, e.hbmUsed), !.finalHBM = e.hbmUsed,
              !.peakDDR = e.ddrUsed, !.finalDDR = e.ddrUsed]

\* CacheEventStats.record
Record(s, e) ==
    [s EXCEPT !.total = @ + 1, ![e.type] = @ + 1,
              !.peakHBM = Larger(@, e.hbmUsed), !.finalHBM = e.hbmUsed,
              !.peakDDR = Larger(@, e.ddrUsed), !.finalDDR = e.ddrUsed]

\* One event of emit_many.  A sink with a limit raises before it keeps the event.
EmitOne ==
    /\ phase = "emit"
    /\ batch # <<>>
    /\ IF MaxEvents > 0 /\ Len(kept) >= MaxEvents
       THEN phase' = "full" /\ UNCHANGED <<batch, kept, stats>>
       ELSE /\ kept' = Append(kept, Head(batch))
            /\ stats' = Record(stats, Head(batch))
            /\ batch' = Tail(batch)
            /\ UNCHANGED phase
    /\ UNCHANGED <<instance, calls, caches, lists, peaks>>

EmitReturn ==
    /\ phase = "emit"
    /\ batch = <<>>
    /\ phase' = "replay"
    /\ UNCHANGED <<instance, calls, caches, lists, batch, kept, stats, peaks>>

\* _run_instance drains once more before it returns; the next instance gets a
\* new cache.
NextInstance ==
    /\ phase = "replay"
    /\ Gathered(lists)[Outlet] = <<>>
    /\ IF instance < InstanceCount
       THEN /\ instance' = instance + 1
            /\ calls' = 0
            /\ hbm' = <<>>
            /\ ddr' = <<>>
            /\ lists' = NoEvents
            /\ UNCHANGED phase
       ELSE /\ phase' = "done"
            /\ UNCHANGED <<instance, calls, caches, lists>>
    /\ UNCHANGED <<batch, kept, stats, peaks>>

Next ==
    \/ \E ks \in Paths : Lookup(ks) \/ Materialize(ks)
    \/ Drain \/ EmitOne \/ EmitReturn \/ NextInstance

Spec == Init /\ [][Next]_vars

-----------------------------------------------------------------------------
(* Properties.                                                               *)

\* Events of the cache that take_events has not returned yet.
pending == lists.merged \o lists.hbm \o lists.ddr

\* Everything the caches of the replay have emitted, in order.
Stream == kept \o batch \o pending

TypeOK ==
    /\ instance \in 1..InstanceCount
    /\ calls \in 0..MaxCalls
    /\ \A e \in Resident(Stream) : e.hbmUsed \in 0..HBMCapacity /\ e.ddrUsed \in 0..DDRCapacity
    /\ stats \in [DOMAIN NoStats -> Nat]
    /\ phase \in {"replay", "emit", "done", "full"}
    /\ phase # "emit" => phase = "full" \/ batch = <<>>

\* What event e makes of the blocks S of a tier of instance i.
AfterEvent(S, e, tier, i) ==
    IF e.tier # tier \/ e.instance # i THEN S
    ELSE IF e.type \in {"materialize", "store"} THEN S \cup {e.key}
    ELSE IF e.type = "evict" THEN S \ {e.key}
    ELSE S

\* The blocks a tier of instance i holds after the events of s.
Replayed(s, tier, i) ==
    LET blocks[n \in 0..Len(s)] ==
            IF n = 0 THEN {} ELSE AfterEvent(blocks[n - 1], s[n], tier, i)
    IN  blocks[Len(s)]

\* The stream tells the whole story: no event is lost, repeated or put out of
\* order on its way through the lists of the tiers, the list that merges them and
\* the sink.  Replaying it gives the blocks of both tiers and, at every event, the
\* occupancy the event claims: an event of a tier that of its tier, and one of the
\* DDR tier also that of the HBM tier, whose events must therefore be in before it.
StreamExplainsResidency ==
    /\ Replayed(Stream, "hbm", instance) = Resident(hbm)
    /\ Replayed(Stream, "ddr", instance) = Resident(ddr)
    /\ \A i \in DOMAIN Stream :
           LET e          == Stream[i]
               Held(tier) == Cardinality(Replayed(SubSeq(Stream, 1, i), tier, instance))
           IN  e.instance = instance =>
                 /\ e.hbmUsed = Held("hbm")
                 /\ e.tier = "ddr" => e.ddrUsed = Held("ddr")

Kinds == {"lookup_hit", "lookup_miss", "materialize", "evict", "store"}

\* The statistics are those of the events that were kept, up to the very event
\* at which a full sink raises.  When all events are in, the peaks are the
\* largest occupancies the tiers ever had (the DDR peak survives the HBM events,
\* which report no DDR blocks), and the final HBM figure, which report/summary.py
\* prints as resident blocks, is what the cache of the last event holds, even if
\* that event is one of the DDR tier.
StatsAreOfKeptEvents ==
    /\ stats.total = Len(kept)
    /\ \A k \in Kinds : stats[k] = Cardinality({n \in DOMAIN kept : kept[n].type = k})
    /\ pending = <<>> /\ batch = <<>> =>
         /\ stats.peakHBM = peaks.hbm
         /\ stats.peakDDR = peaks.ddr
         /\ kept # <<>> /\ kept[Len(kept)].instance = instance => stats.finalHBM = Len(hbm)

=========================================================================
