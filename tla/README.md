# A TLA+ model of InferTwin

InferTwin replays request traces against a model of an LLM serving instance: it
batches requests as vLLM does, looks their prompts up in a prefix cache of one
or two tiers, asks a latency backend how long each batch takes, and reports hit
rates and time to first token (TTFT). The program is single-threaded and
deterministic. What is hard about it is not threads but the work of many
requests interleaved on one clock: a request is looked up in one iteration,
scheduled in a later one, computed in chunks, stored block by block, and charged
for every interval it waited, while other requests do the same to the same cache
and the same budgets. Around that replay the program reads long traces
without holding them, and resolves once what it uses for a whole run. The
nondeterminism of the model is what the program is given: the trace, the
configuration, the arrival times and the answers of the latency backend.

All paths below are relative to `src/src/infertwin/` unless they start with a
directory of the repository such as `docs/`.

## Inventory

| Component | State | Operations | Talks to |
|---|---|---|---|
| Batch-aware replay loop (`replay/event_loop.py`) | clock, arrival index, waiting queue, running list, state and lookup of every request | move arrivals, prepare the scheduler frontier (lookups, fast finish), schedule, estimate, apply slices, end the iteration | all of the others, by direct calls |
| vLLM-like scheduler (`scheduler/`) | none of its own; it changes the queue, the running list and the request states it is passed | `schedule`, `planned_prefill_tokens` (shared with the frontier) | replay loop |
| Request state (`scheduler/state.py`) | status, computed tokens, owed KV load, wait counters, materialized keys | attach lookup, consume KV load, apply tokens, record waits | replay loop, scheduler |
| HBM tier, DDR tier (`cache/hbm_lru.py`, `cache/ddr_lru.py`) and LRU policy (`cache/eviction.py`) | block table, access counter, event list; the policy's ordered dictionary | prefix lookup, materialize/store, evict | two-tier cache |
| Waiting queue (`scheduler/queue.py`) | a list and the number of its items that were popped | append, pop from the head or by index, compact | replay loops, scheduler |
| Two-tier cache (`cache/tiered.py`) | the two tiers, the merged event list | lookup HBM then DDR for the rest; write to both; take events | replay loop |
| Cached-token accounting (`cache/cached_token_accounting.py`, `cache/cache_block_conversion.py`) | none | credit of a lookup | replay loop |
| Materialization policies (`cache/materialization.py`) | none | blocks to store for a slice, for a finished request | replay loop, cache |
| KV transfer link (`replay/kv_transfer.py`) | next free time, unfinished transfers | submit | replay loop |
| TTFT composition and attribution (`replay/ttft.py`, `replay/metrics.py`) | none | split an iteration's latency over its slices, compose the TTFT of a finished request | replay loop |
| Cache events and statistics (`cache/event_sink.py`, `report/cache_events.py`) | kept events, counters, peaks, last values | emit many, snapshot | replay loop, which drains the cache into the sink |
| Infinite-HBM replay (`instance/replay.py`, `cache/infinite_hbm.py`) | caches of the instances, heap of materializations | flush, look up, schedule a materialization | request building |
| Block hashing (`request/block_hasher.py`) | none | chain of hashes over model, tenant and tokens | all caches, through the keys |
| Streaming build, shards, sources (`streaming/build.py`, `shard_store.py`, `manifest.py`, `source.py`) | last sort key, counts, state and file of each shard; read position and last key of a source | write a record, reject a record, check the manifest; peek, pop | streaming replay, through files |
| Streaming replay (`streaming/replay.py`) | as the replay loop, for live requests only | as the replay loop; report metrics and forget their requests | request source, metric sink |
| Streaming sweep (`streaming/sweep.py`, `metrics.py`, `cache_factory.py`) | rows; accumulators of the trace and of each instance | build, then for each capacity and shard make an engine, replay, compare counts; build rows | all of the streaming path |
| In-memory sweep (`experiment/sweep.py`) | lists of all metrics | aggregate to rows | replay loop |
| Latency backends, shape memo (`latency/`) | memo table of an engine | estimate an iteration | replay loop |
| Resolvers (`latency/instance_resolver.py`, `config/instance_runtime.py`, `streaming/build.py`) | backend of each instance, context of each model | resolve at first use | sweep, build |
| Profiles and guards (`config/`, `cache/block_size.py`, `request/build_context.py`) | none | parse, check, derive block sizes and limits | resolvers |
| Tokenizing and chat templates (`request/`), trace reading (`trace/`), reports (`report/`), calibration (`external/`), command line (`cli/`) | none during a replay | conversions, file output | |

The behaviours that are hard, and where they bite:

* *Look-ahead.* The frontier looks requests up before the scheduler runs, in a
  loop of its own, and one request further than the scheduler goes. That
  request keeps the credit of an early lookup.
* *Progress in chunks.* A prompt's blocks complete in different slices; what is
  stored after each must be exactly what has been computed.
* *State kept twice.* Residency in the cache and in the eviction policy, recency
  in an ordered dictionary and in sequence numbers, budgets in the frontier and
  in the scheduler, elapsed time in the clock and in the wait counters.
* *Ends of loops.* Idle jumps, requests that finish while they are looked up, a
  prompt that never fits.
* *Forgetting.* The streaming replay drops what it knows of a request when it
  reports it; a request may come later with the same id.
* *Things computed twice.* Rows metric by metric and from whole lists, the order
  of a trace and the order of its shards, the instance table for latencies and
  the same table for runtimes.
* *Things resolved once.* Contexts by model, backends by instance, durations by
  shape, each kept for uses that come later.
* *Late errors.* Rows are returned at the end of a run, so an error of the second
  capacity loses the first.
* *Numbers.* The last token of a prompt, partial blocks, dropped speculative
  blocks, a clock in epoch milliseconds.

`PROJECT.json` lists each of them with its line and the properties that cover
it.

## Modules

| Module | Models | Role |
|---|---|---|
| `CachedTokens` | block sizes of a prompt, `account_prefix_lookup` | operators |
| `Selections` | the list comprehensions that filter the running list | operators |
| `PrefixCacheOps` | whole calls of a cache tier on a recency order | operators, extends `Selections` |
| `IdealLRU` | what a tier promises: two atomic calls | abstract specification |
| `LRUCache` | a tier and its policy, one action per loop iteration | implements `IdealLRU` |
| `BatchReplay` | one instance: event loop, scheduler, cache, materialization | extends the two operator modules |
| `ReplayTimeline` | where the time of an iteration goes, and the TTFT composition | |
| `WaitingQueue` | the queue with head offset and compaction | operators |
| `CacheEvents` | events of the tiers, merged stream, draining, sink, statistics | extends `PrefixCacheOps` |
| `RequestBlocks` | block keys of a prompt | extends `CachedTokens` |
| `InfiniteHBM` | the replay on caches that never evict | extends `RequestBlocks` |
| `Algorithms` | the accounting of a lookup and the infinite-HBM replay, next to what they should return | extends `InfiniteHBM` |
| `ReplayOrder` | the two sort keys of the streaming path | operators |
| `CapacityRows` | rows of a sweep, aggregated in both ways | operators |
| `StreamingBuild` | from a trace to shards | extends `ReplayOrder` |
| `StreamingReplay` | replay of one shard with live state only | extends `WaitingQueue`, `CapacityRows`, `ReplayOrder`, `Selections` |
| `StreamingSweep` | build, then all capacities and shards | composes the two |
| `LatencyBackends` | batch shapes, backends, KV loads, memo | operators |
| `ModelProfiles` | profiles, their checks and derived values | extends `LatencyBackends` |
| `SweepSetup` | what a sweep resolves, and when | extends `ModelProfiles` |
| `PrefixCacheProofs` | lemmas about selections, counting and whole calls of a cache | extends `PrefixCacheOps` |
| `LRUCacheProofs`, `BatchReplayProofs`, `CacheEventsProofs`, `AlgorithmProofs` | theorems | extend the module they are about and `PrefixCacheProofs` |
| `StreamingSweepProofs` | theorems about the queue, the build and the sweep | extends `StreamingSweep` and `PrefixCacheProofs` |
| `ReplayTimelineProofs`, `SweepSetupProofs` | theorems | extend the module they are about |
| `MC...` | instances for TLC | |

**`LRUCache`.** `resident`, `lastAccess` and `accessSeq` are the block table and
counter of the tier, `recency` the key order of the policy's `OrderedDict`. A
call is `Begin`, one action per block (`LookupHit`, `StoreExisting`, `EvictOne`,
`StoreInsert`) and a return. The two tiers have the same loops, so one module
stands for both; event lists, hit counts and timestamps are left out. The
refinement maps `lru` to `recency` between calls and to the order at the start
of the call (`before`, a history variable) within one: a call takes effect at
its return. It justifies the atomic `AfterLookup` and `AfterStore` in
`BatchReplay`.

**`BatchReplay`.** `phase` says which loop the program is in and `idx`, `tok`,
`slots` are the locals of that loop, so each loop iteration of the frontier, of
the scheduler and of the application of slices is an action. A prompt is a token
count and a sequence of block keys; equal keys are equal chain hashes. Lookup,
accounting and the change of the request state are one action (`EnsureLookup`),
as they are one call in the code. `Materialized` is the policy of the timeline
mode: the chunk's new full blocks and then the pass at the finish (progressive),
or all misses at the finish (legacy). Requests are numbered in the order in
which the code sorts them. Durations are integers, chosen in `Estimate`.
`lookupAt` and `loaded` are history variables.

**`ReplayTimeline`.** The same loop seen as an account of time. Which requests a
batch holds is left open, so that the results hold for every schedule, those of
`BatchReplay` included; the KV load and prefill shares of a slice are any split
whose prefill parts add up and whose KV parts do not exceed the whole. `ClockUlp`
is the distance between two representable times: sums on the clock are rounded,
durations are not. The tolerance of 1e-9 ms is below any unit of the model and
is zero here. In the model a request may end after any of its slices, and only
its first may load KV (`KVLoadChargedOnce` of `BatchReplay`).

**`CachedTokens`.** Blocks enter by size. `FullPrefix` is the common loop of
`_count_matchable_full_blocks` and `_take_accounted_blocks`. `KeptTokens` is 1 in
the conversion the code makes itself (`_base_result` of
`cache/cache_block_conversion.py`), so the last token of a prompt is always
computed; then no slice only loads KV and only an empty prompt takes the
zero-miss path. A request may also carry a conversion result made elsewhere; the
tests give one that credits full prompts (`_full_prompt_cache_conversion` in
`tests/unit/replay/test_step8_kv_load_replay.py`). `KeptTokens = 0` stands for it
and reaches the load-only paths of the frontier and the scheduler.

**`WaitingQueue`.** The representation of the code: `items` and `head`. Indices
start at 1 and are logical; `At` and `PopAt` add the head, as `_normalize_index`
and its callers do. The compaction threshold, 64 in the code, is a constant.

**`CacheEvents`.** A call of the replay on a cache changes the recency orders of
the tiers, as in `PrefixCacheOps`, and emits events. `lists` holds the three lists
of the code: the `_events` of each tier and those of `TieredPrefixCache`. A tier
appends to its own (`Emit`); `_drain_hbm_events` and `_drain_ddr_events` move it to
the merged one (`DrainTier`), each after the call of its tier (`AfterCall`) and both
again in `take_events` (`Gathered`). Without DDR the replay takes the list of the
HBM tier itself (`Outlet`). `Drain` is `_drain_cache_events`, `EmitOne` one turn of
the loop of `emit_many`. Instances follow one another on
new caches and share the sink. An event has its type, tier, key, instance and the
two occupancies; times, reasons and request ids are left out.

**`RequestBlocks`, `InfiniteHBM`, `Algorithms`.** A hash stands for what it is
computed from, so a key is the nested tuple of the contents up to its block. In
`InfiniteHBM` a step is one request: `Serve` is a turn of the loop of `run`, from
the flush of what is due to the appended metric, and `ServedNext` its stable sort by
start time. The heap is a set of events, since what is due is applied to a set of
blocks in any order. The latency backend of this mode gives a TTFT per request; here
it is one number per trace. `Algorithms` adds the accounting of a lookup (`Compute`,
one call of `account_prefix_lookup`) and the definitions both are compared with; a
behaviour does one or the other.

**`StreamingBuild`, `StreamingReplay`, `StreamingSweep`.** Instances and ids are
numbers, ordered as numbers; instances are numbered from 1, and 0 is the scope of
the row of the whole trace. The rows of a capacity are a function of their scope,
because both lists of the code are sorted by `sort_capacity_rows` at the end. A record's `outcome` says whether it can be built.
The phases of the streaming loop are those of `BatchReplay`; which requests hit,
how many slices they need and which of them a batch takes is left open, so that
what is shown holds for every scheduler and cache of that shape. A batch is never
empty here; when the engine raises for an empty one is the question of `unchunked`. `states` stands
for `states_by_id` and `requests_by_id`, which change together. `Iterate` is
`schedule`, `_apply_schedule_result` and the report of its metrics; a metric has
one column of each kind that `CapacityRows` aggregates. `reported`, `iterations`
and `inMemory` are history variables: what `experiment/sweep.py` would have been
given, and the rows it would have made.

**`LatencyBackends`, `ModelProfiles`, `SweepSetup`.** Profiles are records of the
fields that are compared, multiplied or passed on. `Construct` is the making of
the runner, with all checks of loaded files across each other; `ReadSettings` and
`BuildRecord` are the building of the shards, where contexts are made and kept;
`BeginEngine` resolves backend, scheduler and cache of a shard, in this order;
`Iterate` is one estimate through the memo. The two resolvers of the code read
the instance table at their own paths, hence `latencyPath` and `runtimePath`.
Checks of a single field (present, a string, positive) are left out.

## Runs

| Run | Question | Instance |
|---|---|---|
| `lru_cache` | Do the loops of a tier implement an LRU cache? | 4 blocks of two prompts with a common prefix, capacity 2, every sequence of up to 4 calls |
| `accounting` | Is the credit the longest skippable prefix, less the dropped blocks? Does the infinite-HBM replay credit common prefixes with finished requests? | all prompts up to 16 tokens, blocks of 3, every split of hits between the tiers, 1 dropped block; every list of 3 requests out of 30 (5 prompts with 2 times and 2 tenants, another instance or another model), both cache scopes, TTFT 0 or 1 |
| `cache_events` | Does the event stream account for the tiers, and the statistics for the stream? | 2 instances, 2 calls each, tiers of 2 and 3 blocks, paths of 3 and 2 blocks with a common first, at most 20 events |
| `streaming` | Where does every record go, what is kept of it, what makes a sweep fail, does it end? | every trace of 2 records of 2 instances and 2 ids at one or two times, each built or rejected, and 4 others; 2 slices, 2 capacities, compaction threshold 1 |
| `setup` | Is every instance simulated as its own model; when do configuration errors appear? | 173 configurations around a valid one: 2 instances, 2 models, 2 capacities, 3 records; 4 batches |
| `tiered` | Progressive replay: which blocks are stored, visible and skipped, and what is looked up ahead | 3 requests, prompts of 5, 4 and 0 tokens in blocks of 2, arrivals 0..4, budget 3, 2 sequences, two tiers of 2 blocks |
| `tight_tiers` | Do credit and owed load survive waiting and eviction? Order of service, agreement of frontier and scheduler, completion | the same with one HBM block and a conversion that credits full prompts (`KeptTokens = 0`) |
| `legacy` | Limits of a batch, finish-time materialization | 3 requests, budget 5, chunks of 3, one tier of 3 blocks, 1 dropped block |
| `unchunked` | When does the replay stall? | 3 requests, budget 4, no chunking, so the prompt of 5 tokens never fits |
| `lookup_time` (violation) | Is the lookup made when the request is first scheduled, as the README says? | 2 equal prompts of 5 tokens, budget 5 |
| `timeline` | Does the TTFT decomposition close? | 3 requests, 2 iterations, any batches, prefill 2, KV 0 or 2, queue 0 or 1, arrivals 0 or 2 |
| `epoch_clock` (violation) | Does it close on the clock the program uses? | 2 requests, one duration of 10 on a clock with a spacing of 3 |

**Bounds.** Three requests are enough for one to run, one to be looked up ahead
and one to arrive later, and for one to store what the second hits while the
third evicts it; two prompts with a common first block give hits, partial hits
and forks, and their lengths give a partial last block and a last block that is
full but may not be credited. The budget of 3 against prompts of 5 makes
requests take several slices and, as one slice can take it all, makes the
frontier look one request ahead with none of its tokens planned. Arrivals up to
4 fall before, in and after the first iterations and after an idle gap. With two
tiers of two blocks, lookups hit HBM only, DDR only, and both, and blocks of a
credited prefix are evicted before their request is scheduled; with one HBM block
and full credit a request also waits with a KV load it owes, and slices of zero
tokens only load KV, first or second in their batch. In `lru_cache` four calls
fill a tier of two, evict from it, and store more blocks than it holds. In
`timeline` two iterations already give a request that waits across one that it
arrived in the middle of, two loads in one batch, and a load after another
batch's; arrivals later than the first iteration's end are covered by the proof.
In `accounting` the prompts part inside a block, at its end or not at all, and a
third request meets one that has finished and one that has not, at the moment of
its finish included. In `cache_events` the sink fills up in
the middle of a batch of the second instance, the path of three blocks evicts in
HBM but not in DDR, and both tiers see lookups of blocks they have, had and never
had; a drain finds the events of one call or of two. In `streaming` two records already give every order, equal keys, equal ids
that overlap or not, a rejected record between accepted ones and an instance with
rejected records only; three records of one instance give a queue from whose
middle a request leaves after its head has moved. A threshold of 1 compacts as
often as the code can; the theorems about the queue hold for any. In `setup`
configurations fail at the sweep section, the registry, the table, the bindings, the
paths, the guards and every later resolution, and the valid ones differ in where
a latency profile comes from; the two models share a deployment and have different
block sizes, so anything kept under the wrong name shows.
Iterations of the streaming sweep last 1; profiles whose coefficients are all zero
give durations of 0, which `ReplayAssumption` allows and the theorems cover.
`Terminated` in `BatchReplay` makes the end of a replay a stuttering step, so
deadlock is checked there. It is not checked in the other modules, where the
bound on calls or iterations stops the system.

**Fairness.** The program is one loop without blocking calls: as long as a step
of it is possible it is taken. `FairSpec` is weak fairness of `Step`, the
disjunction of all steps of `BatchReplay`, and of `Continue`, the rest of a call
in progress, in `LRUCache`; nobody has to begin another call. In
`StreamingSweep` it is weak fairness of `Next`: the sweep is one call that runs
until it returns or raises. The latency backend is assumed to return.

### What the violation runs show

* `lookup_time`: the frontier calls `_ensure_lookup` before it compares the
  budget (`replay/event_loop.py:488` and `:510`). The request at which it stops
  is looked up now and scheduled later: it misses blocks that the current
  iteration is about to store. Two identical prompts that arrive together, with a
  budget of one prompt, both miss, although the second is first scheduled after
  the first has been stored. `src/README.md:327` speaks of a "first-schedule-time
  lookup"; `src/README.md:339` ("first eligible to be considered by the
  scheduler") is vaguer and fits the code better. `LookAheadIsHead` and
  `CreditIsFinal` show that the effect is limited to one request at a time and
  that the credit stays consistent.
* `epoch_clock`: the composer allows a residual of -1e-9 ms. Start times are
  epoch milliseconds, where doubles are 2^-12 ms apart, so `now_ms +
  duration_ms` is rounded by up to 1.2e-4 ms and a request that was charged its
  own iteration exactly may come out with a negative residual; the replay then
  raises. On an exact clock it never does, which is what the theorems say.

## Proofs

Every invariant and every action property of the runs is proved, for every value of
the constants that the named assumptions allow; `PROJECT.json` lists the theorems.
Each is proved from an inductive invariant: initial states, one lemma per action,
invariance, and one theorem per property. The runs check the same properties on
small instances.

* `PrefixCacheProofs` has what the other proofs need to know about lists, counting
  and the operators of a cache. A recency order is a sequence from which a touch
  selects members (`Keep`), so the facts are about selections: what they contain,
  that they embed in order, that selecting distributes over concatenation and
  composes (`KeepMembers`, `KeepEmbeds`, `KeepUnion`, `KeepConcat`, `KeepKeep`,
  `TouchOneMore`). They need induction over sequences. The induction theorems of the
  library take the predicate as an operator, which the provers cannot instantiate,
  so the predicate is a set of numbers here: `LeastElement` follows from the
  well-foundedness of strict inclusion on finite sets, `SetInduction` and
  `FoldExists` (a recursive function with the given equations exists) from that. The
  proofs of the streaming path and of the events count besides: a list without
  repetition is as long as the set of its members (`DistinctCount`), and a
  one-to-one image as large as what it is of (`ImageCount`).

* `BatchReplayProofs` holds for every number of requests, every set of prompts,
  arrivals, durations, capacities and scheduler limits, chunked or not, with both
  materialization policies. The inductive invariant `BatchInv` has a part for each
  actor. `Credits` says what a lookup may have left in a request: whole blocks of
  its own raw hits, and a load owed that is its DDR share until the first slice.
  `Lifecycles` and `RunningInv` tie status, queues and progress together, `QueueInv`
  says that the queue holds the waiting requests in the order of arrival. `SliceInv`
  is about the batch: its slices are of different running requests and begin where
  their requests are, until they are applied. `LimitsInv` counts: the tokens of the
  batch and the budget that is left do not exceed the whole budget. `PreparedInv`
  carries `RunningPrepared` through an iteration: a running request without tokens
  left has its last slice still to be applied. The blocks come on top. `CacheInv`
  follows a resident block to a request that has stored it (`HasStored`), and a hit
  of a lookup to another request than the one that made it; a third invariant says
  how far `stored` has come. `BatchIsWithinLimits` (its clause that slices are not
  empty) and `SkipsAreComputed` assume `KeptTokens = 1`, the conversion the code
  makes by itself (`cache/cache_block_conversion.py`): with 0, which a conversion
  result handed to the engine may ask for, a request may skip its whole prompt and
  its last slice is empty.

  The second half of the module is about two loops that must agree. The frontier
  walks the running list and the queue, looks requests up and counts them; the
  scheduler walks the same two lists later, with the same budget, while it moves
  requests from one to the other. The invariant is the course: the line of requests
  (running, then waiting), the first `slots` of it, and for each of them the budget
  left after it. These exist (`Course`) and both loops stand on them (`Position`):
  the frontier has `tok = b[slots]`, the scheduler `tok = b[Len(slices)]`. Admitting
  a request takes it from the head of the queue to the end of the running list and
  so leaves the line as it was. Why the frontier stopped (`Stopped`) is part of the
  invariant, because the same reason stops the scheduler. `WholeInv` is needed for
  runs without chunked prefill, in which a running request would otherwise block the
  line; `LookAheadInv` says which waiting requests may have been looked up in each
  phase; `TimesInv` and `PassedInv` are the order of first slices while some
  requests of an iteration already have theirs.

* `LRUCacheProofs` holds for every set of keys, capacity, bound on calls and set of
  batches. The conjuncts that make the invariant inductive are that the policy's
  order lists the resident blocks without repetition, that the sequence numbers
  increase along it and stay at or below `accessSeq`, and that a tier that is full
  has a block to evict. Without the last one `Victim` would be undefined; without
  the bound by `accessSeq` a touched block would not be known to be the newest.
  `EvictsOldest` is an action property and follows from the same invariant. The
  refinement of `IdealLRU` adds what a call has done so far: a lookup has touched
  the first `pos` blocks of its batch, all of them hits (`LookupInv`); a store has
  dropped a beginning of the order that would hold all blocks, nothing, or what the
  capacity demands, or one block more between an eviction and the insertion it makes
  room for (`StoreInv`). Every step but a return stutters. It assumes that no batch
  has a block twice, which the chained hashes of `request/block_hasher.py` give
  (`DistinctBlocksAssumption`).
* `ReplayTimelineProofs` assumes `ClockUlp = 1`, that is, a clock on which sums are
  exact; the run `epoch_clock` shows that the assumption is needed. It holds for
  every set of requests, arrivals, latencies and bound. The argument is a reserve:
  within an iteration the time at which the link becomes free plus all the prefill
  and KV time that no slice has been given yet does not exceed the finish of the
  iteration (`WithinIteration`). What a slice is charged comes out of that reserve,
  so its request was charged no more than it has lived at the finish. Requests
  outside the batch were charged the whole iteration and are covered at its finish;
  at the end of the iteration all of them are covered at the new `now`
  (`BetweenIterations`). `WaitSoFar` says the exact value for requests that were
  never scheduled, and `LinkInv` bounds the transfers of the link.

* `StreamingSweepProofs` begins with the waiting queue: `Contents`, what the queue
  is iterated as, is changed by each operation as a plain sequence would be, for
  every threshold and every queue whose head is at most its length.
  `CompactionUnseen` is the step all of them share. `BatchReplay` may therefore take
  the queue to be a sequence. The build comes next: sortedness of a shard follows
  from that of the trace only through the last key, so the invariant adds
  `PreviousIsLatest` (every request of every shard is at or before `previous`) and
  `RecordsCounted` (the state of a shard spans it). The step that matters is that
  two records of one instance that are in order by (time, instance, id) are in order
  by (time, id). `CauseInv` is about failures: `accepted` is the number of pairs of
  an instance and a place in its shard (`Counted`), so the manifest, which adds up
  the shards, always agrees; and `previous` is the line before, so a trace that is
  refused has two lines in the wrong order. The sweep: all that follows holds for
  every trace, every set of capacities, every schedule and every compaction
  threshold. A sweep never changes a shard after it is built (`SweepBuilds`), so
  what holds of the build holds of it, and the source of a shard never raises: the
  last popped request precedes the next one in a sorted shard (`SweepInv`).
  `StageInv` is the order of the stages. `LiveInv` is the live state: an active
  request is in exactly one of the queue, the running list and the metrics to be
  reported, and the queue is in order of arrival (`PlacesOf`); a lookup is of the
  request that has the id now, and a request that was looked up owes a slice until
  its metric is made (`EntriesOf`); an `arrival_seq` is a place in the source
  (`Origins`). Without the second of these a later request with the same id might be
  served by the lookup of an earlier one. Each operation on the queue is one of the
  theorems about the queue. `ReportInv` is the past: what was reported are the
  requests of the shards already replayed and those of the current one that were
  read and are no longer active, each once, and `emitted` counts the latter.
  `LiveStateOnly`, `ExactlyOnce` and `FailsOnlyForTheTrace` follow; in particular
  the count check of the runner never fails, and two requests with one id collide
  only while the first is still active.

  `RowsAgree`, the rows, is about two ways to aggregate: one metric at a time into
  the accumulators of the trace and of its instance, or all at the end from lists.
  `RowsInv` says that the accumulators hold the totals, the counts, the largest
  depth and the TTFTs of what was reported in the current capacity (`Aggregates`),
  and that the rows of the capacities that are done are equal and over all accepted
  requests. The step that matters is that a metric appended to the list changes the
  selection of its own instance (`Of`) and no other. An instance with iterations but
  no request has no row in either.

* `CacheEventsProofs` holds for every number of instances, calls and blocks, tiers
  of any capacity, with or without the lower one, and any limit of the sink, and
  assumes that no prompt has a block twice (`PathsAssumption`), as the chained
  hashes give. `EventsInv` has a part for each place an event can be: `Tells` says
  that the stream from the first event to the last listed one replays to what the
  tiers hold, with the occupancies the events claim on the way (`Claims`), and that
  the peaks are the largest of those occupancies; `ListsInv` says where events can be
  between calls: in the one list that `take_events` returns, so that `pending`, the
  lists one after the other, is what it returns (`PendingIsOutlet`); `Accounts` says that the statistics count
  the kept events and no other, and what their peaks are. Draining and emitting move
  events along the stream and leave it as it is, so what it tells does not change.
  The events of an instance that is over tell nothing of the next, whose caches
  begin empty. A call is the hard step: the events of a lookup and of a store, with
  evictions between insertions, are followed one block at a time along the recency
  order (`StoreBlock`), in one tier and then in the other. That order is part of the claim:
  an event of the DDR tier carries the HBM occupancy after the call of the HBM tier,
  so the events of that call have to be before it in the stream.

* `AlgorithmProofs` is about what is computed over data. `CreditsLongest` holds for
  every block size, number of dropped blocks and prompt length: the loops stop at
  the first block that does not fit a budget, so what they take is a count of whole
  blocks (`FullPrefixIs`), the two budgets add up to one over both lists, and the
  longest prefix of the definition is a quotient (`CreditedIs`). `HitsAreExact`
  holds for every list of requests with any integer times. The invariant is
  `VisibleIsStored`: from the start of the last request served on, what is visible
  at a time are the blocks, *all* blocks, of the requests finished by then. Only
  missed blocks are stored, so this is not evident: the hits of a request were
  visible when it was looked up and caches never evict. The other half is the chain:
  two keys are equal exactly when their prompts are equal up to that block and their
  scopes are (`EqualKeys`, `SameKeys`, by induction along the prompt), so a resident block is a
  shared prefix.

* `SweepSetupProofs` holds for every set of configurations and traces whose numbers
  are numbers (`ExperimentsAssumption`). What is resolved once is kept under a name;
  the invariant `SetupInv` says of each kept thing what it is kept for: a context is
  that of its model's profiles (`ContextInv`), a request passed the checks of its
  own model's context (`RequestInv`), a backend is that of its instance
  (`BackendInv`), the engine is that of the current shard and its memo has durations
  of its own backend. `RoundInv` is the order of errors: every shard of the first
  round was resolved or is still to do, so that from the second capacity on nothing
  but a KV load of unknown bytes can fail.

Induction over data has to be phrased with sets (`SetInduction`, `FoldExists`),
because the induction theorems of the library take an operator; recursive functions
are proved about in this way, and no module that a proof uses has a `RECURSIVE`
operator.

Only model-checked are the liveness properties: `CallsReturn` of `LRUCache`,
`AllFinish` and `Returns` of `BatchReplay`, and `Terminates` of `StreamingSweep`. They
need fairness and `ENABLED`, which are out of the prover's reach.
`LookupAtFirstSchedule` and the residual on the epoch clock are false, which is what
the violation runs show.

## Observations

Met while modelling; no property is about them, since no document says otherwise
or nothing uses the value.

* `shape_memo or ShapeMemo()` (`replay/event_loop.py:62`) drops a shared memo that
  is empty, because `ShapeMemo` has a length. That an engine has its own memo is
  what keeps `ServedByOwnModel`: coefficients are not part of `ShapeKey`.
* `final_ddr_used_blocks` is 0 whenever the last event is one of the HBM tier.
* `effective_block_size_tokens` of a resolved runtime profile
  (`config/model_runtime.py:131`) is not what `BlockSizeResolver` computes for
  hybrid models. Requests are built with the latter.
* A remote KV-load coefficient of an instance's profile is accepted when the
  configuration is loaded and refused when the shard of the instance is first
  replayed; one of the global backend is refused at once.
* A byte-linear KV load without a known block size in bytes fails when a request
  first hits DDR, which may be after capacities that had no such hit.
  `FailsBeforeRowsExist` makes the exception for it and no other property is about
  it: that only this error is late would restate the guard that raises it.
* `src/README.md:325` asks for `scheduled_prefill_tokens` above zero. The scheduler
  also makes slices of zero tokens that only load KV (`_can_schedule_load_only`), and
  `apply_load_only_iteration` and the tests expect them; the model follows the code.
* The in-memory replay does not notice two requests of an instance with one id;
  the streaming replay does while both are active.

## Not modelled

Tokenizing, chat templates and parsing are text conversions, of which a prompt's
token count or its tokens are what is left. Reading and normalizing traces converts
files; the normalizer checks its output path before it writes, which matters only
against another program. Reports, calibration and the command line format numbers
that are modelled where they are made. Checks that a single field of a profile is
present or positive are left out, and with them most of the lines of
`config/profiles.py`. The legacy TTFT composition is a subtraction. Several
instances share nothing in a replay, so `BatchReplay` has one; the streaming sweep
has several because they share the aggregator. Duplicate request identifiers are in
`StreamingReplay` and not in `BatchReplay`, whose requests are numbered. Block-size
conversions that are not supported raise before a replay starts. The aggregator
raises when the token counts of a metric do not add up and when metrics of two
timelines or granularities meet (`streaming/metrics.py`, `experiment/sweep.py`); one
run makes metrics of one kind, so the rows are modelled without these checks. The
split of a KV load between slices by bytes, when all know them, or by tokens is left
open in `ReplayTimeline`, whose shares may be any.

## Plan

Done: all modules above, and the proof of every safety property that a passing run
checks: `LRUCache` with its refinement, `BatchReplay`, `ReplayTimeline`,
`CacheEvents`, `Algorithms`, `StreamingSweep` with the queue, the build and the rows,
and `SweepSetup`.

Left, in this order:

1. Checks of single fields in `ModelProfiles`, where one of them decides when a
   run fails.
2. Several requests with one id in `BatchReplay`.
3. A proof of the decreasing quantities behind `AllFinish` and `Terminates`, as
   action properties: that every iteration computes tokens is one already
   (`BatchIsWithinLimits`).
