--------------------------- MODULE BatchReplay ---------------------------
(***************************************************************************)
(* The batch-aware replay of one serving instance: the event loop of       *)
(* BatchAwareReplayEngine (replay/event_loop.py), the vLLM-like scheduler  *)
(* (scheduler/), the lookup and materialization of prefix-cache blocks     *)
(* (cache/), in the order in which the code performs them.                 *)
(*                                                                         *)
(* The program is single-threaded; what interleaves is the work of the     *)
(* requests, whose chunks, lookups and materializations share one clock,   *)
(* one token budget and one cache.  Every iteration of a loop of the code  *)
(* is an action; "phase" is the loop the program is in.                    *)
(***************************************************************************)
EXTENDS CachedTokens, PrefixCacheOps

CONSTANTS
    N,                  \* number of requests routed to the instance
    Prompts,            \* prompts: [tokens |-> Nat, blocks |-> sequence of keys]
    MaxStart,           \* bound of the model: latest arrival time
    Durations,          \* durations the latency backend may return
    HBMCapacity,        \* capacity_blocks of the HBM tier
    DDRCapacity,        \* capacity_blocks of the DDR tier, 0 when there is none
    MaxBatchedTokens,   \* max_num_batched_tokens
    MaxSeqs,            \* max_num_seqs
    Chunked,            \* enable_chunked_prefill
    ChunkThreshold,     \* long_prefill_token_threshold
    Progressive         \* progressive timeline mode (else finish-time materialization)

Requests == 1..N        \* numbered in the order of (start_time_ms, request_id)

Unset == -1             \* a time that has not been recorded yet

ASSUME RequestsAssumption == N \in Nat \ {0} /\ MaxStart \in Nat
\* The keys of all the blocks there are.
BlockKeys == UNION {Resident(p.blocks) : p \in Prompts}

ASSUME PromptsAssumption ==
    \A p \in Prompts :
        /\ p.tokens \in Nat
        /\ p.blocks \in Seq(BlockKeys)
        /\ Len(p.blocks) = BlockCount(p.tokens)
ASSUME DurationsAssumption == Durations \subseteq Nat
ASSUME CapacitiesAssumption == HBMCapacity \in Nat \ {0} /\ DDRCapacity \in Nat
ASSUME SchedulerAssumption ==
    /\ MaxBatchedTokens \in Nat \ {0}
    /\ MaxSeqs \in Nat \ {0}
    /\ ChunkThreshold \in Nat \ {0}
    /\ Chunked \in BOOLEAN
    /\ Progressive \in BOOLEAN

VARIABLES
    prompt,     \* the prompt of each request
    start,      \* its start_time_ms, relative to the first request
    arrived,    \* pending_index: requests moved into the waiting queue
    now,        \* now_ms
    waiting,    \* the WaitingQueue
    running,    \* the running list
    status,     \* RequestStatus, "pending" before arrival
    looked,     \* cache_lookup_done
    rawHits,    \* resident blocks the lookup found (hits of both tiers)
    ddrHit,     \* ddr_hit_tokens of the lookup
    cached,     \* cached_tokens
    computed,   \* num_computed_tokens
    owes,       \* pending_kv_load_tokens
    firstAt,    \* first_scheduled_time_ms
    finishAt,   \* finish_time_ms
    stored,     \* indices of the blocks a request materialized, in order
    hbm, ddr,   \* the two tiers, as recency orders
    phase,      \* the loop the program is in
    tok,        \* token_budget of that loop
    slots,      \* planned_slices of the frontier
    idx,        \* position of that loop
    slices,     \* request_slices of the batch being built or applied
    finishMs,   \* finish_ms of the iteration
    lookupAt,   \* history: time of each request's lookup
    loaded      \* history: KV tokens charged to each request's slices

inputs == <<prompt, start>>
progress == <<computed, finishAt, stored>>
lookups == <<looked, rawHits, ddrHit, cached, lookupAt>>
caches == <<hbm, ddr>>
budget == <<tok, slots, idx, slices, finishMs>>
queues == <<arrived, waiting, running>>

vars == <<inputs, queues, now, status, lookups, progress, owes, firstAt, caches,
          phase, budget, loaded>>

Phases == {"arrive", "planRunning", "planWaiting", "planned", "schedRunning",
           "schedWaiting", "estimate", "apply", "done", "error"}

Blocks(r) == prompt[r].blocks
Tokens(r) == prompt[r].tokens
Remaining(r) == Tokens(r) - computed[r]
OwesLoad(r) == owes[r] > 0

\* Last token of block i of r: blocks are full but possibly the last.
EndToken(r, i) == MinOf(i * BlockSize, Tokens(r))
IsFull(r, i) == i * BlockSize <= Tokens(r)

\* materialization_blocks: the raw misses of the lookup, by index.
MissIndices(r) == (rawHits[r] + 1)..Len(Blocks(r))

\* The members of a set of indices in increasing order, and their keys.
InOrder(r, S) == Keep([i \in 1..Len(Blocks(r)) |-> i], S)
KeysOf(r, is) == [j \in DOMAIN is |-> Blocks(r)[is[j]]]

Init ==
    /\ prompt \in [Requests -> Prompts]
    /\ start \in [Requests -> 0..MaxStart]
    /\ start[1] = 0
    /\ \A r \in 1..(N - 1) : start[r] <= start[r + 1]
    /\ arrived = 0
    /\ now = 0
    /\ waiting = <<>>
    /\ running = <<>>
    /\ status = [r \in Requests |-> "pending"]
    /\ looked = [r \in Requests |-> FALSE]
    /\ rawHits = [r \in Requests |-> 0]
    /\ ddrHit = [r \in Requests |-> 0]
    /\ cached = [r \in Requests |-> 0]
    /\ computed = [r \in Requests |-> 0]
    /\ owes = [r \in Requests |-> 0]
    /\ firstAt = [r \in Requests |-> Unset]
    /\ finishAt = [r \in Requests |-> Unset]
    /\ stored = [r \in Requests |-> <<>>]
    /\ hbm = <<>>
    /\ ddr = <<>>
    /\ phase = "arrive"
    /\ tok = 0
    /\ slots = 0
    /\ idx = 1
    /\ slices = <<>>
    /\ finishMs = 0
    /\ lookupAt = [r \in Requests |-> Unset]
    /\ loaded = [r \in Requests |-> 0]

-----------------------------------------------------------------------------
(* Arrivals and the clock.                                                   *)

\* Mutation: an arrival at the current time is not due yet.
DueLate == arrived < N /\ start[arrived + 1] < now

Due == arrived < N /\ start[arrived + 1] <= now
Idle == waiting = <<>> /\ running = <<>>

\* Mutation: the newest arrival goes to the front of the queue.
ArriveAtHead ==
    /\ phase = "arrive"
    /\ Due
    /\ arrived' = arrived + 1
    /\ waiting' = <<arrived + 1>> \o waiting
    /\ status' = [status EXCEPT ![arrived + 1] = "waiting"]
    /\ UNCHANGED <<inputs, running, now, lookups, progress, owes, firstAt, caches,
                   phase, budget, loaded>>

Arrive ==
    /\ phase = "arrive"
    /\ Due
    /\ arrived' = arrived + 1
    /\ waiting' = Append(waiting, arrived + 1)
    /\ status' = [status EXCEPT ![arrived + 1] = "waiting"]
    /\ UNCHANGED <<inputs, running, now, lookups, progress, owes, firstAt, caches,
                   phase, budget, loaded>>

\* Nothing is active: jump to the next arrival.
JumpToArrival ==
    /\ phase = "arrive"
    /\ ~Due
    /\ Idle
    /\ arrived < N
    /\ now' = start[arrived + 1]
    /\ UNCHANGED <<inputs, queues, status, lookups, progress, owes, firstAt, caches,
                   phase, budget, loaded>>

\* All due arrivals are in.  Running requests were looked up when they were
\* admitted and have tokens left, so preparing them changes nothing
\* (RunningPrepared); the frontier starts with the budgets of one iteration.
BeginFrontier ==
    /\ phase = "arrive"
    /\ ~Due
    /\ ~Idle
    /\ phase' = "planRunning"
    /\ tok' = MaxBatchedTokens
    /\ slots' = 0
    /\ idx' = 1
    /\ UNCHANGED <<inputs, queues, now, status, lookups, progress, owes, firstAt,
                   caches, slices, finishMs, loaded>>

-----------------------------------------------------------------------------
(* planned_prefill_tokens: shared by the frontier and the scheduler.          *)

ChunkLimit == IF Chunked THEN MinOf(MaxBatchedTokens, ChunkThreshold)
                         ELSE MaxBatchedTokens

\* Mutation: the tokens left in the budget are not looked at.
PlannedIgnoringBudget(r, available) ==
    IF available <= 0 THEN 0 ELSE MinOf(Remaining(r), ChunkLimit)

\* Mutation: the chunk limit is not looked at.
PlannedNoChunkLimit(r, available) == MinOf(Remaining(r), available)

\* Mutation: a prompt that fills the budget exactly does not fit.
PlannedWholeOnly(r, available) == IF Remaining(r) < available THEN Remaining(r) ELSE 0

Planned(r, available) ==
    IF \/ available <= 0
       \/ Remaining(r) <= 0
       \/ ~Chunked /\ Remaining(r) > available
    THEN 0
    ELSE MinOf(Remaining(r), MinOf(available, ChunkLimit))

CanScheduleLoadOnly(r) == Remaining(r) = 0 /\ OwesLoad(r)

-----------------------------------------------------------------------------
(* The scheduler frontier: which waiting requests must be looked up before    *)
(* the scheduler runs.                                                        *)

\* One iteration of the loop over the running requests.
PlanRunning ==
    /\ phase = "planRunning"
    /\ idx <= Len(running)
    /\ LET r == running[idx]
           t == Planned(r, tok)
           used == IF t > 0 \/ CanScheduleLoadOnly(r) THEN 1 ELSE 0
       IN  /\ tok' = tok - t
           /\ slots' = slots + used
           /\ idx' = idx + 1
           /\ phase' = IF used = 1 /\ (slots + 1 >= MaxSeqs \/ (t > 0 /\ tok - t <= 0))
                       THEN "planned" ELSE "planRunning"
    /\ UNCHANGED <<inputs, queues, now, status, lookups, progress, owes, firstAt,
                   caches, slices, finishMs, loaded>>

PlanRunningDone ==
    /\ phase = "planRunning"
    /\ idx > Len(running)
    /\ phase' = "planWaiting"
    /\ idx' = 1
    /\ UNCHANGED <<inputs, queues, now, status, lookups, progress, owes, firstAt,
                   caches, tok, slots, slices, finishMs, loaded>>

\* Mutation: off by one in the limit of the frontier.
PlanningWaitingStopsEarly ==
    phase = "planWaiting" /\ idx <= Len(waiting) /\ slots + 1 < MaxSeqs

PlanningWaiting ==
    /\ phase = "planWaiting"
    /\ idx <= Len(waiting)
    /\ slots < MaxSeqs

\* Mutation: a request is looked up every time the frontier comes by.
NeedsLookupAgain(r) == looked[r] \in BOOLEAN

NeedsLookup(r) == ~looked[r]

\* _ensure_lookup: HBM first, then DDR for the blocks HBM misses.  The
\* accounted hits become cached tokens, DDR hits are owed as a KV load.
EnsureLookup(r) ==
    /\ NeedsLookup(r)
    /\ LET sizes == BlockTokens(Tokens(r))
           h     == HitCount(hbm, Blocks(r))
           rest  == SubSeq(Blocks(r), h + 1, Len(Blocks(r)))
           d     == HitCount(ddr, rest)
           acc   == Account(Tokens(r), SubSeq(sizes, 1, h), SubSeq(sizes, h + 1, h + d))
       IN  /\ hbm' = AfterLookup(hbm, Blocks(r))
           /\ ddr' = AfterLookup(ddr, rest)
           /\ looked' = [looked EXCEPT ![r] = TRUE]
           /\ rawHits' = [rawHits EXCEPT ![r] = h + d]
           /\ ddrHit' = [ddrHit EXCEPT ![r] = acc.ddr]
           /\ cached' = [cached EXCEPT ![r] = acc.hbm + acc.ddr]
           /\ computed' = [computed EXCEPT ![r] = acc.hbm + acc.ddr]
           /\ owes' = [owes EXCEPT ![r] = acc.ddr]
           /\ lookupAt' = [lookupAt EXCEPT ![r] = now]
    /\ UNCHANGED <<inputs, queues, now, status, finishAt, stored, firstAt, phase,
                   budget, loaded>>

\* Mutation: the whole queue is looked up.
LookupQueue == phase = "planWaiting" /\ \E i \in DOMAIN waiting : EnsureLookup(waiting[i])

LookupWaiting == PlanningWaiting /\ EnsureLookup(waiting[idx])

\* A looked-up request with nothing to compute and nothing to load leaves the
\* queue at once.
FinishZeroMiss ==
    /\ PlanningWaiting
    /\ LET r == waiting[idx]
       IN  /\ looked[r]
           /\ Remaining(r) = 0
           /\ ~OwesLoad(r)
           /\ waiting' = SubSeq(waiting, 1, idx - 1) \o SubSeq(waiting, idx + 1, Len(waiting))
           /\ firstAt' = [firstAt EXCEPT ![r] = IF @ = Unset THEN now ELSE @]
           /\ finishAt' = [finishAt EXCEPT ![r] = now]
           /\ status' = [status EXCEPT ![r] = "finished"]
    /\ UNCHANGED <<inputs, arrived, running, now, lookups, computed, stored, owes,
                   caches, phase, budget, loaded>>

\* The rest of the loop body: count the slice, or stop when the budget is
\* spent.  The request at which the loop stops has been looked up already.
PlanWaiting ==
    /\ PlanningWaiting
    /\ LET r == waiting[idx]
           t == Planned(r, tok)
       IN  /\ looked[r]
           /\ Remaining(r) > 0 \/ OwesLoad(r)
           /\ IF t > 0 \/ CanScheduleLoadOnly(r)
              THEN /\ tok' = tok - t
                   /\ slots' = slots + 1
                   /\ idx' = idx + 1
                   /\ UNCHANGED phase
              ELSE /\ phase' = "planned"
                   /\ UNCHANGED <<tok, slots, idx>>
    /\ UNCHANGED <<inputs, queues, now, status, lookups, progress, owes, firstAt,
                   caches, slices, finishMs, loaded>>

PlanWaitingDone ==
    /\ phase = "planWaiting"
    /\ ~PlanningWaiting
    /\ phase' = "planned"
    /\ UNCHANGED <<inputs, queues, now, status, lookups, progress, owes, firstAt,
                   caches, budget, loaded>>

\* Every request may have left by the fast path: then the loop goes on with
\* the next arrival or ends.
NothingLeft ==
    /\ phase = "planned"
    /\ Idle
    /\ IF arrived < N
       THEN /\ now' = MaxOf(now, start[arrived + 1])
            /\ phase' = "arrive"
       ELSE /\ phase' = "done"
            /\ UNCHANGED now
    /\ UNCHANGED <<inputs, queues, status, lookups, progress, owes, firstAt, caches,
                   budget, loaded>>

BeginSchedule ==
    /\ phase = "planned"
    /\ ~Idle
    /\ phase' = "schedRunning"
    /\ tok' = MaxBatchedTokens
    /\ idx' = 1
    /\ slices' = <<>>
    /\ UNCHANGED <<inputs, queues, now, status, lookups, progress, owes, firstAt,
                   caches, slots, finishMs, loaded>>

-----------------------------------------------------------------------------
(* VllmLikeBatchScheduler.schedule.                                           *)

\* A RequestSlice: the tokens of one request in a batch, those computed before
\* it, and the KV tokens it loads.
Slices == [req : Requests, tokens : Nat, before : Nat, load : Nat]

\* _slice_for: the first slice of a request carries its whole KV load.
SliceFor(r, t) == [req |-> r, tokens |-> t, before |-> computed[r], load |-> owes[r]]

\* Mutation: the load stays owed after it was charged.
ConsumeLoadKept(r) ==
    /\ loaded' = [loaded EXCEPT ![r] = @ + owes[r]]
    /\ UNCHANGED owes

ConsumeLoad(r) ==
    /\ owes' = [owes EXCEPT ![r] = 0]
    /\ loaded' = [loaded EXCEPT ![r] = @ + owes[r]]

\* Running requests come first, in the order of their admission.
ScheduleRunning ==
    /\ phase = "schedRunning"
    /\ idx <= Len(running)
    /\ Len(slices) < MaxSeqs
    /\ LET r == running[idx]
           t == Planned(r, tok)
       IN  /\ tok > 0 \/ CanScheduleLoadOnly(r)
           /\ tok' = tok - t
           /\ IF t > 0 \/ CanScheduleLoadOnly(r)
              THEN slices' = Append(slices, SliceFor(r, t)) /\ ConsumeLoad(r)
              ELSE UNCHANGED <<slices, owes, loaded>>
    /\ idx' = idx + 1
    /\ UNCHANGED <<inputs, queues, now, status, lookups, progress, firstAt, caches,
                   phase, slots, finishMs>>

ScheduleRunningDone ==
    /\ phase = "schedRunning"
    /\ idx <= Len(running) /\ Len(slices) < MaxSeqs
         => tok <= 0 /\ ~CanScheduleLoadOnly(running[idx])
    /\ phase' = "schedWaiting"
    /\ UNCHANGED <<inputs, queues, now, status, lookups, progress, owes, firstAt,
                   caches, budget, loaded>>

\* The scheduler goes on with the head of the queue.  It reads remaining
\* tokens, which raises unless the frontier has looked the request up.
CanAdmit ==
    /\ waiting # <<>>
    /\ Len(slices) < MaxSeqs
    /\ tok > 0 \/ looked[Head(waiting)]
    /\ Planned(Head(waiting), tok) > 0 \/ CanScheduleLoadOnly(Head(waiting))

AdmitWaiting ==
    /\ phase = "schedWaiting"
    /\ CanAdmit
    /\ LET r == Head(waiting)
           t == Planned(r, tok)
       IN  /\ looked[r]
           /\ waiting' = Tail(waiting)
           /\ running' = Append(running, r)
           /\ status' = [status EXCEPT ![r] = "running"]
           /\ firstAt' = [firstAt EXCEPT ![r] = IF @ = Unset THEN now ELSE @]
           /\ slices' = Append(slices, SliceFor(r, t))
           /\ ConsumeLoad(r)
           /\ tok' = tok - t
    /\ UNCHANGED <<inputs, arrived, now, lookups, progress, caches, phase, slots, idx,
                   finishMs>>

ScheduleDone ==
    /\ phase = "schedWaiting"
    /\ ~CanAdmit
    /\ phase' = IF slices = <<>> THEN "error" ELSE "estimate"
    /\ UNCHANGED <<inputs, queues, now, status, lookups, progress, owes, firstAt,
                   caches, budget, loaded>>

-----------------------------------------------------------------------------
(* The iteration: estimate its duration, then apply its slices at its end.    *)

Estimate ==
    /\ phase = "estimate"
    /\ \E duration \in Durations : finishMs' = now + duration
    /\ phase' = "apply"
    /\ idx' = 1
    /\ UNCHANGED <<inputs, queues, now, status, lookups, progress, owes, firstAt,
                   caches, tok, slots, slices, loaded>>

\* Mutation: a partial block counts as complete.
NewlyCompletePartial(r, low, high, already) ==
    {i \in MissIndices(r) \ already : low < EndToken(r, i) /\ EndToken(r, i) <= high}

\* Mutation: blocks are stored ahead of their computation.
NewlyCompleteAhead(r, low, high, already) ==
    {i \in MissIndices(r) \ already : IsFull(r, i) /\ high > low /\ low < EndToken(r, i)}

\* _select_newly_completed_full_blocks for the token range (low, high].
NewlyComplete(r, low, high, already) ==
    {i \in MissIndices(r) \ already :
        IsFull(r, i) /\ low < EndToken(r, i) /\ EndToken(r, i) <= high}

\* Mutation: all misses are stored with every slice.
MaterializedAtEverySlice(r, low, high) ==
    IF low <= high THEN InOrder(r, MissIndices(r)) ELSE <<>>

\* What the materialization policy stores for a slice of r that leaves it with
\* high computed tokens.  Progressive: the blocks the chunk has completed, then
\* whatever the pass at the request's finish still finds.  Legacy: all the
\* misses, when the request finishes.
Materialized(r, low, high) ==
    LET already == {stored[r][j] : j \in DOMAIN stored[r]}
        chunk   == IF Progressive THEN NewlyComplete(r, low, high, already) ELSE {}
        rest    == IF high # Tokens(r) THEN {}
                   ELSE IF Progressive
                        THEN NewlyComplete(r, -1, Tokens(r), already \cup chunk)
                        ELSE MissIndices(r)
    IN  InOrder(r, chunk) \o InOrder(r, rest)

ApplySlice ==
    /\ phase = "apply"
    /\ idx <= Len(slices)
    /\ LET r    == slices[idx].req
           high == slices[idx].before + slices[idx].tokens
           is   == Materialized(r, slices[idx].before, high)
       IN  /\ computed' = [computed EXCEPT ![r] = high]
           /\ stored' = [stored EXCEPT ![r] = @ \o is]
           /\ hbm' = AfterStore(hbm, KeysOf(r, is), HBMCapacity)
           /\ ddr' = AfterStore(ddr, KeysOf(r, is), DDRCapacity)
           /\ IF high = Tokens(r)
              THEN /\ status' = [status EXCEPT ![r] = "finished"]
                   /\ finishAt' = [finishAt EXCEPT ![r] = finishMs]
              ELSE UNCHANGED <<status, finishAt>>
    /\ idx' = idx + 1
    /\ UNCHANGED <<inputs, queues, now, lookups, owes, firstAt, phase, tok, slots,
                   slices, finishMs, loaded>>

\* Mutation: finished requests stay in the running list.
UnfinishedKept(q) == q

Unfinished(q) == Keep(q, {r \in Requests : status[r] # "finished"})

EndIteration ==
    /\ phase = "apply"
    /\ idx > Len(slices)
    /\ running' = Unfinished(running)
    /\ now' = finishMs
    /\ phase' = IF arrived = N /\ waiting = <<>> /\ running' = <<>> THEN "done" ELSE "arrive"
    /\ tok' = 0
    /\ slots' = 0
    /\ idx' = 1
    /\ slices' = <<>>
    /\ finishMs' = 0
    /\ UNCHANGED <<inputs, arrived, waiting, status, lookups, progress, owes, firstAt,
                   caches, loaded>>

\* The replay has returned or raised.
Terminated == phase \in {"done", "error"} /\ UNCHANGED vars

Step ==
    \/ Arrive \/ JumpToArrival \/ BeginFrontier
    \/ PlanRunning \/ PlanRunningDone
    \/ LookupWaiting \/ FinishZeroMiss \/ PlanWaiting \/ PlanWaitingDone
    \/ NothingLeft \/ BeginSchedule
    \/ ScheduleRunning \/ ScheduleRunningDone \/ AdmitWaiting \/ ScheduleDone
    \/ Estimate \/ ApplySlice \/ EndIteration

Next == Step \/ Terminated

Spec == Init /\ [][Next]_vars

\* The program is one loop that keeps running until it returns or raises.
FairSpec == Spec /\ WF_vars(Step)

-----------------------------------------------------------------------------
(* Properties.                                                               *)

TypeOK ==
    /\ prompt \in [Requests -> Prompts]
    /\ start \in [Requests -> 0..MaxStart]
    /\ arrived \in 0..N
    /\ now \in Nat
    /\ waiting \in Seq(Requests)
    /\ running \in Seq(Requests)
    /\ status \in [Requests -> {"pending", "waiting", "running", "finished"}]
    /\ looked \in [Requests -> BOOLEAN]
    /\ rawHits \in [Requests -> Nat]
    /\ ddrHit \in [Requests -> Nat]
    /\ cached \in [Requests -> Nat]
    /\ computed \in [Requests -> Nat]
    /\ owes \in [Requests -> Nat]
    /\ loaded \in [Requests -> Nat]
    /\ firstAt \in [Requests -> Nat \cup {Unset}]
    /\ finishAt \in [Requests -> Nat \cup {Unset}]
    /\ lookupAt \in [Requests -> Nat \cup {Unset}]
    /\ stored \in [Requests -> Seq(Nat)]
    /\ hbm \in Seq(BlockKeys) /\ ddr \in Seq(BlockKeys)
    /\ phase \in Phases
    /\ tok \in 0..MaxBatchedTokens
    /\ slots \in 0..MaxSeqs
    /\ idx \in Nat \ {0}
    /\ slices \in Seq(Slices)
    /\ finishMs \in Nat

\* First come, first served: between iterations nobody has been scheduled, or
\* finished by the fast path from the middle of the queue, while an earlier
\* arrival has not, nor before it.
NoOvertaking ==
    phase = "arrive" =>
        \A r, s \in Requests :
            r < s /\ firstAt[s] # Unset => firstAt[r] # Unset /\ firstAt[r] <= firstAt[s]

\* The frontier and the scheduler walk the same lists with the same helper
\* (planned_prefill_tokens) but in two separate loops.  The batch the scheduler
\* builds has exactly the slices the frontier counted, and the scheduler never
\* reads the remaining tokens of a request that was not looked up, which raises
\* (require_cache_lookup of scheduler/state.py).
FrontierCoversSchedule ==
    /\ phase = "estimate" => Len(slices) = slots
    /\ phase = "schedWaiting" /\ waiting # <<>> /\ Len(slices) < MaxSeqs /\ tok > 0
         => looked[Head(waiting)]

\* Between iterations every running request still has tokens to compute and no
\* KV load left to charge: what _prepare_running and the fast path over the
\* running list would do is nothing.
RunningPrepared ==
    phase \in {"arrive", "planRunning"} =>
        \A i \in DOMAIN running :
            LET r == running[i]
            IN  status[r] = "running" /\ looked[r] /\ Remaining(r) > 0 /\ ~OwesLoad(r)

\* The look-ahead of the frontier is at most one request deep: between
\* iterations only the head of the queue may have been looked up already.
LookAheadIsHead ==
    phase = "arrive" => \A i \in DOMAIN waiting : looked[waiting[i]] => i = 1

\* scheduled_prefill_tokens of a batch: the sum over its slices.
ScheduledTokens(batch) ==
    LET total[n \in 0..Len(batch)] ==
            IF n = 0 THEN 0 ELSE total[n - 1] + batch[n].tokens
    IN  total[Len(batch)]

\* A batch respects the token budget, the sequence limit and the chunk limit,
\* never schedules a request twice or beyond the end of its prompt, and every
\* slice computes something (README: "scheduled_prefill_tokens must be
\* positive"): the accounting always leaves the last token of a prompt to
\* compute (KeptTokens = 1), so the load-only slices the code allows never occur.
BatchWithinLimits ==
    /\ Len(slices) <= MaxSeqs
    /\ ScheduledTokens(slices) <= MaxBatchedTokens
    /\ \A i \in DOMAIN slices :
           /\ slices[i].tokens \in 1..ChunkLimit
           /\ slices[i].before + slices[i].tokens <= Tokens(slices[i].req)
           /\ \A j \in DOMAIN slices : slices[i].req = slices[j].req => i = j

\* A batch is empty only in a configuration that can never make progress: the
\* head does not fit the whole budget and chunking is off.
StallOnlyWhenTooLarge ==
    phase = "error" => ~Chunked /\ running = <<>>
                       /\ Remaining(Head(waiting)) > MaxBatchedTokens

\* A request materializes each of its missed blocks once and in prompt order.
\* Progressive: exactly the full ones among the tokens computed so far, so that
\* the pass at its finish finds nothing.  Legacy: all of them, at its finish.
MaterializedExactly ==
    \A r \in Requests :
        stored[r] = InOrder(r,
            IF Progressive
            THEN {i \in MissIndices(r) : IsFull(r, i) /\ i * BlockSize <= computed[r]
                                         /\ looked[r]}
            ELSE {i \in MissIndices(r) : status[r] = "finished"})

\* No block is visible before the tokens it holds have been computed by some
\* request that missed it.
VisibleImpliesComputed ==
    \A k \in Resident(hbm) \cup Resident(ddr) :
        \E r \in Requests : \E j \in DOMAIN stored[r] :
            /\ Blocks(r)[stored[r][j]] = k
            /\ EndToken(r, stored[r][j]) <= computed[r]

\* The tokens a request skips are whole blocks that some other request had
\* computed; the last token of a prompt is always recomputed (KeptTokens = 1).
SkipsOnlyComputedBlocks ==
    \A r \in Requests : looked[r] =>
        /\ cached[r] % BlockSize = 0
        /\ Tokens(r) > 0 => cached[r] < Tokens(r)
        /\ \A i \in 1..(cached[r] \div BlockSize) :
               \E s \in Requests \ {r} : \E j \in DOMAIN stored[s] :
                   Blocks(s)[stored[s][j]] = Blocks(r)[i]

\* The KV load of a request is charged to its first slice, whole and once: it
\* is neither lost nor charged twice while the looked-up request waits, even
\* when its DDR blocks are evicted meanwhile.
KVLoadChargedOnce ==
    \A r \in Requests :
        /\ loaded[r] = IF looked[r] /\ firstAt[r] # Unset THEN ddrHit[r] ELSE 0
        /\ owes[r] = ddrHit[r] - loaded[r]

\* What a lookup found is fixed: later materializations, evictions and chunks
\* of others never change what a request was credited with, and its progress
\* never goes back.
CreditIsFinal ==
    [][\A r \in Requests :
          looked[r] => /\ UNCHANGED <<looked[r], rawHits[r], ddrHit[r], cached[r], lookupAt[r]>>
                       /\ computed'[r] >= computed[r]
                       /\ owes'[r] <= owes[r]]_vars

\* README.md: "`cached_prefix_tokens`: replay-facing usage cached tokens after
\* vLLM-like accounting at first-schedule-time lookup": a request is looked up
\* in the iteration that first schedules it.
LookupAtFirstSchedule ==
    \A r \in Requests : firstAt[r] # Unset => lookupAt[r] = firstAt[r]

\* Every request finishes and the replay returns.
AllFinish == <>(phase = "done" /\ \A r \in Requests : status[r] = "finished")

\* The replay returns or raises.
Returns == <>(phase \in {"done", "error"})

=========================================================================
