-------------------------- MODULE StreamingReplay --------------------------
(***************************************************************************)
(* streaming/replay.py: the replay loop of one instance on a request       *)
(* source (streaming/source.py), with its live state only: a request has   *)
(* entries in the dictionaries from its arrival until its metric is given  *)
(* to the sink.                                                            *)
(*                                                                         *)
(* What decides when a request is served (cache, budgets, latency) is that *)
(* of the in-memory loop, modelled in BatchReplay, and left open here: a   *)
(* lookup leaves any number of slices up to MaxSlices, the frontier may    *)
(* stop after any request it has seen, a batch is any prefix of running    *)
(* followed by any prefix of the looked-up requests of waiting.  It is not *)
(* empty: BatchReplay shows when the engine stops with an empty batch.     *)
(***************************************************************************)
EXTENDS Integers, Sequences, FiniteSets, ReplayOrder, WaitingQueue, CapacityRows, Selections

CONSTANTS
    MaxSlices,      \* bound of the model: slices a request may need
    Durations       \* durations an iteration may have

ASSUME ReplayAssumption == MaxSlices \in Nat /\ Durations \subseteq Nat

VARIABLES
    stage,          \* "idle", "arrive", "frontier", "report", "schedule", "returned",
                    \* or the error that was raised
    current,        \* instance_uuid of the engine's run
    source,         \* requests of the shard
    popped,         \* number of requests popped from the source
    lastKey,        \* _last_emitted_key: the last popped request, in a sequence
    now,            \* now_ms
    waiting,        \* WaitingQueue of request ids
    running,        \* ids, in order of admission
    states,         \* states_by_id and requests_by_id: arrival, seq, slices left
    lookups,        \* lookup_by_id: arrival_seq the lookup was made for, and its misses
    cursor,         \* index of the frontier scan
    metrics,        \* request_metrics to be reported
    emitted,        \* emitted_request_count
    aggregator,     \* the metric sink
    reported,       \* history: request metrics the sink was given
    iterations      \* history: iteration metrics the sink was given

replayVars == <<stage, current, source, popped, lastKey, now, waiting, running, states,
                lookups, cursor, metrics, emitted, aggregator, reported, iterations>>

ReplayInit ==
    /\ stage = "idle"
    /\ current = 0
    /\ source = <<>>
    /\ popped = 0
    /\ lastKey = <<>>
    /\ now = 0
    /\ waiting = EmptyQueue
    /\ running = <<>>
    /\ states = <<>>
    /\ lookups = <<>>
    /\ cursor = 1
    /\ metrics = <<>>
    /\ emitted = 0
    /\ aggregator = NewAggregator
    /\ reported = <<>>
    /\ iterations = <<>>

Exhausted == popped = Len(source)
Peeked    == source[popped + 1]

\* run_instance_stream begins: new dictionaries, the clock at the first request.
BeginStream(i, requests) ==
    /\ stage' = IF requests = <<>> THEN "returned" ELSE "arrive"
    /\ current' = i
    /\ source' = requests
    /\ popped' = 0
    /\ lastKey' = <<>>
    /\ now' = IF requests = <<>> THEN 0 ELSE requests[1].time
    /\ waiting' = EmptyQueue
    /\ running' = <<>>
    /\ states' = <<>>
    /\ lookups' = <<>>
    /\ cursor' = 1
    /\ metrics' = <<>>
    /\ emitted' = 0

-----------------------------------------------------------------------------
(* _move_arrivals_from_source                                                *)

\* Mutation: a request that starts now is not due yet.
DueLate == ~Exhausted /\ Peeked.time < now

Due == ~Exhausted /\ Peeked.time <= now

\* Mutation: the ids of active requests are not looked at.
ArrivalErrorNoDuplicates(r) ==
    IF lastKey # <<>> /\ ~SourceKeyLeq(lastKey[1], r)
    THEN "unsorted_source"
    ELSE IF r.instance # current THEN "wrong_instance"
    ELSE "none"

\* What pop, _require_instance and the check of active ids raise, in this order.
ArrivalError(r) ==
    IF lastKey # <<>> /\ ~SourceKeyLeq(lastKey[1], r)
    THEN "unsorted_source"
    ELSE IF r.instance # current THEN "wrong_instance"
    ELSE IF r.id \in DOMAIN states THEN "duplicate_active_request"
    ELSE "none"

\* Item assignment of a dictionary.
Put(f, id, x) == [i \in DOMAIN f \cup {id} |-> IF i = id THEN x ELSE f[i]]

Arrive ==
    /\ stage = "arrive"
    /\ Due
    /\ popped' = popped + 1
    /\ IF ArrivalError(Peeked) # "none"
       THEN /\ stage' = ArrivalError(Peeked)
            /\ UNCHANGED <<lastKey, waiting, states>>
       ELSE /\ lastKey' = <<Peeked>>
            /\ waiting' = Enqueue(waiting, Peeked.id)
            /\ states' = Put(states, Peeked.id,
                             [seq |-> popped + 1, arrival |-> Peeked.time, left |-> 0])
            /\ UNCHANGED stage
    /\ UNCHANGED <<current, source, now, running, lookups, cursor, metrics, emitted,
                   aggregator, reported, iterations>>

NoWork == QueueLen(waiting) = 0 /\ running = <<>>

\* Nothing to do until the next request of the source, if there is one.
Jump(time) ==
    IF Exhausted THEN stage' = "returned" /\ UNCHANGED now
                 ELSE stage' = "arrive" /\ now' = time

ArrivalsDone ==
    /\ stage = "arrive"
    /\ ~Due
    /\ IF NoWork THEN Jump(Peeked.time) ELSE stage' = "frontier" /\ UNCHANGED now
    /\ cursor' = 1
    /\ UNCHANGED <<current, source, popped, lastKey, waiting, running, states, lookups,
                   metrics, emitted, aggregator, reported, iterations>>

-----------------------------------------------------------------------------
(* _prepare_scheduler_frontier, as far as the live state is concerned.       *)

\* build_request_metrics, reduced to the columns CapacityRows keeps.
Metric(id, miss, finish) ==
    [instance |-> current, seq |-> states[id].seq, id |-> id, prompt |-> MaxSlices,
     hbm |-> MaxSlices - miss, ddr |-> 0, miss |-> miss,
     ttft |-> finish - states[id].arrival]

LookedUp(id) == id \in DOMAIN lookups /\ lookups[id].seq = states[id].seq

\* A waiting request is looked up unless it was before; one that misses nothing
\* leaves the queue from wherever it stands.
Scan ==
    /\ stage = "frontier"
    /\ cursor <= QueueLen(waiting)
    /\ LET id == At(waiting, cursor)
       IN  IF LookedUp(id)
           THEN cursor' = cursor + 1 /\ UNCHANGED <<waiting, states, lookups, metrics>>
           ELSE \E miss \in 0..MaxSlices :
                  /\ lookups' = Put(lookups, id, [seq |-> states[id].seq, miss |-> miss])
                  /\ states' = [states EXCEPT ![id].left = miss]
                  /\ IF miss = 0
                     THEN /\ waiting' = PopAt(waiting, cursor)
                          /\ metrics' = Append(metrics, Metric(id, miss, now))
                          /\ UNCHANGED cursor
                     ELSE cursor' = cursor + 1 /\ UNCHANGED <<waiting, metrics>>
    /\ UNCHANGED <<stage, current, source, popped, lastKey, now, running, emitted,
                   aggregator, reported, iterations>>

\* The budgets are positive: the first request of an empty instance is seen.
FrontierDone ==
    /\ stage = "frontier"
    /\ running # <<>> \/ cursor > 1 \/ QueueLen(waiting) = 0
    /\ stage' = "report"
    /\ UNCHANGED <<current, source, popped, lastKey, now, waiting, running, states, lookups,
                   cursor, metrics, emitted, aggregator, reported, iterations>>

-----------------------------------------------------------------------------
(* Reporting: _emit_request_metrics forgets a request as it reports it.      *)

Ids(ms) == {ms[k].id : k \in DOMAIN ms}

Forget(f, ms) == [id \in DOMAIN f \ Ids(ms) |-> f[id]]

\* Mutation: the states of reported requests are kept.
EmitKeepingStates(ms, sts, its) ==
    /\ reported' = reported \o ms
    /\ iterations' = iterations \o its
    /\ emitted' = emitted + Len(ms)
    /\ states' = sts
    /\ lookups' = Forget(lookups, ms)
    /\ \E given \in {OnRequests(aggregator, ms)} : aggregator' = OnIterations(given, its)

\* The metrics of the requests ms, whose states are in sts, and those of the
\* iterations its go to the sink.
Emit(ms, sts, its) ==
    /\ reported' = reported \o ms
    /\ iterations' = iterations \o its
    /\ emitted' = emitted + Len(ms)
    /\ states' = Forget(sts, ms)
    /\ lookups' = Forget(lookups, ms)
    /\ \E given \in {OnRequests(aggregator, ms)} : aggregator' = OnIterations(given, its)

ReportFrontier ==
    /\ stage = "report"
    /\ Emit(metrics, states, <<>>)
    /\ metrics' = <<>>
    /\ IF NoWork
       THEN Jump(IF Peeked.time > now THEN Peeked.time ELSE now)
       ELSE stage' = "schedule" /\ UNCHANGED now
    /\ UNCHANGED <<current, source, popped, lastKey, waiting, running, cursor>>

-----------------------------------------------------------------------------
(* One iteration: schedule, _apply_schedule_result, and the metrics of both  *)
(* kinds.                                                                    *)

\* Slices for the first r running and the first k waiting requests, which are
\* admitted.  A waiting request gets one only if every running one has.
Batches ==
    {b \in (0..Len(running)) \X (0..QueueLen(waiting)) :
        /\ b[1] + b[2] > 0
        /\ b[2] > 0 => b[1] = Len(running)
        /\ \A j \in 1..b[2] : LookedUp(At(waiting, j))}

IterationMetric(slices, finish) ==
    [instance |-> current, finish |-> finish, depth |-> slices,
     waits |-> Len(running) + QueueLen(waiting) - slices]

\* The requests that are admitted leave the queue one by one.
PopLeftTimes(q, k) ==
    LET rest[n \in 0..k] == IF n = 0 THEN q ELSE PopLeft(rest[n - 1])
    IN  rest[k]

Advanced(batch) ==
    [id \in DOMAIN states |->
        IF \E n \in DOMAIN batch : batch[n] = id THEN [states[id] EXCEPT !.left = @ - 1]
                                               ELSE states[id]]

Iterate(r, k, finish) ==
    LET admitted == SubSeq(Contents(waiting), 1, k)
        batch    == SubSeq(running, 1, r) \o admitted
        after    == Advanced(batch)
        finished == Keep(batch, {id \in DOMAIN states : after[id].left = 0})
        results  == [n \in DOMAIN finished |->
                        Metric(finished[n], lookups[finished[n]].miss, finish)]
    IN  /\ waiting' = PopLeftTimes(waiting, k)
        /\ running' = Keep(running \o admitted, {id \in DOMAIN states : after[id].left > 0})
        /\ Emit(results, after, <<IterationMetric(r + k, finish)>>)

Schedule ==
    /\ stage = "schedule"
    /\ \E b \in Batches, d \in Durations :
           /\ Iterate(b[1], b[2], now + d)
           /\ now' = now + d
    /\ stage' = "arrive"
    /\ UNCHANGED <<current, source, popped, lastKey, cursor, metrics>>

ReplayNext ==
    Arrive \/ ArrivalsDone \/ Scan \/ FrontierDone \/ ReportFrontier \/ Schedule

-----------------------------------------------------------------------------
(* Properties.                                                               *)

Active == {Contents(waiting)[n] : n \in 1..QueueLen(waiting)}
            \cup {running[n] : n \in DOMAIN running} \cup Ids(metrics)

\* The state that is kept is that of the active requests and no other: every
\* active request is in one place and has its entry, an entry belongs to an
\* active request, a lookup was made for the request that has the id now and not
\* for an earlier one, and the queue is in order of arrival, whatever was taken
\* out of its middle and however often it was compacted.
LiveStateOnly ==
    /\ DOMAIN states = Active
    /\ Cardinality(Active) = QueueLen(waiting) + Len(running) + Len(metrics)
    /\ \A id \in DOMAIN lookups : id \in Active /\ lookups[id].seq = states[id].seq
    /\ \A n \in DOMAIN running : LookedUp(running[n])
    /\ \A m, n \in 1..QueueLen(waiting) :
           m < n => states[At(waiting, m)].seq < states[At(waiting, n)].seq
=========================================================================
