--------------------------- MODULE CapacityRows ---------------------------
(***************************************************************************)
(* The rows of a capacity sweep, computed twice in the code: one metric at *)
(* a time by the accumulators of streaming/metrics.py, and from the lists  *)
(* of all metrics by experiment/sweep.py.  Of the columns, those of one    *)
(* kind stand for the others of that kind: sums over requests (prompt,     *)
(* hbm, ddr, miss), percentiles (of ttft), sums and a maximum over         *)
(* iterations (waits, depth).  The scope of a row is an instance, which is *)
(* a number, or 0, the trace; the rows of a capacity are a function of it, *)
(* for both lists pass the same sort_capacity_rows in the end.             *)
(***************************************************************************)
EXTENDS Integers, Sequences, FiniteSets, SequencesExt, FiniteSetsExt, Selections

\* math.ceil(p / 100 * n), for the n values sorted
Rank(p, n) == (p * n + 99) \div 100

Percentile(values, p) ==
    IF values = <<>> THEN 0
    ELSE LET sorted == SortSeq(values, LAMBDA a, b : a < b)
             n      == Len(values)
         IN  sorted[Min({Max({Rank(p, n), 1}), n})]

\* [item.name for item in s]
Column(s, name) == [k \in DOMAIN s |-> s[k][name]]

\* sum(values)
Total(values) ==
    LET sum[n \in 0..Len(values)] == IF n = 0 THEN 0 ELSE sum[n - 1] + values[n]
    IN  sum[Len(values)]

\* CapacitySweepRow; rates are quotients of the sums, which are compared.
Row(capacity, instance, requests, iterations, prompt, hbm, ddr, miss, ttfts, waits, depth) ==
    [capacity |-> capacity, instance |-> instance, requests |-> requests,
     iterations |-> iterations, prompt |-> prompt, hbm |-> hbm, ddr |-> ddr,
     miss |-> miss, p50 |-> Percentile(ttfts, 50), p90 |-> Percentile(ttfts, 90),
     waits |-> waits, depth |-> depth]

-----------------------------------------------------------------------------
(* streaming/metrics.py                                                      *)

NewAccumulator ==
    [requests |-> 0, iterations |-> 0, prompt |-> 0, hbm |-> 0, ddr |-> 0, miss |-> 0,
     ttfts |-> <<>>, waits |-> 0, depth |-> 0]

\* Mutation: a request served from the cache alone is not counted.
AddRequestWithMiss(acc, m) ==
    IF m.miss = 0 THEN acc
    ELSE [acc EXCEPT !.requests = @ + 1, !.prompt = @ + m.prompt, !.hbm = @ + m.hbm,
                     !.ddr = @ + m.ddr, !.miss = @ + m.miss, !.ttfts = Append(@, m.ttft)]

\* _ScopeAccumulator.on_request
AddRequest(acc, m) ==
    [acc EXCEPT !.requests = @ + 1, !.prompt = @ + m.prompt, !.hbm = @ + m.hbm,
                !.ddr = @ + m.ddr, !.miss = @ + m.miss, !.ttfts = Append(@, m.ttft)]

\* _ScopeAccumulator.on_iteration
AddIteration(acc, m) ==
    [acc EXCEPT !.iterations = @ + 1, !.waits = @ + m.waits, !.depth = Max({@, m.depth})]

\* CapacitySweepStreamingMetricAggregator: one accumulator for the trace (0) and
\* one for every instance that has reported.
NewAggregator == [i \in {0} |-> NewAccumulator]

\* The accumulators once instance i has one
WithInstance(agg, i) ==
    [s \in DOMAIN agg \cup {i} |-> IF s \in DOMAIN agg THEN agg[s] ELSE NewAccumulator]

OnRequest(agg, m) ==
    LET old == WithInstance(agg, m.instance)
    IN  [s \in DOMAIN old |-> IF s \in {0, m.instance} THEN AddRequest(old[s], m) ELSE old[s]]

OnIteration(agg, m) ==
    LET old == WithInstance(agg, m.instance)
    IN  [s \in DOMAIN old |-> IF s \in {0, m.instance} THEN AddIteration(old[s], m) ELSE old[s]]

\* What the sink is given, one metric after the other
OnRequests(agg, ms) ==
    LET after[n \in 0..Len(ms)] == IF n = 0 THEN agg ELSE OnRequest(after[n - 1], ms[n])
    IN  after[Len(ms)]

OnIterations(agg, ms) ==
    LET after[n \in 0..Len(ms)] == IF n = 0 THEN agg ELSE OnIteration(after[n - 1], ms[n])
    IN  after[Len(ms)]

AccumulatorRow(acc, capacity, i) ==
    Row(capacity, i, acc.requests, acc.iterations, acc.prompt, acc.hbm, acc.ddr, acc.miss,
        acc.ttfts, acc.waits, acc.depth)

\* build_rows: the trace, and the instances with requests
StreamingRows(agg, capacity) ==
    [i \in {j \in DOMAIN agg : j = 0 \/ agg[j].requests > 0} |->
        AccumulatorRow(agg[i], capacity, i)]

-----------------------------------------------------------------------------
(* experiment/sweep.py                                                       *)

\* _aggregate_row
AggregateRow(requests, iterations, capacity, i) ==
    Row(capacity, i, Len(requests), Len(iterations),
        Total(Column(requests, "prompt")), Total(Column(requests, "hbm")),
        Total(Column(requests, "ddr")), Total(Column(requests, "miss")),
        Column(requests, "ttft"), Total(Column(iterations, "waits")),
        Max({0} \cup Range(Column(iterations, "depth"))))

\* requests_by_instance[i], iterations_by_instance[i]
Of(s, i) == Keep(s, {m \in Range(s) : m.instance = i})

\* build_capacity_rows
InMemoryRows(requests, iterations, capacity) ==
    [i \in {0} \cup Range(Column(requests, "instance")) |->
        IF i = 0 THEN AggregateRow(requests, iterations, capacity, i)
        ELSE AggregateRow(Of(requests, i), Of(iterations, i), capacity, i)]
=========================================================================
