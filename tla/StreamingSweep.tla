-------------------------- MODULE StreamingSweep --------------------------
(****************************************************************************)
(* streaming/sweep.py: the trace is built into shards once; then, for every *)
(* capacity, every shard is replayed on a new engine and a new cache into   *)
(* one aggregator, whose rows are the result.  Any error ends the run.      *)
(****************************************************************************)
EXTENDS StreamingBuild, StreamingReplay

CONSTANT Capacities     \* sweep.hbm_capacity_blocks

ASSUME CapacitiesAssumption == Capacities \in Seq(Nat \ {0})

VARIABLES
    sweep,          \* "build", "replay", "done", or the error of a check of the runner
    round,          \* index of the capacity
    todo,           \* instances whose shard is not replayed yet for this capacity
    rows,           \* rows of each finished capacity
    inMemory        \* history: the rows experiment/sweep.py makes of the same metrics

sweepVars == <<sweep, round, todo, rows, inMemory>>
vars == <<buildVars, replayVars, sweepVars>>

Init ==
    /\ BuildInit
    /\ ReplayInit
    /\ sweep = "build"
    /\ round = 0
    /\ todo = {}
    /\ rows = <<>>
    /\ inMemory = <<>>

Build ==
    /\ BuildNext
    /\ UNCHANGED <<replayVars, sweepVars>>

\* manifest.shards: the instances that have a file
Shards == {i \in Instances : shardState[i].count > 0}

\* _run_capacity begins with a new aggregator.
BeginCapacity ==
    /\ build = "built"
    /\ sweep \in {"build", "rows"}
    /\ round < Len(Capacities)
    /\ round' = round + 1
    /\ sweep' = "replay"
    /\ todo' = Shards
    /\ aggregator' = NewAggregator
    /\ reported' = <<>>
    /\ iterations' = <<>>
    /\ UNCHANGED <<buildVars, rows, inMemory, stage, current, source, popped, lastKey, now,
                   waiting, running, states, lookups, cursor, metrics, emitted>>

\* Shards are sorted by instance.
BeginShard ==
    /\ sweep = "replay"
    /\ stage = "idle"
    /\ \E i \in todo :
           /\ \A j \in todo : i <= j
           /\ BeginStream(i, shard[i])
    /\ UNCHANGED <<buildVars, sweepVars, aggregator, reported, iterations>>

Replay ==
    /\ sweep = "replay"
    /\ ReplayNext
    /\ UNCHANGED <<buildVars, sweepVars>>

\* The runner compares what was emitted with the manifest, and what is left.
EndShard ==
    /\ sweep = "replay"
    /\ stage = "returned"
    /\ sweep' = IF emitted # shardState[current].count THEN "count_mismatch"
                ELSE IF DOMAIN states # {} THEN "active_requests"
                ELSE sweep
    /\ stage' = "idle"
    /\ todo' = todo \ {current}
    /\ UNCHANGED <<buildVars, round, rows, inMemory, current, source, popped, lastKey, now,
                   waiting, running, states, lookups, cursor, metrics, emitted, aggregator,
                   reported, iterations>>

EndCapacity ==
    /\ sweep = "replay"
    /\ stage = "idle"
    /\ todo = {}
    /\ rows' = Append(rows, StreamingRows(aggregator, Capacities[round]))
    /\ inMemory' = Append(inMemory, InMemoryRows(reported, iterations, Capacities[round]))
    /\ sweep' = IF round = Len(Capacities) THEN "done" ELSE "rows"
    /\ UNCHANGED <<buildVars, replayVars, round, todo>>

Next == Build \/ BeginCapacity \/ BeginShard \/ Replay \/ EndShard \/ EndCapacity

Spec == Init /\ [][Next]_vars

\* The program is one thread that keeps running until it returns or raises.
FairSpec == Spec /\ WF_vars(Next)

-----------------------------------------------------------------------------
(* Properties.                                                               *)

BuildErrors  == {"unsorted_trace", "bad_request", "invalid_manifest"}
ReplayErrors == {"unsorted_source", "wrong_instance", "duplicate_active_request"}
SweepErrors  == {"count_mismatch", "active_requests"}

Raised == {e \in BuildErrors : build = e} \cup {e \in ReplayErrors : stage = e}
            \cup {e \in SweepErrors : sweep = e}

\* Every record of the trace is accounted for exactly once, at every moment: a
\* record that was read is in a shard or among the rejected; a request of the
\* shard that is being replayed is unread, active, waiting for its metric to be
\* reported, or reported, and never twice.
ExactlyOnce ==
    /\ accepted + rejected = line - 1
    /\ Len(rejectedRows) = rejected
    /\ LET mine == {n \in DOMAIN reported : reported[n].instance = current}
           past == {reported[n].seq : n \in mine}
           live == {states[id].seq : id \in DOMAIN states}
       IN  stage # "idle" /\ Raised = {} =>
             /\ past \cup live = 1..popped
             /\ past \cap live = {}
             /\ Cardinality(past) = Cardinality(mine)
             /\ emitted = Cardinality(mine)
    /\ sweep \in {"rows", "done"} => Len(reported) = accepted

\* Whatever the two aggregations do, one metric at a time or all at the end, and
\* for one instance after the other: their rows are the same, for every capacity.
RowsAsInMemory ==
    /\ rows = inMemory
    /\ \A n \in DOMAIN rows : rows[n][0].requests = accepted

\* The run fails only for what is wrong with the trace: it is not sorted, a
\* request cannot be built, or two requests of one instance with one id overlap.
\* The manifest, the source, the counts of the runner and its check for active
\* requests never object.
FailsOnlyForTheTrace ==
    /\ Raised \subseteq {"unsorted_trace", "bad_request", "duplicate_active_request"}
    /\ build = "unsorted_trace" => \E n \in 2..Len(trace) : ~KeyLeq(trace[n-1], trace[n])
    /\ build = "bad_request" => trace[line].outcome = "bad"
    /\ stage = "duplicate_active_request" =>
         \E m, n \in DOMAIN source :
            m < n /\ source[m].id = source[n].id /\ ~\E k \in DOMAIN reported :
                        reported[k].instance = current /\ reported[k].seq = m

\* The sweep ends, with rows for every capacity or with an error.
Terminates == <>(sweep = "done" \/ Raised # {})

=========================================================================
