-------------------------- MODULE StreamingBuild --------------------------
(****************************************************************************)
(* streaming/build.py and streaming/shard_store.py: a trace is read once,   *)
(* checked for its order, and every request that can be built is appended   *)
(* to the shard of its instance.  A request is its trace record: time, ins- *)
(* tance and id, compared as the strings and floats of the code are, and    *)
(* what becomes of it when it is built ("ok", "long": PromptTooLongError,   *)
(* "bad": any other error of parsing, model guard or block conversion).     *)
(****************************************************************************)
EXTENDS Integers, Sequences, FiniteSets, ReplayOrder

CONSTANTS
    Instances,      \* instance_uuids, ordered as numbers; 0 is no instance
    Traces          \* traces that may be read

ASSUME InstancesAssumption == Instances \subseteq Nat \ {0}

Record == [time : Nat, instance : Instances, id : Nat, outcome : {"ok", "long", "bad"}]

ASSUME TracesAssumption == Traces \subseteq Seq(Record)

VARIABLES
    trace,          \* the trace being read
    line,           \* index of the next record
    previous,       \* previous_key, as a sequence of at most one record
    shard,          \* requests in the JSONL file of each instance
    shardState,     \* _ShardState of each instance; a count of 0 means no file
    accepted, rejected,     \* accepted_count, rejected_count
    rejectedRows,           \* ids in the rejected-requests CSV
    build                   \* "reading", "built", or the error that was raised

buildVars == <<trace, line, previous, shard, shardState, accepted, rejected,
               rejectedRows, build>>

NoState == [count |-> 0, min |-> 0, max |-> 0]

BuildInit ==
    /\ trace \in Traces
    /\ line = 1
    /\ previous = <<>>
    /\ shard = [i \in Instances |-> <<>>]
    /\ shardState = [i \in Instances |-> NoState]
    /\ accepted = 0
    /\ rejected = 0
    /\ rejectedRows = <<>>
    /\ build = "reading"

Reading == build = "reading" /\ line <= Len(trace)

\* _guard_sorted_trace
InOrder == \A k \in DOMAIN previous : KeyLeq(previous[k], trace[line])

\* _ShardState.record
Recorded(s, r) ==
    [count |-> s.count + 1,
     min   |-> IF s.count = 0 \/ r.time < s.min THEN r.time ELSE s.min,
     max   |-> IF s.count = 0 \/ r.time > s.max THEN r.time ELSE s.max]

RefuseUnsorted ==
    /\ Reading
    /\ ~InOrder
    /\ build' = "unsorted_trace"
    /\ UNCHANGED <<trace, line, previous, shard, shardState, accepted, rejected, rejectedRows>>

\* previous_key is set before the request is built.
Accept ==
    /\ Reading
    /\ InOrder
    /\ LET r == trace[line]
       IN  /\ r.outcome = "ok"
           /\ previous' = <<r>>
           /\ shard' = [shard EXCEPT ![r.instance] = Append(@, r)]
           /\ shardState' = [shardState EXCEPT ![r.instance] = Recorded(@, r)]
    /\ accepted' = accepted + 1
    /\ line' = line + 1
    /\ UNCHANGED <<trace, rejected, rejectedRows, build>>

Reject ==
    /\ Reading
    /\ InOrder
    /\ LET r == trace[line]
       IN  /\ r.outcome = "long"
           /\ previous' = <<r>>
           /\ rejectedRows' = Append(rejectedRows, r.id)
    /\ rejected' = rejected + 1
    /\ line' = line + 1
    /\ UNCHANGED <<trace, shard, shardState, accepted, build>>

FailToBuild ==
    /\ Reading
    /\ InOrder
    /\ trace[line].outcome = "bad"
    /\ previous' = <<trace[line]>>
    /\ build' = "bad_request"
    /\ UNCHANGED <<trace, line, shard, shardState, accepted, rejected, rejectedRows>>

\* The requests in the shards, by instance and position: there are as many as
\* the counts of the shards add up to.
Counted == UNION {{i} \X (1..shardState[i].count) : i \in Instances}

\* StreamingBuildManifest and RequestShard check what they are given.
ManifestIsValid ==
    /\ accepted = Cardinality(Counted)
    /\ \A i \in Instances : shardState[i].min <= shardState[i].max

WriteManifest ==
    /\ build = "reading"
    /\ line > Len(trace)
    /\ build' = IF ManifestIsValid THEN "built" ELSE "invalid_manifest"
    /\ UNCHANGED <<trace, line, previous, shard, shardState, accepted, rejected, rejectedRows>>

BuildNext == RefuseUnsorted \/ Accept \/ Reject \/ FailToBuild \/ WriteManifest

BuildSpec == BuildInit /\ [][BuildNext]_buildVars

-----------------------------------------------------------------------------
(* Properties.                                                               *)

BuildTypeOK ==
    /\ trace \in Traces
    /\ line \in 1..(Len(trace) + 1)
    /\ previous \in Seq(Record) /\ Len(previous) <= 1
    /\ shard \in [Instances -> Seq(Record)]
    /\ shardState \in [Instances -> [count : Nat, min : Nat, max : Nat]]
    /\ accepted \in Nat
    /\ rejected \in Nat
    /\ rejectedRows \in Seq(Nat)
    /\ build \in {"reading", "built", "unsorted_trace", "bad_request", "invalid_manifest"}

\* A shard is sorted by the key its reader checks, although the trace is checked
\* for all instances together, with another key, and rejected records, which
\* take part in that check, are not in the shard.  Its state counts its requests
\* and spans from its first to its last.
ShardsSorted ==
    \A i \in Instances :
        /\ \A m, n \in DOMAIN shard[i] : m <= n => SourceKeyLeq(shard[i][m], shard[i][n])
        /\ \A m \in DOMAIN shard[i] : shard[i][m].instance = i
        /\ shardState[i].count = Len(shard[i])
        /\ shard[i] # <<>> =>
             /\ shardState[i].min = shard[i][1].time
             /\ shardState[i].max = shard[i][Len(shard[i])].time
=========================================================================
