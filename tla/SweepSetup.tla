----------------------------- MODULE SweepSetup -----------------------------
(*****************************************************************************)
(* What StreamingCapacitySweepRunner (streaming/sweep.py) resolves, and      *)
(* when: an experiment is checked when the runner is made, once for its      *)
(* latency backends and once for its runtime profiles; the context of a      *)
(* model is made when its first request is built, the backend of an instance *)
(* when its shard is first replayed, and both are kept for later uses.  An   *)
(* engine, with its scheduler, cache and shape memo, is made for every       *)
(* capacity and shard.  StreamingSweep models what the engines do.           *)
(*****************************************************************************)
EXTENDS ModelProfiles
LOCAL INSTANCE Functions

CONSTANTS
    Experiments,    \* configurations and the traces they name
    Batches         \* batches of slices an iteration of an engine may schedule

\* The parsers of the configuration and of the trace refuse what is not a number
\* from 0 on where one is expected, and a model without a name.
ASSUME ExperimentsAssumption ==
    \A e \in Experiments :
        /\ e.trace \in Seq([instance : Nat, model : STRING, tokens : Nat])
        /\ e.promptLimit \in Nat
        /\ e.run = <<>> \/ DOMAIN e.run = {1}
        /\ \A p \in {e.run[n] : n \in DOMAIN e.run} \cup {e.registry[m] : m \in DOMAIN e.registry} :
               p.model.limit \in Nat /\ p.deployment.limit \in Nat
        /\ NoText \notin DOMAIN e.registry

ASSUME BatchesAssumption ==
    \A batch \in Batches : \A n \in DOMAIN batch : SliceIsValid(batch[n])

VARIABLES
    experiment,
    step,       \* where the program is; "refused" and "failed" when it has raised
    reason,     \* what a failure after the setup is about
    settings,   \* build_context of the request build settings
    contexts,   \* _context_by_model
    line,       \* next trace record
    requests,   \* built requests, in the order of the trace
    round,      \* index of the capacity
    todo,       \* instances whose shard is not replayed yet in this round
    engine,     \* the engine being used, as a sequence of at most one
    memo,       \* its ShapeMemo
    backends,   \* _backend_by_instance and _metadata_by_instance
    served      \* history: [engine, batch, ms] of the last iteration

vars == <<experiment, step, reason, settings, contexts, line, requests, round, todo,
          engine, memo, backends, served>>

x == experiment

NoContexts == [m \in {} |-> 0]

Init ==
    /\ experiment \in Experiments
    /\ step = "new"
    /\ reason = NoText
    /\ settings = LegacyContext(0, 0)
    /\ contexts = NoContexts
    /\ line = 1
    /\ requests = <<>>
    /\ round = 0
    /\ todo = {}
    /\ engine = <<>>
    /\ memo = NoMemo
    /\ backends = NoContexts
    /\ served = <<>>

\* An exception of the run; nothing it has done is taken back.
Fail(why) ==
    /\ step' = "failed"
    /\ reason' = why

-----------------------------------------------------------------------------
(* The runner is made.                                                       *)

\* build_capacity_sweep_config
SweepIsValid ==
    /\ x.mode = "capacity_sweep_streaming"
    /\ ~x.targets
    /\ x.capacities # <<>>
    /\ IsInjective(x.capacities)
    /\ ~x.parallelInstances
    /\ x.events <=> x.eventCapacities # {}
    /\ x.eventCapacities \subseteq Range(x.capacities)

HasRegistry == DOMAIN x.registry # {}

\* build_instance_latency_backend_resolver; the table is read at its own path.
LatencyIsValid ==
    /\ KVLoadParses(x.backend.kv) /\ KVLoadBuilds(x.backend.kv)
    /\ HasRegistry => RegistryIsValid(x.registry)
    /\ x.latencyPath # NoText =>
         /\ TableParses(x.tables[x.latencyPath])
         /\ HasRegistry => BindingsAreValid(x.tables[x.latencyPath], x.registry)

\* _build_optional_instance_runtime_resolver
HasRuntime == HasRegistry /\ (x.runtimePath # NoText \/ x.latencyPath # NoText)

\* Mutation: the two sections may name different tables.
PathsMayDiffer(e) == e.runtimePath # NoText \/ e.latencyPath # NoText

PathsMatch(e) == e.runtimePath = NoText \/ e.latencyPath = NoText \/ e.runtimePath = e.latencyPath

RuntimePath == IF x.runtimePath # NoText THEN x.runtimePath ELSE x.latencyPath

\* build_instance_runtime_resolver
RuntimeIsValid ==
    HasRuntime =>
        /\ PathsMatch(x)
        /\ RegistryIsValid(x.registry)
        /\ TableParses(x.tables[RuntimePath])
        /\ BindingsAreValid(x.tables[RuntimePath], x.registry)

Construct ==
    /\ step = "new"
    /\ step' = IF SweepIsValid /\ x.requireSorted /\ LatencyIsValid /\ RuntimeIsValid
               THEN "constructed" ELSE "refused"
    /\ UNCHANGED <<experiment, reason, settings, contexts, line, requests, round, todo,
                   engine, memo, backends, served>>

-----------------------------------------------------------------------------
(* The shards are built.                                                     *)

\* build_request_build_settings_from_config: x.run is a sequence of at most one
\* [name, model, deployment, block].
ReadSettings ==
    /\ step = "constructed"
    /\ LET run == x.run[1]
       IN  IF x.run = <<>>
           THEN /\ settings' = LegacyContext(x.block, x.promptLimit)
                /\ step' = "build"
                /\ UNCHANGED reason
           ELSE IF GuardPasses(run.name, run.model, run.deployment)
                     /\ BlockSizeIsSupported(run.model, run.deployment)
           THEN /\ settings' = ProfileContext(run.block, x.promptLimit, run.model, run.deployment)
                /\ step' = "build"
                /\ UNCHANGED reason
           ELSE Fail("profiles") /\ UNCHANGED settings
    /\ UNCHANGED <<experiment, contexts, line, requests, round, todo, engine, memo, backends,
                   served>>

Listed(i) == i \in DOMAIN x.tables[RuntimePath].items
ModelOf(i) == x.tables[RuntimePath].items[i].model
EntryOf(i) == x.registry[ModelOf(i)]

\* Mutation: contexts are kept by the deployment of a model.
ContextKeyByDeployment(i) == EntryOf(i).deployment.name

ContextKey(i) == ModelOf(i)

NewContext(i) ==
    LET e == EntryOf(i)
    IN  ProfileContext(e.cache.block, settings.limit, e.model, e.deployment)

\* inputs_for, _context_for
ContextFor(i) ==
    IF ~HasRuntime THEN settings
    ELSE IF ContextKey(i) \in DOMAIN contexts THEN contexts[ContextKey(i)] ELSE NewContext(i)

ProfilesPass(i) ==
    HasRuntime /\ ContextKey(i) \notin DOMAIN contexts =>
        LET e == EntryOf(i)
        IN  GuardPasses(ModelOf(i), e.model, e.deployment) /\ BlockSizeIsSupported(e.model, e.deployment)

Built(r, context) ==
    [instance |-> r.instance, model |-> r.model, tokens |-> r.tokens, context |-> context]

BuildRecord ==
    /\ step = "build"
    /\ line <= Len(x.trace)
    /\ LET r == x.trace[line]
       IN  IF HasRuntime /\ ~Listed(r.instance)
           THEN Fail("instance") /\ UNCHANGED <<contexts, line, requests>>
           ELSE IF ~ProfilesPass(r.instance)
           THEN Fail("profiles") /\ UNCHANGED <<contexts, line, requests>>
           ELSE LET context == ContextFor(r.instance)
                    exceeds == ExceedsLimit(context, r.tokens)
                IN  /\ contexts' = IF HasRuntime THEN Put(contexts, ContextKey(r.instance), context)
                                   ELSE contexts
                    /\ IF ~AcceptsModel(context, r.model)
                       THEN Fail("request_model") /\ UNCHANGED <<line, requests>>
                       ELSE /\ line' = line + 1
                            /\ requests' = IF exceeds THEN requests
                                           ELSE Append(requests, Built(r, context))
                            /\ UNCHANGED <<step, reason>>
    /\ UNCHANGED <<experiment, settings, round, todo, engine, memo, backends, served>>

-----------------------------------------------------------------------------
(* The shards are replayed.                                                  *)

Shards == {requests[n].instance : n \in DOMAIN requests}

\* Shards are sorted by instance.
IsNext(i) == i \in todo /\ \A j \in todo : i <= j

BeginCapacity ==
    /\ \/ step = "build" /\ line > Len(x.trace)
       \/ step = "replay" /\ engine = <<>> /\ todo = {}
    /\ round < Len(x.capacities)
    /\ step' = "replay"
    /\ round' = round + 1
    /\ todo' = Shards
    /\ UNCHANGED <<experiment, reason, settings, contexts, line, requests, engine, memo, backends,
                   served>>

\* _latency_profile_for_instance: NoText when there is none, and why.
LatencyTable == x.tables[x.latencyPath]

LatencySource(i) ==
    CASE x.latencyPath = NoText -> "global"
      [] x.latencyPath # NoText /\ i \notin DOMAIN LatencyTable.items -> "unlisted"
      [] OTHER -> IF LatencyTable.items[i].latency # NoText THEN "instance_profile"
                  ELSE IF HasRegistry /\ LatencyTable.items[i].model # NoText THEN "model_default"
                  ELSE "none"

InstanceLatency(i) ==
    IF LatencySource(i) = "instance_profile"
    THEN LatencyTable.latencies[LatencyTable.items[i].latency]
    ELSE x.registry[LatencyTable.items[i].model].latency

\* _build_instance_latency_backend
ServingBackend(p) ==
    [name |-> "serving_latency_profile", model |-> p.model, hardware |-> p.hardware,
     intercept |-> p.intercept, perToken |-> p.perToken, kv |-> p.kv]

\* backend_for, without its memo
NewBackend(i) ==
    IF LatencySource(i) = "global" THEN x.backend ELSE ServingBackend(InstanceLatency(i))

\* _require_ddr_defaults; there are no defaults without a runtime profile.
CacheBuilds(i) ==
    x.cacheMode # "batch_aware_hbm_lru" =>
        /\ HasRuntime
        /\ LET c == EntryOf(i).cache
           IN  /\ c.enabled /\ c.single /\ ~c.multi /\ c.ddrEnabled /\ ~c.remote /\ ~c.ssd
               /\ c.ddr > 0

\* Mutation: engines share one memo.
SharedMemo == memo

\* BatchAwareReplayEngine makes a ShapeMemo of its own.
EngineMemo == NoMemo

NewEngine(i, backend) ==
    [instance  |-> i,
     backend   |-> backend,
     scheduler |-> IF HasRuntime THEN EntryOf(i).deployment.scheduler ELSE x.scheduler,
     ddr       |-> IF x.cacheMode = "batch_aware_hbm_lru" THEN 0 ELSE EntryOf(i).cache.ddr]

\* _build_streaming_replay_engine, then the cache
BeginEngine ==
    /\ step = "replay"
    /\ engine = <<>>
    /\ \E i \in todo :
         /\ IsNext(i)
         /\ LET known == i \in DOMAIN backends
                backend == IF known THEN backends[i] ELSE NewBackend(i)
            IN  IF ~known /\ LatencySource(i) \in {"unlisted", "none"}
                THEN Fail("latency") /\ UNCHANGED <<todo, engine, memo, backends>>
                ELSE IF ~known /\ LatencySource(i) # "global" /\ ~KVLoadBuilds(InstanceLatency(i).kv)
                THEN Fail("remote_load") /\ UNCHANGED <<todo, engine, memo, backends>>
                ELSE /\ backends' = IF LatencySource(i) = "global" THEN backends
                                    ELSE Put(backends, i, backend)
                     /\ IF ~CacheBuilds(i)
                        THEN Fail("cache") /\ UNCHANGED <<todo, engine, memo>>
                        ELSE /\ todo' = todo \ {i}
                             /\ memo' = EngineMemo
                             /\ engine' = <<NewEngine(i, backend)>>
                             /\ UNCHANGED <<step, reason>>
    /\ UNCHANGED <<experiment, settings, contexts, line, requests, round, served>>

\* _estimate_with_memo of one iteration
Iterate ==
    /\ step = "replay"
    /\ engine # <<>>
    /\ \E batch \in Batches :
         LET shape == Shape(batch)
             b     == engine[1].backend
             found == GetOrCompute(memo, b, shape)
         IN  IF Key(b, shape) \notin DOMAIN memo /\ EstimateFails(b, shape)
             THEN Fail("KV_bytes") /\ UNCHANGED <<memo, served>>
             ELSE /\ memo' = found.memo
                  /\ served' = <<[engine |-> engine[1], batch |-> batch, ms |-> found.ms]>>
                  /\ UNCHANGED <<step, reason>>
    /\ UNCHANGED <<experiment, settings, contexts, line, requests, round, todo, engine, backends>>

EndEngine ==
    /\ step = "replay"
    /\ engine # <<>>
    /\ engine' = <<>>
    /\ UNCHANGED <<experiment, step, reason, settings, contexts, line, requests, round, todo, memo,
                   backends, served>>

Return ==
    /\ step = "replay"
    /\ engine = <<>>
    /\ todo = {}
    /\ round = Len(x.capacities)
    /\ step' = "done"
    /\ UNCHANGED <<experiment, reason, settings, contexts, line, requests, round, todo, engine,
                   memo, backends, served>>

Next ==
    \/ Construct \/ ReadSettings \/ BuildRecord
    \/ BeginCapacity \/ BeginEngine \/ Iterate \/ EndEngine \/ Return

Spec == Init /\ [][Next]_vars

-----------------------------------------------------------------------------
(* Properties.                                                               *)

Current == engine[1].instance

\* The blocks, limits and reserved blocks of a request, kept by model from its
\* first request on, are those of the model its own instance is bound to.
BuiltForOwnModel ==
    HasRuntime =>
        \A n \in DOMAIN requests :
            LET r == requests[n]
                e == EntryOf(r.instance)
            IN  /\ r.context.block = EffectiveBlock(e.cache.block, e.model, e.deployment)
                /\ r.context.drop = SpeculativeDropBlocks(e.deployment)
                /\ e.model.limit > 0 => r.tokens <= e.model.limit
                /\ r.model \in AcceptedNames(e.model)

\* Two resolvers, which read the instance table for themselves, give an engine
\* the scheduler and cache of one model and a latency profile of the same model.
RunsAsOwnModel ==
    HasRuntime /\ engine # <<>> =>
        LET e == EntryOf(Current)
        IN  /\ engine[1].scheduler = e.deployment.scheduler
            /\ engine[1].ddr \in {0, e.cache.ddr}
            /\ LatencySource(Current) # "global" =>
                 engine[1].backend.model \in AcceptedNames(e.model)

\* A duration, from a memo or not, is what the profile of the instance gives for
\* the batch: coefficients are not part of the key of the memo.
DurationOfOwnProfile ==
    \A n \in DOMAIN served :
        served[n].ms = Estimate(NewBackend(served[n].engine.instance), Shape(served[n].batch))

\* Whatever was kept from the instances before it, an instance is simulated as
\* the model it is bound to: its requests, its engine and its durations.
ServedByOwnModel == BuiltForOwnModel /\ RunsAsOwnModel /\ DurationOfOwnProfile

\* What the setup has checked does not fail later: a bound instance always has a
\* latency profile, and a pooled model everything its cache needs.  What fails
\* in the replay fails before the first capacity is finished, when no rows are
\* lost: every shard is resolved in the first round.  Only a load whose bytes are
\* not known may fail later.
FailsBeforeRowsExist ==
    step = "failed" =>
        /\ round <= 1 \/ reason = "KV_bytes"
        /\ reason = "latency" => ~HasRuntime
        /\ reason = "cache" => ~HasRuntime \/ \E i \in todo : IsNext(i) /\ ~EntryOf(i).cache.enabled
        /\ reason = "KV_bytes" => engine[1].backend.kv.mode = "byte_linear"
=========================================================================
