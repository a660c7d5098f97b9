--------------------------- MODULE ModelProfiles ---------------------------
(* config/, request/build_context.py and cache/block_size.py: the profiles   *)
(* an experiment names, the checks made when they are loaded, and what is    *)
(* derived from them.  A text that is not given is NoText, a number 0.       *)
(*                                                                           *)
(*   model       [name, aliases, tokenizer, limit, family, groups]           *)
(*   deployment  [name, limit, scheduler, prefillCP, decodeCP, speculative,  *)
(*                method, drop, runtimeBlock, pooling, multiTier, transfer]  *)
(*   cache       [block, ddr, enabled, single, multi, ddrEnabled, remote, ssd]*)
(*   latency     [model, hardware, intercept, perToken, kv]                  *)
(*   entry       [model, tokenizer, latency, deployment, cache]              *)
(*   registry    entries by model name                                       *)
(*   table       [items : by instance [model, latency], latencies : by name] *)
EXTENDS LatencyBackends
LOCAL INSTANCE FiniteSetsExt

NotGiven == -1      \* a number whose 0 has a meaning

-----------------------------------------------------------------------------
(* Derived values.                                                           *)

AcceptedNames(model) == {model.name} \cup model.aliases

ContextParallelFactor(d) == d.prefillCP * d.decodeCP

\* SpeculativeProfile: methods that draft with the target model drop one block.
SpeculativeDropBlocks(d) ==
    CASE d.drop # NotGiven -> d.drop
      [] d.drop = NotGiven /\ d.speculative /\ d.method \in {"mtp", "eagle", "eagle3"} -> 1
      [] OTHER -> 0

LeastCommonMultiple(S) ==
    Min({n \in 1..ProductSet(S) : \A m \in S : n % m = 0})

RuntimeBlock(requested, d) == IF d.runtimeBlock > 0 THEN d.runtimeBlock ELSE requested

\* BlockSizeResolver: what it does not support, and the effective block size.
BlockSizeIsSupported(model, d) ==
    /\ model.family \in {"full_attention", "sliding_window", "mamba", "hybrid"}
    /\ ContextParallelFactor(d) > 1 => model.family = "full_attention"
    /\ model.family = "hybrid" => model.groups # {}

EffectiveBlock(requested, model, d) ==
    CASE model.family = "full_attention" -> RuntimeBlock(requested, d) * ContextParallelFactor(d)
      [] model.family = "hybrid" -> LeastCommonMultiple({RuntimeBlock(requested, d)} \cup model.groups)
      [] OTHER -> RuntimeBlock(requested, d)

\* _resolve_max_prompt_tokens; 0 when no limit is given
PromptLimit(explicit, model, d) ==
    LET limits == {explicit, model.limit, d.limit} \ {0}
    IN  IF limits = {} THEN 0 ELSE Min(limits)

\* RequestBuildContext.legacy and .from_profiles
LegacyContext(block, limit) ==
    [block |-> block, limit |-> limit, models |-> {}, drop |-> 0]

ProfileContext(requested, explicit, model, d) ==
    [block  |-> EffectiveBlock(requested, model, d),
     limit  |-> PromptLimit(explicit, model, d),
     models |-> AcceptedNames(model),
     drop   |-> SpeculativeDropBlocks(d)]

\* validate_request_model: a legacy context accepts every model.
AcceptsModel(context, name) == context.models = {} \/ name \in context.models

ExceedsLimit(context, tokens) == context.limit > 0 /\ tokens > context.limit

\* guard_core_profiles; block conversion is always enabled by its callers.
GuardPasses(run, model, d) ==
    /\ run \in AcceptedNames(model)
    /\ ContextParallelFactor(d) > 1 => model.family \notin {"sliding_window", "mamba", "hybrid"}
    /\ model.family = "hybrid" => model.groups # {}

-----------------------------------------------------------------------------
(* Checks of the model registry, when it is loaded.                          *)

\* Mutation: pooling is not required to name the capacity of its DDR tier.
FeaturesMatchWithoutDDR(cache, d) ==
    /\ ~d.transfer
    /\ IF cache.enabled
       THEN d.pooling /\ cache.single /\ ~cache.multi /\ cache.ddrEnabled
              /\ ~cache.remote /\ ~cache.ssd
       ELSE ~d.pooling /\ ~d.multiTier

\* _validate_step7_cache_features
FeaturesMatch(cache, d) ==
    /\ ~d.transfer
    /\ IF cache.enabled
       THEN d.pooling /\ cache.ddr > 0 /\ cache.single /\ ~cache.multi /\ cache.ddrEnabled
              /\ ~cache.remote /\ ~cache.ssd
       ELSE ~d.pooling /\ ~d.multiTier

RegistryIsValid(registry) ==
    \A name \in DOMAIN registry :
        LET e == registry[name]
        IN  /\ KVLoadParses(e.latency.kv)
            /\ e.model.name = name
            /\ e.model.tokenizer = e.tokenizer
            /\ e.latency.model \in AcceptedNames(e.model)
            /\ FeaturesMatch(e.cache, e.deployment)

-----------------------------------------------------------------------------
(* The instance table and its bindings.                                      *)

\* InstanceProfile.from_mapping
TableParses(table) ==
    /\ \A p \in DOMAIN table.latencies : KVLoadParses(table.latencies[p].kv)
    /\ \A i \in DOMAIN table.items :
         table.items[i].latency # NoText => table.items[i].latency \in DOMAIN table.latencies

\* Mutation: an instance may have a latency profile of any model.
BindingsWithoutLatencyModel(table, registry) ==
    \A i \in DOMAIN table.items : table.items[i].model \in DOMAIN registry

\* validate_instance_model_bindings
BindingsAreValid(table, registry) ==
    \A i \in DOMAIN table.items :
        LET item == table.items[i]
        IN  /\ item.model \in DOMAIN registry
            /\ item.latency # NoText =>
                 table.latencies[item.latency].model \in AcceptedNames(registry[item.model].model)
=========================================================================
