-------------------------- MODULE SweepSetupProofs --------------------------
(*****************************************************************************)
(* Proofs about SweepSetup.  An engine of the sweep is that of the model its *)
(* instance is bound to because nothing that is kept can go wrong: contexts  *)
(* are kept by model and made of that model's profiles, backends by instance *)
(* and made of its own profile, and a memo lives as long as one engine.  So  *)
(* the invariant says of each of the three what it is kept for.  RoundInv is *)
(* why resolving fails in the first round or never.                          *)
(*****************************************************************************)
EXTENDS SweepSetup, TLAPS
LOCAL INSTANCE FiniteSetsExt

\* What was checked when the runner was made, and what has not happened yet.
StepInv ==
    /\ experiment \in Experiments
    /\ step \in {"new", "refused", "constructed", "build", "replay", "failed", "done"}
    /\ step \notin {"new", "refused"} => LatencyIsValid /\ RuntimeIsValid
    /\ step \in {"new", "refused", "constructed", "build"} => round = 0
    /\ step = "replay" => round \in Nat \ {0}
    /\ round \in Nat /\ line \in Nat \ {0}
    /\ settings.limit \in Nat
    /\ step \in {"new", "refused", "constructed"} => requests = <<>> /\ contexts = NoContexts
    /\ step \in {"new", "refused", "constructed", "build"} => todo = {}

\* The context of a model.
OwnContext(m) ==
    ProfileContext(x.registry[m].cache.block, settings.limit, x.registry[m].model,
                   x.registry[m].deployment)

\* A context that is kept is that of the model it is kept for.
ContextInv ==
    HasRuntime => \A m \in DOMAIN contexts : m \in DOMAIN x.registry /\ contexts[m] = OwnContext(m)

\* A request that was built passed the checks of the context of its own model.
IsOwn(r) ==
    /\ Listed(r.instance)
    /\ r.context = OwnContext(ModelOf(r.instance))
    /\ r.tokens \in Nat
    /\ ~ExceedsLimit(r.context, r.tokens)
    /\ AcceptsModel(r.context, r.model)

RequestInv ==
    /\ requests \in Seq({requests[n] : n \in DOMAIN requests})
    /\ HasRuntime => \A n \in DOMAIN requests : IsOwn(requests[n])

\* A backend that is kept is that of the instance it is kept for.
HasBackend(i) == LatencySource(i) \in {"instance_profile", "model_default"}

BackendInv ==
    \A i \in DOMAIN backends : HasBackend(i) /\ backends[i] = NewBackend(i)

\* Resolving instance i again cannot fail.
Resolved(i) == CacheBuilds(i) /\ (LatencySource(i) = "global" \/ i \in DOMAIN backends)

\* The first round resolves every shard it has finished, so the others do.
RoundInv ==
    /\ todo \subseteq Shards
    /\ step = "replay" => \A i \in Shards : (round = 1 /\ i \in todo) \/ Resolved(i)

\* An engine is that of a shard; its memo has the durations of its own backend.
EngineInv ==
    engine # <<>> =>
        \E i \in Shards :
            /\ engine = <<NewEngine(i, NewBackend(i))>>
            /\ LatencySource(i) = "global" \/ HasBackend(i)
            /\ \A batch \in Batches :
                   LET key == Key(NewBackend(i), Shape(batch))
                   IN  key \in DOMAIN memo => memo[key] = Estimate(NewBackend(i), Shape(batch))

SetupInv ==
    /\ StepInv
    /\ ContextInv
    /\ RequestInv
    /\ BackendInv
    /\ RoundInv
    /\ EngineInv
    /\ DurationOfOwnProfile
    /\ FailsBeforeRowsExist

-----------------------------------------------------------------------------
\* Two batches with one key have one shape, so they take equally long.
LEMMA KeyTellsShapes ==
    ASSUME NEW b, NEW p, NEW q, Key(b, Shape(p)) = Key(b, Shape(q))
    PROVE  Shape(p) = Shape(q)
<1>1. \A s : Key(b, s) = <<b.name, b.model, b.hardware, s.batchSize, s.prefill, s.maxQuery,
                           s.context, s.kvTokens, s.kvBytes, s.kvRequests>>
  BY DEF Key
<1> DEFINE Rec(s) == [batchSize |-> s.batchSize, prefill |-> s.prefill, maxQuery |-> s.maxQuery,
                      context |-> s.context, kvTokens |-> s.kvTokens, kvBytes |-> s.kvBytes,
                      kvRequests |-> s.kvRequests]
<1>2. Shape(p) = Rec(Shape(p)) /\ Shape(q) = Rec(Shape(q))
  BY DEF Shape
<1>3. \A s, t : Key(b, s) = Key(b, t) => Rec(s) = Rec(t)
  BY <1>1
<1> HIDE DEF Rec
<1> QED BY <1>2, <1>3

LEMMA SameExperiment ==
    ASSUME experiment' = experiment
    PROVE  /\ HasRuntime' <=> HasRuntime
           /\ LatencyIsValid' <=> LatencyIsValid
           /\ RuntimeIsValid' <=> RuntimeIsValid
           /\ \A i : /\ Listed(i)' <=> Listed(i)
                     /\ ModelOf(i)' = ModelOf(i)
                     /\ EntryOf(i)' = EntryOf(i)
                     /\ LatencySource(i)' = LatencySource(i)
                     /\ NewBackend(i)' = NewBackend(i)
                     /\ CacheBuilds(i)' <=> CacheBuilds(i)
                     /\ \A backend : NewEngine(i, backend)' = NewEngine(i, backend)
<1>0. x' = x BY DEF x
<1>1. HasRuntime' <=> HasRuntime BY <1>0 DEF HasRuntime, HasRegistry
<1>2. RuntimePath' = RuntimePath BY <1>0 DEF RuntimePath
<1>3. LatencyIsValid' <=> LatencyIsValid BY <1>0 DEF LatencyIsValid, HasRegistry
<1>4. RuntimeIsValid' <=> RuntimeIsValid BY <1>0, <1>1, <1>2 DEF RuntimeIsValid
<1>5. ASSUME NEW i PROVE /\ Listed(i)' <=> Listed(i)
                     /\ ModelOf(i)' = ModelOf(i)
                     /\ EntryOf(i)' = EntryOf(i)
  BY <1>0, <1>2 DEF Listed, ModelOf, EntryOf
<1>6. ASSUME NEW i PROVE /\ LatencySource(i)' = LatencySource(i)
                     /\ NewBackend(i)' = NewBackend(i)
  BY <1>0 DEF LatencySource, NewBackend, InstanceLatency, LatencyTable, HasRegistry
<1>7. ASSUME NEW i PROVE /\ CacheBuilds(i)' <=> CacheBuilds(i)
                     /\ \A backend : NewEngine(i, backend)' = NewEngine(i, backend)
  BY <1>0, <1>1, <1>5 DEF CacheBuilds, NewEngine
<1> QED BY <1>1, <1>3, <1>4, <1>5, <1>6, <1>7
-----------------------------------------------------------------------------
(* What the checks of a configuration give.                                  *)

\* An instance that is listed runs a model of the registry, all of whose features
\* were checked, and its latency profile is of that model in both resolvers.
LEMMA BoundInstances ==
    ASSUME experiment \in Experiments, LatencyIsValid, RuntimeIsValid, HasRuntime,
           NEW i, Listed(i)
    PROVE  /\ ModelOf(i) \in DOMAIN x.registry
           /\ FeaturesMatch(EntryOf(i).cache, EntryOf(i).deployment)
           /\ x.latencyPath # NoText =>
                /\ HasBackend(i)
                /\ InstanceLatency(i).model \in AcceptedNames(EntryOf(i).model)
           /\ x.latencyPath = NoText => LatencySource(i) = "global"
<1>1. /\ PathsMatch(x) /\ RegistryIsValid(x.registry) /\ HasRegistry
      /\ BindingsAreValid(x.tables[RuntimePath], x.registry)
  BY DEF RuntimeIsValid, HasRuntime
<1>2. /\ ModelOf(i) \in DOMAIN x.registry
      /\ x.tables[RuntimePath].items[i].latency # NoText =>
           x.tables[RuntimePath].latencies[x.tables[RuntimePath].items[i].latency].model
             \in AcceptedNames(EntryOf(i).model)
  BY <1>1 DEF BindingsAreValid, Listed, ModelOf, EntryOf
<1>3. /\ FeaturesMatch(EntryOf(i).cache, EntryOf(i).deployment)
      /\ EntryOf(i).latency.model \in AcceptedNames(EntryOf(i).model)
  BY <1>1, <1>2 DEF RegistryIsValid, EntryOf
<1>4. ModelOf(i) # NoText BY <1>2, ExperimentsAssumption DEF x
<1>5. ASSUME x.latencyPath # NoText PROVE RuntimePath = x.latencyPath
  BY <1>1, <1>5 DEF PathsMatch, RuntimePath
<1>6. ASSUME x.latencyPath # NoText
      PROVE  /\ HasBackend(i)
             /\ InstanceLatency(i).model \in AcceptedNames(EntryOf(i).model)
  <2>1. i \in DOMAIN LatencyTable.items /\ LatencyTable = x.tables[RuntimePath]
    BY <1>5, <1>6 DEF LatencyTable, Listed
  <2>2. CASE LatencyTable.items[i].latency # NoText
    <3>1. LatencySource(i) = "instance_profile" BY <1>6, <2>1, <2>2 DEF LatencySource
    <3> QED BY <1>2, <2>1, <2>2, <3>1 DEF InstanceLatency, HasBackend
  <2>3. CASE LatencyTable.items[i].latency = NoText
    <3>1. LatencyTable.items[i].model # NoText BY <1>4, <2>1 DEF ModelOf
    <3>2. LatencySource(i) = "model_default" BY <1>1, <1>6, <2>1, <2>3, <3>1 DEF LatencySource
    <3>3. InstanceLatency(i) = EntryOf(i).latency
      BY <2>1, <3>2 DEF InstanceLatency, EntryOf, ModelOf
    <3> QED BY <1>3, <3>2, <3>3 DEF HasBackend
  <2> QED BY <2>2, <2>3
<1>7. x.latencyPath = NoText => LatencySource(i) = "global" BY DEF LatencySource
<1> QED BY <1>2, <1>3, <1>6, <1>7

\* A source is one of five.
LEMMA Sources ==
    ASSUME NEW i
    PROVE  LatencySource(i) \in {"global", "unlisted", "none"} \/ HasBackend(i)
BY DEF LatencySource, HasBackend

\* The least of the limits that are given.
LEMMA LimitIsLeast ==
    ASSUME NEW explicit \in Nat, NEW model, NEW d, model.limit \in Nat, d.limit \in Nat
    PROVE  /\ PromptLimit(explicit, model, d) \in Nat
           /\ model.limit > 0 =>
                /\ PromptLimit(explicit, model, d) > 0
                /\ PromptLimit(explicit, model, d) <= model.limit
<1> DEFINE limits == {explicit, model.limit, d.limit} \ {0}
           limit == PromptLimit(explicit, model, d)
<1>1. limits \subseteq Nat \ {0} OBVIOUS
<1>2. limits # {} => \E n \in limits : \A m \in limits : n <= m
  <2>1. \A a, b, c \in Nat : {a, b, c} \ {0} # {} =>
            \E n \in {a, b, c} \ {0} : \A m \in {a, b, c} \ {0} : n <= m
    OBVIOUS
  <2> QED BY <2>1
<1>3. limits # {} => limit \in limits /\ \A m \in limits : limit <= m
  BY <1>1, <1>2 DEF PromptLimit, Min
<1>4. limits = {} => limit = 0 BY DEF PromptLimit
<1>5. model.limit > 0 => model.limit \in limits OBVIOUS
<1>6. ASSUME NEW S, NEW n, S \subseteq Nat \ {0},
             S # {} => n \in S /\ \A m \in S : n <= m,
             S = {} => n = 0
      PROVE  n \in Nat /\ \A m \in S : n > 0 /\ n <= m
  <2>1. CASE S = {} BY <1>6, <2>1
  <2>2. CASE S # {}
    <3>1. n \in S /\ \A m \in S : n <= m BY <1>6, <2>2
    <3>2. n \in Nat /\ n # 0 BY <1>6, <3>1
    <3> QED BY <3>1, <3>2
  <2> QED BY <2>1, <2>2
<1>7. limit \in Nat /\ \A m \in limits : limit > 0 /\ limit <= m
  <2> HIDE DEF limits, limit
  <2> QED BY <1>1, <1>3, <1>4, <1>6
<1> QED BY <1>5, <1>7
-----------------------------------------------------------------------------
(* The initial states, and the parts of the invariant one by one.            *)

LEMMA SetupInit == Init => SetupInv
<1> SUFFICES ASSUME Init PROVE SetupInv
  OBVIOUS
<1>0. DOMAIN requests = {} /\ DOMAIN served = {} BY DEF Init
<1>1. StepInv
  <2>1. settings.limit = 0 BY DEF Init, LegacyContext
  <2> QED BY <2>1 DEF Init, StepInv
<1>2. ContextInv BY DEF Init, ContextInv, NoContexts
<1>3. RequestInv
  <2>1. \A S : <<>> \in Seq(S) OBVIOUS
  <2> QED BY <1>0, <2>1 DEF Init, RequestInv
<1>4. BackendInv BY DEF Init, BackendInv, NoContexts
<1>5. RoundInv BY DEF Init, RoundInv
<1>6. EngineInv BY DEF Init, EngineInv
<1>7. DurationOfOwnProfile BY <1>0 DEF DurationOfOwnProfile
<1>8. FailsBeforeRowsExist BY DEF Init, FailsBeforeRowsExist
<1> QED BY <1>1, <1>2, <1>3, <1>4, <1>5, <1>6, <1>7, <1>8 DEF SetupInv

\* The settings have a limit, 0 if there is none.
LEMMA SettingsLimit ==
    ASSUME StepInv, ReadSettings
    PROVE  settings'.limit \in Nat
<1>1. experiment \in Experiments /\ x.promptLimit \in Nat /\ settings.limit \in Nat
  BY ExperimentsAssumption DEF StepInv, x
<1>2. CASE x.run = <<>>
  BY <1>1, <1>2 DEF ReadSettings, LegacyContext
<1>3. CASE x.run # <<>>
  <2>1. CASE UNCHANGED settings BY <1>1, <2>1
  <2>2. CASE settings' = ProfileContext(x.run[1].block, x.promptLimit, x.run[1].model, x.run[1].deployment)
    <3>0. settings'.limit = PromptLimit(x.promptLimit, x.run[1].model, x.run[1].deployment)
      BY <2>2 DEF ProfileContext
    <3>1. 1 \in DOMAIN x.run BY <1>1, <1>3, ExperimentsAssumption DEF x
    <3>2. x.run[1].model.limit \in Nat /\ x.run[1].deployment.limit \in Nat
      BY <1>1, <3>1, ExperimentsAssumption DEF x
    <3> QED BY <1>1, <3>0, <3>2, LimitIsLeast
  <2> QED BY <1>3, <2>1, <2>2 DEF ReadSettings
<1> QED BY <1>2, <1>3

LEMMA StepStep ==
    ASSUME StepInv, [Next]_vars
    PROVE  StepInv'
<1>1. CASE Construct
  <2>1. experiment' = experiment BY <1>1 DEF Construct
  <2>2. step' \in {"constructed", "refused"}
        /\ (step' = "constructed" => LatencyIsValid /\ RuntimeIsValid)
    BY <1>1 DEF Construct
  <2>3. UNCHANGED <<settings, contexts, line, requests, round, todo>> /\ step = "new"
    BY <1>1 DEF Construct
  <2> QED BY <2>1, <2>2, <2>3, SameExperiment DEF StepInv
<1>2. CASE ReadSettings
  <2>1. UNCHANGED <<experiment, contexts, line, requests, round, todo>> /\ step = "constructed"
    BY <1>2 DEF ReadSettings
  <2>2. step' \in {"build", "failed"} BY <1>2 DEF ReadSettings, Fail
  <2>3. settings'.limit \in Nat BY <1>2, SettingsLimit
  <2> QED BY <2>1, <2>2, <2>3, SameExperiment DEF StepInv
<1>3. CASE BuildRecord
  <2>1. UNCHANGED <<experiment, settings, round, todo>> /\ step = "build"
    BY <1>3 DEF BuildRecord
  <2>2. step' \in {"build", "failed"} /\ line' \in {line, line + 1}
    BY <1>3, <2>1 DEF BuildRecord, Fail
  <2> QED BY <2>1, <2>2, SameExperiment DEF StepInv
<1>4. CASE BeginCapacity
  <2>1. /\ UNCHANGED <<experiment, settings, contexts, line, requests>>
        /\ step \in {"build", "replay"} /\ step' = "replay" /\ round' = round + 1
    BY <1>4 DEF BeginCapacity
  <2> QED BY <2>1, SameExperiment DEF StepInv
<1>5. CASE BeginEngine
  <2>1. UNCHANGED <<experiment, settings, contexts, line, requests, round>> /\ step = "replay"
    BY <1>5 DEF BeginEngine
  <2>2. step' \in {"replay", "failed"} BY <1>5, <2>1 DEF BeginEngine, Fail
  <2> QED BY <2>1, <2>2, SameExperiment DEF StepInv
<1>6. CASE Iterate
  <2>1. UNCHANGED <<experiment, settings, contexts, line, requests, round, todo>> /\ step = "replay"
    BY <1>6 DEF Iterate
  <2>2. step' \in {"replay", "failed"} BY <1>6, <2>1 DEF Iterate, Fail
  <2> QED BY <2>1, <2>2, SameExperiment DEF StepInv
<1>7. CASE EndEngine \/ Return
  <2>1. UNCHANGED <<experiment, settings, contexts, line, requests, round, todo>> /\ step = "replay"
        /\ step' \in {"replay", "done"}
    BY <1>7 DEF EndEngine, Return
  <2> QED BY <2>1, SameExperiment DEF StepInv
<1>8. CASE UNCHANGED vars
  <2>1. UNCHANGED <<experiment, settings, contexts, line, requests, round, todo, step>>
    BY <1>8 DEF vars
  <2> QED BY <2>1, SameExperiment DEF StepInv
<1> QED BY <1>1, <1>2, <1>3, <1>4, <1>5, <1>6, <1>7, <1>8 DEF Next

\* Contexts and requests are made while the shards are built, and never after.
LEMMA BuiltOnce ==
    ASSUME [Next]_vars, ~BuildRecord
    PROVE  UNCHANGED <<experiment, contexts, requests>> /\ (UNCHANGED settings \/ step = "constructed")
BY DEF Next, vars, Construct, ReadSettings, BeginCapacity, BeginEngine, Iterate, EndEngine, Return

\* What a record is built with.
LEMMA RecordBuilt ==
    ASSUME StepInv, ContextInv, BuildRecord
    PROVE  LET r == x.trace[line]
           IN  /\ r.tokens \in Nat
               /\ \/ UNCHANGED <<contexts, requests>>
                  \/ /\ HasRuntime => Listed(r.instance) /\ ModelOf(r.instance) \in DOMAIN x.registry
                     /\ contexts' = IF HasRuntime
                                    THEN Put(contexts, ModelOf(r.instance), OwnContext(ModelOf(r.instance)))
                                    ELSE contexts
                     /\ \/ UNCHANGED requests
                        \/ \E context :
                             /\ requests' = Append(requests, Built(r, context))
                             /\ ~ExceedsLimit(context, r.tokens) /\ AcceptsModel(context, r.model)
                             /\ HasRuntime => context = OwnContext(ModelOf(r.instance))
<1> DEFINE r == x.trace[line]
           i == r.instance
<1>1. line \in DOMAIN x.trace /\ r.tokens \in Nat
  <2>1. x.trace \in Seq([instance : Nat, model : STRING, tokens : Nat])
    BY ExperimentsAssumption DEF StepInv, x
  <2>2. line \in DOMAIN x.trace BY <2>1 DEF StepInv, BuildRecord
  <2>3. x.trace[line] \in [instance : Nat, model : STRING, tokens : Nat]
    <3>1. \A S : \A q \in Seq(S) : \A n \in DOMAIN q : q[n] \in S OBVIOUS
    <3> QED BY <2>1, <2>2, <3>1
  <2> QED BY <2>2, <2>3
<1>2. CASE UNCHANGED <<contexts, requests>> BY <1>1, <1>2
<1>3. CASE ~UNCHANGED <<contexts, requests>>
  <2>1. /\ HasRuntime => Listed(i)
        /\ contexts' = IF HasRuntime THEN Put(contexts, ContextKey(i), ContextFor(i)) ELSE contexts
        /\ \/ UNCHANGED requests
           \/ /\ requests' = Append(requests, Built(r, ContextFor(i)))
              /\ ~ExceedsLimit(ContextFor(i), r.tokens) /\ AcceptsModel(ContextFor(i), r.model)
    BY <1>3 DEF BuildRecord
  <2>2. LatencyIsValid /\ RuntimeIsValid /\ experiment \in Experiments
    BY DEF StepInv, BuildRecord
  <2>3. ASSUME HasRuntime
        PROVE  ModelOf(i) \in DOMAIN x.registry /\ ContextFor(i) = OwnContext(ModelOf(i))
    <3>1. Listed(i) BY <2>1, <2>3
    <3>2. ModelOf(i) \in DOMAIN x.registry BY <2>2, <2>3, <3>1, BoundInstances
    <3>3. NewContext(i) = OwnContext(ModelOf(i)) BY DEF NewContext, OwnContext, EntryOf
    <3> QED BY <2>3, <3>2, <3>3 DEF ContextFor, ContextKey, ContextInv
  <2> QED BY <1>1, <2>1, <2>3 DEF ContextKey
<1> QED BY <1>2, <1>3

\* Appending to a list of anything.
LEMMA AppendAnything ==
    ASSUME NEW q, q \in Seq({q[n] : n \in DOMAIN q}), NEW r
    PROVE  LET t == Append(q, r)
           IN  /\ t \in Seq({t[n] : n \in DOMAIN t})
               /\ \A n \in DOMAIN t : t[n] = r \/ \E m \in DOMAIN q : t[n] = q[m]
               /\ \A m \in DOMAIN q : m \in DOMAIN t /\ t[m] = q[m]
<1> DEFINE t == Append(q, r)
<1>1. PICK S : S = {q[n] : n \in DOMAIN q} \cup {r} OBVIOUS
<1>2. q \in Seq(S) /\ r \in S BY <1>1
<1>3. /\ t \in Seq(S) /\ DOMAIN q = 1..Len(q) /\ DOMAIN t = 1..(Len(q) + 1) /\ Len(q) \in Nat
      /\ t[Len(q) + 1] = r /\ \A n \in 1..Len(q) : t[n] = q[n]
  BY <1>2
<1>4. t \in Seq({t[n] : n \in DOMAIN t}) BY <1>3
<1>5. \A n \in DOMAIN t : n = Len(q) + 1 \/ n \in 1..Len(q) BY <1>3
<1>6. \A n \in 1..Len(q) : n \in DOMAIN t BY <1>3
<1> HIDE DEF t
<1> QED BY <1>3, <1>4, <1>5, <1>6 DEF t

LEMMA ContextStep ==
    ASSUME StepInv, ContextInv, [Next]_vars
    PROVE  ContextInv'
<1>0. experiment' = experiment
  BY BuiltOnce DEF BuildRecord
<1>1. x' = x /\ (HasRuntime' <=> HasRuntime) BY <1>0, SameExperiment DEF x
<1>2. CASE BuildRecord
  <2>1. settings' = settings BY <1>2 DEF BuildRecord
  <2>2. \A m : OwnContext(m)' = OwnContext(m) BY <1>1, <2>1 DEF OwnContext
  <2>3. \/ contexts' = contexts
        \/ \E m : /\ HasRuntime => m \in DOMAIN x.registry
                  /\ contexts' = IF HasRuntime THEN Put(contexts, m, OwnContext(m)) ELSE contexts
    BY <1>2, RecordBuilt
  <2> QED BY <1>1, <2>2, <2>3 DEF ContextInv, Put
<1>3. CASE ~BuildRecord
  <2>1. contexts' = contexts /\ (settings' = settings \/ contexts = NoContexts)
    BY <1>3, BuiltOnce DEF StepInv
  <2>2. CASE contexts = NoContexts BY <2>1, <2>2 DEF ContextInv, NoContexts
  <2>3. CASE settings' = settings
    <3>1. \A m : OwnContext(m)' = OwnContext(m) BY <1>1, <2>3 DEF OwnContext
    <3> QED BY <1>1, <2>1, <3>1 DEF ContextInv
  <2> QED BY <2>1, <2>2, <2>3
<1> QED BY <1>2, <1>3

LEMMA RequestStep ==
    ASSUME StepInv, ContextInv, RequestInv, [Next]_vars
    PROVE  RequestInv'
<1>0. experiment' = experiment
  BY BuiltOnce DEF BuildRecord
<1>1. x' = x /\ (HasRuntime' <=> HasRuntime)
      /\ \A i : (Listed(i)' <=> Listed(i)) /\ ModelOf(i)' = ModelOf(i)
  BY <1>0, SameExperiment DEF x
<1>2. ASSUME settings' = settings PROVE \A r : IsOwn(r) => IsOwn(r)'
  <2>1. \A m : OwnContext(m)' = OwnContext(m) BY <1>1, <1>2 DEF OwnContext
  <2> QED BY <1>1, <2>1 DEF IsOwn
<1>3. CASE BuildRecord
  <2>1. settings' = settings BY <1>3 DEF BuildRecord
  <2>2. CASE requests' = requests BY <1>1, <1>2, <2>1, <2>2 DEF RequestInv
  <2>3. CASE requests' # requests
    <3>1. PICK r, context :
            /\ r.tokens \in Nat
            /\ HasRuntime => Listed(r.instance) /\ context = OwnContext(ModelOf(r.instance))
            /\ requests' = Append(requests, Built(r, context))
            /\ ~ExceedsLimit(context, r.tokens) /\ AcceptsModel(context, r.model)
      BY <1>3, <2>3, RecordBuilt
    <3>2. HasRuntime => IsOwn(Built(r, context)) BY <3>1 DEF IsOwn, Built
    <3>3. /\ requests' \in Seq({requests'[n] : n \in DOMAIN requests'})
          /\ \A n \in DOMAIN requests' : requests'[n] = Built(r, context)
                                           \/ \E m \in DOMAIN requests : requests'[n] = requests[m]
      BY <3>1, AppendAnything DEF RequestInv
    <3>4. HasRuntime => \A n \in DOMAIN requests' : IsOwn(requests'[n])
      BY <3>2, <3>3 DEF RequestInv
    <3>5. HasRuntime => \A n \in DOMAIN requests' : IsOwn(requests[n])'
      BY <1>2, <2>1, <3>4 DEF IsOwn
    <3> QED BY <1>1, <3>3, <3>5 DEF RequestInv
  <2> QED BY <2>2, <2>3
<1>4. CASE ~BuildRecord
  <2>1. requests' = requests /\ (settings' = settings \/ requests = <<>>)
    BY <1>4, BuiltOnce DEF StepInv
  <2>2. CASE requests = <<>>
    <3>1. DOMAIN requests' = {} BY <2>1, <2>2
    <3> QED BY <2>1, <3>1 DEF RequestInv
  <2>3. CASE settings' = settings BY <1>1, <1>2, <2>1, <2>3 DEF RequestInv
  <2> QED BY <2>1, <2>2, <2>3
<1> QED BY <1>3, <1>4

\* How an engine begins: it is resolved and built, or the run fails.
LEMMA EngineBegun ==
    ASSUME BackendInv, BeginEngine
    PROVE  \E i \in todo :
             /\ IsNext(i)
             /\ \/ /\ step' = "failed" /\ reason' \in {"latency", "remote_load"}
                   /\ i \notin DOMAIN backends /\ LatencySource(i) # "global"
                   /\ reason' = "latency" => ~HasBackend(i)
                   /\ UNCHANGED <<todo, engine, memo, backends>>
                \/ /\ LatencySource(i) = "global" \/ HasBackend(i)
                   /\ backends' = IF LatencySource(i) = "global" THEN backends
                                  ELSE Put(backends, i, NewBackend(i))
                   /\ \/ /\ ~CacheBuilds(i) /\ step' = "failed" /\ reason' = "cache"
                         /\ UNCHANGED <<todo, engine, memo>>
                      \/ /\ CacheBuilds(i) /\ todo' = todo \ {i} /\ memo' = NoMemo
                         /\ engine' = <<NewEngine(i, NewBackend(i))>>
                         /\ UNCHANGED <<step, reason>>
<1> DEFINE Known(i) == i \in DOMAIN backends
           Used(i) == IF Known(i) THEN backends[i] ELSE NewBackend(i)
<1>1. PICK i \in todo :
        /\ IsNext(i)
        /\ \/ /\ ~Known(i) /\ LatencySource(i) \in {"unlisted", "none"}
              /\ step' = "failed" /\ reason' = "latency" /\ UNCHANGED <<todo, engine, memo, backends>>
           \/ /\ ~Known(i) /\ LatencySource(i) # "global"
              /\ step' = "failed" /\ reason' = "remote_load" /\ UNCHANGED <<todo, engine, memo, backends>>
           \/ /\ Known(i) \/ LatencySource(i) \notin {"unlisted", "none"}
              /\ backends' = IF LatencySource(i) = "global" THEN backends ELSE Put(backends, i, Used(i))
              /\ \/ /\ ~CacheBuilds(i) /\ step' = "failed" /\ reason' = "cache"
                    /\ UNCHANGED <<todo, engine, memo>>
                 \/ /\ CacheBuilds(i) /\ todo' = todo \ {i} /\ memo' = NoMemo
                    /\ engine' = <<NewEngine(i, Used(i))>>
                    /\ UNCHANGED <<step, reason>>
  BY DEF BeginEngine, Fail, EngineMemo
<1>2. Used(i) = NewBackend(i) BY DEF BackendInv
<1>3. Known(i) => HasBackend(i) BY DEF BackendInv
<1>4. LatencySource(i) \in {"unlisted", "none"} => ~HasBackend(i) /\ LatencySource(i) # "global"
  BY DEF HasBackend
<1>5. LatencySource(i) \notin {"unlisted", "none"} => LatencySource(i) = "global" \/ HasBackend(i)
  BY Sources
<1> HIDE DEF Used
<1> QED BY <1>1, <1>2, <1>3, <1>4, <1>5

\* Backends are made when an engine begins.
LEMMA BackendsKept ==
    ASSUME [Next]_vars, ~BeginEngine
    PROVE  UNCHANGED <<backends, experiment>>
BY DEF Next, vars, Construct, ReadSettings, BuildRecord, BeginCapacity, Iterate, EndEngine, Return

LEMMA BackendStep ==
    ASSUME BackendInv, [Next]_vars
    PROVE  BackendInv' /\ DOMAIN backends \subseteq DOMAIN backends'
<1>0. experiment' = experiment BY BackendsKept DEF BeginEngine
<1>1. \A i : (HasBackend(i)' <=> HasBackend(i)) /\ NewBackend(i)' = NewBackend(i)
  BY <1>0, SameExperiment DEF HasBackend
<1>2. CASE BeginEngine
  <2>1. \/ backends' = backends
        \/ \E i : HasBackend(i) /\ backends' = Put(backends, i, NewBackend(i))
    BY <1>2, EngineBegun
  <2> QED BY <1>1, <2>1 DEF BackendInv, Put
<1>3. CASE ~BeginEngine
  <2>1. backends' = backends BY <1>3, BackendsKept
  <2> QED BY <1>1, <2>1 DEF BackendInv
<1> QED BY <1>2, <1>3

\* Requests stay, so the shards do.
LEMMA ShardsStay ==
    ASSUME StepInv, [Next]_vars, step \notin {"new", "refused", "constructed", "build"}
    PROVE  Shards' = Shards /\ UNCHANGED <<experiment, requests>>
<1>1. ~BuildRecord BY DEF BuildRecord
<1> QED BY <1>1, BuiltOnce DEF Shards

LEMMA RoundStep ==
    ASSUME StepInv, BackendInv, RoundInv, [Next]_vars
    PROVE  RoundInv'
<1>0. experiment' = experiment BY BackendsKept DEF BeginEngine
<1>1. \A i : Resolved(i) => Resolved(i)'
  <2>1. \A i : (CacheBuilds(i)' <=> CacheBuilds(i)) /\ LatencySource(i)' = LatencySource(i)
    BY <1>0, SameExperiment
  <2> QED BY <2>1, BackendStep DEF Resolved
<1>2. CASE Construct \/ ReadSettings \/ BuildRecord
  <2>1. todo' = todo /\ todo = {} BY <1>2 DEF StepInv, Construct, ReadSettings, BuildRecord
  <2>2. step' \in {"constructed", "refused", "build", "failed"}
    BY <1>2 DEF Construct, ReadSettings, BuildRecord, Fail
  <2> QED BY <2>1, <2>2 DEF RoundInv
<1>3. CASE BeginCapacity
  <2>1. /\ todo' = Shards /\ UNCHANGED <<requests, backends>> /\ round' = round + 1
        /\ step = "build" \/ (step = "replay" /\ todo = {})
    BY <1>3 DEF BeginCapacity
  <2>2. Shards' = Shards BY <2>1 DEF Shards
  <2>3. CASE step = "build"
    <3>1. round' = 1 BY <2>1, <2>3 DEF StepInv
    <3> QED BY <2>1, <2>2, <3>1 DEF RoundInv
  <2>4. CASE step = "replay" /\ todo = {}
    <3>1. \A i \in Shards : Resolved(i)' BY <1>1, <2>4 DEF RoundInv
    <3> QED BY <2>1, <2>2, <3>1 DEF RoundInv
  <2> QED BY <2>1, <2>3, <2>4
<1>4. CASE BeginEngine
  <2>1. step = "replay" /\ round' = round BY <1>4 DEF BeginEngine
  <2>2. Shards' = Shards BY <2>1, ShardsStay
  <2>3. PICK i \in todo :
          \/ step' = "failed" /\ todo' = todo
          \/ /\ CacheBuilds(i) /\ todo' = todo \ {i}
             /\ LatencySource(i) = "global" \/ backends' = Put(backends, i, NewBackend(i))
    BY <1>4, EngineBegun
  <2>4. CASE step' = "failed" /\ todo' = todo BY <2>2, <2>4 DEF RoundInv
  <2>5. CASE /\ CacheBuilds(i) /\ todo' = todo \ {i}
             /\ LatencySource(i) = "global" \/ backends' = Put(backends, i, NewBackend(i))
    <3>1. CacheBuilds(i)' /\ LatencySource(i)' = LatencySource(i) BY <1>0, <2>5, SameExperiment
    <3>2. Resolved(i)' BY <2>5, <3>1 DEF Resolved, Put
    <3>3. \A j \in Shards : (round = 1 /\ j \in todo) \/ Resolved(j) BY <2>1 DEF RoundInv
    <3> QED BY <1>1, <2>1, <2>2, <2>5, <3>2, <3>3 DEF RoundInv
  <2> QED BY <2>3, <2>4, <2>5
<1>5. CASE Iterate \/ EndEngine \/ Return \/ UNCHANGED vars
  <2>1. UNCHANGED <<todo, round, requests>> /\ (step' = "replay" => step = "replay")
    BY <1>5 DEF Iterate, EndEngine, Return, vars
  <2>2. Shards' = Shards BY <2>1 DEF Shards
  <2> QED BY <1>1, <2>1, <2>2 DEF RoundInv
<1> QED BY <1>2, <1>3, <1>4, <1>5 DEF Next

\* What EngineInv says of the engine of instance i.
EngineOf(i) ==
    /\ engine = <<NewEngine(i, NewBackend(i))>>
    /\ LatencySource(i) = "global" \/ HasBackend(i)
    /\ \A batch \in Batches :
           LET key == Key(NewBackend(i), Shape(batch))
           IN  key \in DOMAIN memo => memo[key] = Estimate(NewBackend(i), Shape(batch))

\* An iteration takes as long as its own backend says, from the memo or not, and
\* the memo remembers that.
LEMMA IterationTime ==
    ASSUME NEW i, EngineOf(i), Iterate
    PROVE  \/ UNCHANGED <<memo, served>>
           \/ \E batch \in Batches :
                LET key == Key(NewBackend(i), Shape(batch))
                    ms  == Estimate(NewBackend(i), Shape(batch))
                IN  /\ memo' = Put(memo, key, ms)
                    /\ served' = <<[engine |-> engine[1], batch |-> batch, ms |-> ms]>>
<1>1. engine[1].backend = NewBackend(i) BY DEF EngineOf, NewEngine
<1>2. PICK batch \in Batches :
        LET found == GetOrCompute(memo, NewBackend(i), Shape(batch))
        IN  \/ UNCHANGED <<memo, served>>
            \/ /\ memo' = found.memo
               /\ served' = <<[engine |-> engine[1], batch |-> batch, ms |-> found.ms]>>
  BY <1>1 DEF Iterate
<1> DEFINE key == Key(NewBackend(i), Shape(batch))
           ms  == Estimate(NewBackend(i), Shape(batch))
<1>3. key \in DOMAIN memo => memo[key] = ms BY DEF EngineOf
<1>4. /\ GetOrCompute(memo, NewBackend(i), Shape(batch)).ms = ms
      /\ GetOrCompute(memo, NewBackend(i), Shape(batch)).memo = Put(memo, key, ms)
  <2> HIDE DEF ms, key
  <2>1. GetOrCompute(memo, NewBackend(i), Shape(batch)) =
          [ms |-> IF key \in DOMAIN memo THEN memo[key] ELSE ms,
           memo |-> Put(memo, key, IF key \in DOMAIN memo THEN memo[key] ELSE ms)]
    BY DEF GetOrCompute, ms, key
  <2> QED BY <1>3, <2>1
<1> QED BY <1>2, <1>4

LEMMA EngineStep ==
    ASSUME StepInv, RequestInv, BackendInv, RoundInv, EngineInv, [Next]_vars
    PROVE  EngineInv'
<1>0. experiment' = experiment BY BackendsKept DEF BeginEngine
<1>1. \A i : /\ NewBackend(i)' = NewBackend(i) /\ (HasBackend(i)' <=> HasBackend(i))
             /\ LatencySource(i)' = LatencySource(i)
             /\ \A backend : NewEngine(i, backend)' = NewEngine(i, backend)
  BY <1>0, SameExperiment DEF HasBackend
<1>2. EngineInv <=> (engine # <<>> => \E i \in Shards : EngineOf(i))
  BY DEF EngineInv, EngineOf
<1>3. EngineInv' <=> (engine' # <<>> => \E i \in Shards' : EngineOf(i)')
  BY DEF EngineInv, EngineOf
<1>4. ASSUME engine' = engine, memo' = memo, Shards \subseteq Shards' PROVE EngineInv'
  <2>1. \A i : EngineOf(i) => EngineOf(i)' BY <1>1, <1>4 DEF EngineOf
  <2> QED BY <1>2, <1>3, <1>4, <2>1
<1>5. CASE Construct \/ ReadSettings
  <2>1. UNCHANGED <<engine, memo, requests>> BY <1>5 DEF Construct, ReadSettings
  <2>2. Shards' = Shards BY <2>1 DEF Shards
  <2> QED BY <1>4, <2>1, <2>2
<1>6. CASE BuildRecord
  <2>1. UNCHANGED <<engine, memo>> BY <1>6 DEF BuildRecord
  <2>2. Shards \subseteq Shards'
    <3>1. \/ requests' = requests
          \/ \E r : requests' = Append(requests, r)
      BY <1>6 DEF BuildRecord
    <3>2. \A n \in DOMAIN requests : n \in DOMAIN requests' /\ requests'[n] = requests[n]
      BY <3>1, AppendAnything DEF RequestInv
    <3> QED BY <3>2 DEF Shards
  <2> QED BY <1>4, <2>1, <2>2
<1>7. CASE BeginCapacity \/ Return \/ UNCHANGED vars
  <2>1. UNCHANGED <<engine, memo, requests>> BY <1>7 DEF BeginCapacity, Return, vars
  <2>2. Shards' = Shards BY <2>1 DEF Shards
  <2> QED BY <1>4, <2>1, <2>2
<1>8. CASE EndEngine
  <2>1. engine' = <<>> BY <1>8 DEF EndEngine
  <2> QED BY <1>3, <2>1
<1>9. CASE BeginEngine
  <2>1. step = "replay" BY <1>9 DEF BeginEngine
  <2>2. Shards' = Shards BY <2>1, ShardsStay
  <2>3. PICK i \in todo :
          \/ UNCHANGED <<engine, memo>>
          \/ /\ LatencySource(i) = "global" \/ HasBackend(i)
             /\ memo' = NoMemo /\ engine' = <<NewEngine(i, NewBackend(i))>>
    BY <1>9, EngineBegun
  <2>4. CASE UNCHANGED <<engine, memo>> BY <1>4, <2>2, <2>4
  <2>5. CASE /\ LatencySource(i) = "global" \/ HasBackend(i)
             /\ memo' = NoMemo /\ engine' = <<NewEngine(i, NewBackend(i))>>
    <3>1. i \in Shards' BY <2>2 DEF RoundInv
    <3>2. DOMAIN memo' = {} BY <2>5 DEF NoMemo
    <3>3. EngineOf(i)' BY <1>1, <2>5, <3>2 DEF EngineOf
    <3> QED BY <1>3, <3>1, <3>3
  <2> QED BY <2>3, <2>4, <2>5
<1>10. CASE Iterate
  <2>1. step = "replay" /\ engine' = engine /\ engine # <<>> BY <1>10 DEF Iterate
  <2>2. Shards' = Shards BY <2>1, ShardsStay
  <2>3. PICK i \in Shards : EngineOf(i) BY <1>2, <2>1
  <2>4. CASE UNCHANGED <<memo, served>> BY <1>4, <2>1, <2>2, <2>4
  <2>5. CASE ~UNCHANGED <<memo, served>>
    <3>1. PICK batch \in Batches :
            memo' = Put(memo, Key(NewBackend(i), Shape(batch)), Estimate(NewBackend(i), Shape(batch)))
      BY <1>10, <2>3, <2>5, IterationTime
    <3>2. ASSUME NEW other \in Batches,
                 Key(NewBackend(i), Shape(other)) \in DOMAIN memo'
          PROVE  memo'[Key(NewBackend(i), Shape(other))] = Estimate(NewBackend(i), Shape(other))
      <4>1. CASE Key(NewBackend(i), Shape(other)) = Key(NewBackend(i), Shape(batch))
        <5>1. Shape(other) = Shape(batch) BY <4>1, KeyTellsShapes
        <5> QED BY <3>1, <5>1 DEF Put
      <4>2. CASE Key(NewBackend(i), Shape(other)) # Key(NewBackend(i), Shape(batch))
        <5>1. /\ Key(NewBackend(i), Shape(other)) \in DOMAIN memo
              /\ memo'[Key(NewBackend(i), Shape(other))] = memo[Key(NewBackend(i), Shape(other))]
          BY <3>1, <3>2, <4>2 DEF Put
        <5> QED BY <2>3, <5>1 DEF EngineOf
      <4> QED BY <4>1, <4>2
    <3>3. EngineOf(i)' BY <1>1, <2>1, <2>3, <3>2 DEF EngineOf
    <3> QED BY <1>3, <2>2, <3>3
  <2> QED BY <2>4, <2>5
<1> QED BY <1>5, <1>6, <1>7, <1>8, <1>9, <1>10 DEF Next

LEMMA DurationStep ==
    ASSUME EngineInv, DurationOfOwnProfile, [Next]_vars
    PROVE  DurationOfOwnProfile'
<1>0. experiment' = experiment BY BackendsKept DEF BeginEngine
<1>1. \A i : NewBackend(i)' = NewBackend(i) BY <1>0, SameExperiment
<1>2. CASE served' = served BY <1>1, <1>2 DEF DurationOfOwnProfile
<1>3. CASE served' # served
  <2>1. Iterate
    BY <1>3 DEF Next, vars, Construct, ReadSettings, BuildRecord, BeginCapacity, BeginEngine,
                EndEngine, Return
  <2>2. PICK i : EngineOf(i) BY <2>1 DEF EngineInv, EngineOf, Iterate
  <2>3. PICK batch \in Batches :
          served' = <<[engine |-> engine[1], batch |-> batch,
                       ms |-> Estimate(NewBackend(i), Shape(batch))]>>
    BY <1>3, <2>1, <2>2, IterationTime
  <2>4. engine[1].instance = i BY <2>2 DEF EngineOf, NewEngine
  <2>5. DOMAIN served' = {1} /\ served'[1].engine.instance = i /\ served'[1].batch = batch
        /\ served'[1].ms = Estimate(NewBackend(i), Shape(batch))
    BY <2>3, <2>4
  <2> QED BY <1>1, <2>5 DEF DurationOfOwnProfile
<1> QED BY <1>2, <1>3

-----------------------------------------------------------------------------
(* What the parts of the invariant give together.                            *)

\* The instance of a shard is listed, and bound to a model of the registry.
LEMMA ShardsAreBound ==
    ASSUME StepInv, RequestInv, HasRuntime, NEW i \in Shards
    PROVE  /\ ModelOf(i) \in DOMAIN x.registry
           /\ FeaturesMatch(EntryOf(i).cache, EntryOf(i).deployment)
           /\ LatencySource(i) # "global" =>
                /\ HasBackend(i)
                /\ InstanceLatency(i).model \in AcceptedNames(EntryOf(i).model)
<1>1. PICK n \in DOMAIN requests : requests[n].instance = i BY DEF Shards
<1>2. Listed(i) BY <1>1 DEF RequestInv, IsOwn
<1>3. requests # <<>>
  <2>1. DOMAIN <<>> = {} OBVIOUS
  <2> QED BY <1>1, <2>1
<1>4. experiment \in Experiments /\ LatencyIsValid /\ RuntimeIsValid BY <1>3 DEF StepInv
<1> QED BY <1>2, <1>4, BoundInstances

LEMMA FailsStep ==
    ASSUME StepInv, RequestInv, BackendInv, RoundInv, EngineInv, FailsBeforeRowsExist, [Next]_vars
    PROVE  FailsBeforeRowsExist'
<1>0. experiment' = experiment BY BackendsKept DEF BeginEngine
<1>1. /\ HasRuntime' <=> HasRuntime
      /\ \A i : EntryOf(i)' = EntryOf(i)
  BY <1>0, SameExperiment
<1>2. todo' = todo => \A i : IsNext(i)' <=> IsNext(i) BY DEF IsNext
<1>3. CASE step' # "failed" BY <1>3 DEF FailsBeforeRowsExist
<1>4. CASE step = "failed"
  <2>1. UNCHANGED vars
    BY <1>4 DEF Next, Construct, ReadSettings, BuildRecord, BeginCapacity, BeginEngine, Iterate,
                EndEngine, Return
  <2>2. UNCHANGED <<step, reason, round, todo, engine>> BY <2>1 DEF vars
  <2> QED BY <1>1, <1>2, <2>2 DEF FailsBeforeRowsExist
<1>5. CASE step # "failed" /\ (ReadSettings \/ BuildRecord) /\ step' = "failed"
  <2>1. round' = 0 BY <1>5 DEF ReadSettings, BuildRecord, StepInv
  <2>2. reason' \in {"profiles", "instance", "request_model"}
    BY <1>5 DEF ReadSettings, BuildRecord, Fail
  <2> QED BY <2>1, <2>2 DEF FailsBeforeRowsExist
<1>6. CASE BeginEngine /\ step' = "failed"
  <2>1. step = "replay" /\ round' = round BY <1>6 DEF BeginEngine
  <2>2. PICK i \in todo :
          /\ IsNext(i) /\ todo' = todo
          /\ \/ /\ reason' \in {"latency", "remote_load"}
                /\ i \notin DOMAIN backends /\ LatencySource(i) # "global"
                /\ reason' = "latency" => ~HasBackend(i)
             \/ reason' = "cache" /\ ~CacheBuilds(i)
    BY <1>6, <2>1, EngineBegun
  <2>3. i \in Shards BY DEF RoundInv
  <2>4. round' <= 1
    <3>1. ~Resolved(i) BY <2>2 DEF Resolved
    <3>2. round = 1 BY <2>1, <2>3, <3>1 DEF RoundInv
    <3> QED BY <2>1, <3>2
  <2>5. reason' = "latency" => ~HasRuntime
    BY <2>2, <2>3, ShardsAreBound
  <2>6. reason' = "cache" => ~HasRuntime \/ ~EntryOf(i).cache.enabled
    <3>1. ASSUME HasRuntime, EntryOf(i).cache.enabled PROVE CacheBuilds(i)
      <4>1. FeaturesMatch(EntryOf(i).cache, EntryOf(i).deployment)
        BY <2>3, <3>1, ShardsAreBound
      <4> QED BY <3>1, <4>1 DEF FeaturesMatch, CacheBuilds
    <3> QED BY <2>2, <3>1
  <2>7. i \in todo' /\ IsNext(i)' BY <1>2, <2>2
  <2>8. reason' # "KV_bytes" BY <2>2
  <2> QED BY <1>1, <2>4, <2>5, <2>6, <2>7, <2>8 DEF FailsBeforeRowsExist
<1>7. CASE Iterate /\ step' = "failed"
  <2>1. step = "replay" /\ engine' = engine BY <1>7 DEF Iterate
  <2>2. PICK batch \in Batches :
          EstimateFails(engine[1].backend, Shape(batch)) /\ reason' = "KV_bytes"
    BY <1>7, <2>1 DEF Iterate, Fail
  <2>3. engine[1].backend.kv.mode = "byte_linear" BY <2>2 DEF EstimateFails, BytesUnknown
  <2> QED BY <2>1, <2>2, <2>3 DEF FailsBeforeRowsExist
<1>8. CASE (Construct \/ BeginCapacity \/ EndEngine \/ Return) /\ step # "failed"
  <2>1. step' # "failed" BY <1>8 DEF Construct, BeginCapacity, EndEngine, Return
  <2> QED BY <1>3, <2>1
<1>9. CASE UNCHANGED vars /\ step # "failed"
  <2>1. step' # "failed" BY <1>9 DEF vars
  <2> QED BY <1>3, <2>1
<1> QED BY <1>3, <1>4, <1>5, <1>6, <1>7, <1>8, <1>9 DEF Next

LEMMA SetupStep == SetupInv /\ [Next]_vars => SetupInv'
<1> SUFFICES ASSUME SetupInv, [Next]_vars PROVE SetupInv'
  OBVIOUS
<1>1. /\ StepInv /\ ContextInv /\ RequestInv /\ BackendInv /\ RoundInv /\ EngineInv
      /\ DurationOfOwnProfile /\ FailsBeforeRowsExist
  BY DEF SetupInv
<1>2. StepInv' BY <1>1, StepStep
<1>3. ContextInv' BY <1>1, ContextStep
<1>4. RequestInv' BY <1>1, RequestStep
<1>5. BackendInv' BY <1>1, BackendStep
<1>6. RoundInv' BY <1>1, RoundStep
<1>7. EngineInv' BY <1>1, EngineStep
<1>8. DurationOfOwnProfile' BY <1>1, DurationStep
<1>9. FailsBeforeRowsExist' BY <1>1, FailsStep
<1> QED BY <1>2, <1>3, <1>4, <1>5, <1>6, <1>7, <1>8, <1>9 DEF SetupInv

\* A request was built with the context of the model its instance is bound to.
LEMMA OwnRequests ==
    ASSUME StepInv, RequestInv
    PROVE  BuiltForOwnModel
<1> SUFFICES ASSUME HasRuntime, NEW n \in DOMAIN requests
             PROVE  LET r == requests[n]
                        e == EntryOf(r.instance)
                    IN  /\ r.context.block = EffectiveBlock(e.cache.block, e.model, e.deployment)
                        /\ r.context.drop = SpeculativeDropBlocks(e.deployment)
                        /\ e.model.limit > 0 => r.tokens <= e.model.limit
                        /\ r.model \in AcceptedNames(e.model)
  BY DEF BuiltForOwnModel
<1> DEFINE r == requests[n]
           e == EntryOf(r.instance)
<1>1. IsOwn(r) BY DEF RequestInv
<1>2. r.context = ProfileContext(e.cache.block, settings.limit, e.model, e.deployment)
  BY <1>1 DEF IsOwn, OwnContext, EntryOf
<1>3. /\ r.context.block = EffectiveBlock(e.cache.block, e.model, e.deployment)
      /\ r.context.drop = SpeculativeDropBlocks(e.deployment)
      /\ r.context.limit = PromptLimit(settings.limit, e.model, e.deployment)
      /\ r.context.models = AcceptedNames(e.model)
  BY <1>2 DEF ProfileContext
<1>4. r.instance \in Shards BY DEF Shards
<1>5. ModelOf(r.instance) \in DOMAIN x.registry BY <1>4, ShardsAreBound
<1>6. e.model.limit \in Nat /\ e.deployment.limit \in Nat /\ settings.limit \in Nat
  BY <1>5, ExperimentsAssumption DEF StepInv, x, EntryOf
<1>7. e.model.limit > 0 => r.tokens <= e.model.limit
  <2>1. e.model.limit > 0 => r.context.limit > 0 /\ r.context.limit <= e.model.limit
    BY <1>3, <1>6, LimitIsLeast
  <2>2. r.context.limit \in Nat BY <1>3, <1>6, LimitIsLeast
  <2>3. r.tokens \in Nat /\ ~ExceedsLimit(r.context, r.tokens) BY <1>1 DEF IsOwn
  <2> HIDE DEF r, e
  <2>4. r.context.limit > 0 => r.tokens <= r.context.limit BY <2>2, <2>3 DEF ExceedsLimit
  <2> QED BY <1>6, <2>1, <2>2, <2>3, <2>4
<1>8. r.model \in AcceptedNames(e.model)
  <2>1. AcceptsModel(r.context, r.model) BY <1>1 DEF IsOwn
  <2>2. AcceptedNames(e.model) # {} BY DEF AcceptedNames
  <2> QED BY <1>3, <2>1, <2>2 DEF AcceptsModel
<1> QED BY <1>3, <1>7, <1>8

\* An engine is that of the model its instance is bound to.
LEMMA OwnEngine ==
    ASSUME StepInv, RequestInv, EngineInv
    PROVE  RunsAsOwnModel
<1> SUFFICES ASSUME HasRuntime, engine # <<>>
             PROVE  LET e == EntryOf(Current)
                    IN  /\ engine[1].scheduler = e.deployment.scheduler
                        /\ engine[1].ddr \in {0, e.cache.ddr}
                        /\ LatencySource(Current) # "global" =>
                             engine[1].backend.model \in AcceptedNames(e.model)
  BY DEF RunsAsOwnModel
<1>1. PICK i \in Shards : engine = <<NewEngine(i, NewBackend(i))>> BY DEF EngineInv
<1>2. engine[1] = NewEngine(i, NewBackend(i)) BY <1>1
<1>3. /\ Current = i /\ engine[1].backend = NewBackend(i)
      /\ engine[1].scheduler = EntryOf(i).deployment.scheduler
      /\ engine[1].ddr \in {0, EntryOf(i).cache.ddr}
  BY <1>2 DEF NewEngine, Current
<1>4. LatencySource(i) # "global" => NewBackend(i).model \in AcceptedNames(EntryOf(i).model)
  <2>1. LatencySource(i) # "global" => NewBackend(i).model = InstanceLatency(i).model
    BY DEF NewBackend, ServingBackend
  <2> QED BY <2>1, ShardsAreBound
<1> QED BY <1>3, <1>4

-----------------------------------------------------------------------------
(* The theorems.                                                             *)

\* SetupInv holds in every state of the runner: the invariant the two theorems
\* below rest on.
THEOREM SetupInvariance == Spec => []SetupInv
<1>1. Init => SetupInv BY SetupInit
<1>2. SetupInv /\ [Next]_vars => SetupInv' BY SetupStep
<1> QED BY <1>1, <1>2, PTL DEF Spec

\* Whatever was kept from the instances and capacities before it, an instance is
\* simulated as the model it is bound to (contexts of inputs_for, backends of
\* backend_for, the ShapeMemo of its engine), for every configuration and trace.
THEOREM ServedAsBound == Spec => []ServedByOwnModel
<1>1. SetupInv => ServedByOwnModel
  BY OwnRequests, OwnEngine DEF SetupInv, ServedByOwnModel
<1> QED BY <1>1, SetupInvariance, PTL

\* What the constructors have checked does not fail in the replay, and what else
\* fails does so before rows of a capacity exist, except for a load of unknown bytes.
THEOREM FailsEarly == Spec => []FailsBeforeRowsExist
<1>1. SetupInv => FailsBeforeRowsExist BY DEF SetupInv
<1> QED BY <1>1, SetupInvariance, PTL

=========================================================================
