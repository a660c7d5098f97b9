---------------------------- MODULE MCSweepSetup ----------------------------
(* Experiments for TLC: one that is valid, with two instances of two models   *)
(* on one deployment, and what becomes of it when its parts are changed.      *)
EXTENDS SweepSetup

NoLoad    == [mode |-> "", fixed |-> 0, perToken |-> 0, perByte |-> 0, remote |-> 0]
TokenLoad == [NoLoad EXCEPT !.mode = "token_linear", !.perToken = 1]
ByteLoad  == [NoLoad EXCEPT !.mode = "byte_linear", !.perByte = 1]

Loads == {NoLoad, TokenLoad, ByteLoad, [TokenLoad EXCEPT !.remote = 1],
          [TokenLoad EXCEPT !.perByte = 1], [NoLoad EXCEPT !.fixed = 1]}

Latency(model, perToken, kv) ==
    [model |-> model, hardware |-> "h", intercept |-> 1, perToken |-> perToken, kv |-> kv]

Deployment ==
    [name |-> "d", limit |-> 0, scheduler |-> 8, prefillCP |-> 1, decodeCP |-> 1,
     speculative |-> TRUE, method |-> "mtp", drop |-> NotGiven, runtimeBlock |-> 0,
     pooling |-> TRUE, multiTier |-> FALSE, transfer |-> FALSE]

Cache == [block |-> 2, ddr |-> 3, enabled |-> TRUE, single |-> TRUE, multi |-> FALSE,
          ddrEnabled |-> TRUE, remote |-> FALSE, ssd |-> FALSE]

Model(name, family) ==
    [name |-> name, aliases |-> {name \o "'"}, tokenizer |-> "t", limit |-> 4, family |-> family,
     groups |-> {3}]

EntryA == [model |-> Model("A", "full_attention"), tokenizer |-> "t",
           latency |-> Latency("A", 1, TokenLoad), deployment |-> Deployment, cache |-> Cache]

EntryB == [model |-> Model("B", "hybrid"), tokenizer |-> "t",
           latency |-> Latency("B'", 2, NoLoad), deployment |-> Deployment, cache |-> Cache]

\* Another deployment, another cache, another model for A.
EntriesOfA ==
    {EntryA}
      \cup {[EntryA EXCEPT !.deployment = d] : d \in
              {[Deployment EXCEPT !.name = "e", !.scheduler = 4, !.prefillCP = 2],
               [Deployment EXCEPT !.name = "e", !.runtimeBlock = 4, !.drop = 0],
               [Deployment EXCEPT !.pooling = FALSE],
               [Deployment EXCEPT !.transfer = TRUE]}}
      \cup {[EntryA EXCEPT !.cache = c] : c \in
              {[Cache EXCEPT !.ddr = 0], [Cache EXCEPT !.multi = TRUE],
               [Cache EXCEPT !.ddrEnabled = FALSE]}}
      \cup {[EntryA EXCEPT !.cache.enabled = FALSE, !.deployment.pooling = FALSE],
            [EntryA EXCEPT !.cache.enabled = FALSE, !.cache.ddr = 0, !.deployment.pooling = FALSE]}
      \cup {[EntryA EXCEPT !.model = m] : m \in
              {Model("A", "mamba"), [Model("A", "hybrid") EXCEPT !.groups = {}],
               Model("A", "other"), Model("C", "full_attention"),
               [Model("A", "full_attention") EXCEPT !.tokenizer = "u"]}}
      \cup {[EntryA EXCEPT !.deployment.prefillCP = 2, !.model.family = "mamba"]}
      \cup {[EntryA EXCEPT !.latency = Latency(m, 1, kv)] : m \in {"A", "B"}, kv \in Loads}

Registry(a) == [name \in {"A", "B"} |-> IF name = "A" THEN a ELSE EntryB]

\* Instance 1 runs A and 2 runs B; "p" is a profile for A, "q" for B.
Table(m1, l1, m2, l2, kv) ==
    [items |-> [i \in 1..2 |-> IF i = 1 THEN [model |-> m1, latency |-> l1]
                               ELSE [model |-> m2, latency |-> l2]],
     latencies |-> [p \in {"p", "q"} |-> IF p = "p" THEN Latency("A'", 3, kv)
                                         ELSE Latency("A'", 4, NoLoad)]]

TableX == Table("A", "p", "B", "", TokenLoad)
Other  == Table("B", "", "A", "", TokenLoad)     \* the models exchanged

Tables == {Table("A", l, m, "", TokenLoad) : l \in {"", "p"}, m \in {"A", "B", "", "C"}}
            \cup {Table("A", "p", "B", "q", TokenLoad), Table("A", "p", "A", "q", TokenLoad),
                  Table("A", "r", "B", "", TokenLoad)}
            \cup {Table("A", "p", "B", "", kv) : kv \in Loads}

Request(i, m, n) == [instance |-> i, model |-> m, tokens |-> n]

Base == [mode |-> "capacity_sweep_streaming", targets |-> FALSE, capacities |-> <<2, 1>>,
         parallelInstances |-> FALSE, events |-> FALSE, eventCapacities |-> {},
         requireSorted |-> TRUE, cacheMode |-> "batch_aware_hbm_ddr_lru",
         registry |-> Registry(EntryA), latencyPath |-> "x", runtimePath |-> "",
         tables |-> [x |-> TableX, y |-> Other],
         backend |-> [name |-> "fitted_ttft", model |-> "A", hardware |-> "h", intercept |-> 2,
                      perToken |-> 1, perBatch |-> 0, perContext |-> 0, kv |-> NoLoad],
         scheduler |-> 6, run |-> <<>>, block |-> 2, promptLimit |-> 0,
         trace |-> <<Request(1, "A", 3), Request(2, "B'", 4), Request(1, "A'", 5)>>]

NoRegistry == [name \in {} |-> EntryA]

MCExperiments ==
    LET paths == {[Base EXCEPT !.registry = r, !.latencyPath = l, !.runtimePath = t, !.cacheMode = c] :
                    r \in {NoRegistry, Registry(EntryA)}, l \in {"", "x"}, t \in {"", "x", "y"},
                    c \in {"batch_aware_hbm_lru", "batch_aware_hbm_ddr_lru"}}
        serving == [Base.backend EXCEPT !.name = "serving_latency_profile"]
    IN  paths
      \cup {[Base EXCEPT !.latencyPath = "x", !.runtimePath = t, !.trace = <<Request(1, m, 1)>>] :
              t \in {"x", "y"}, m \in {"A", "B"}}
      \cup {[Base EXCEPT !.registry = Registry(a), !.cacheMode = c] :
              a \in EntriesOfA, c \in {"batch_aware_hbm_lru", "batch_aware_hbm_ddr_lru"}}
      \cup {[Base EXCEPT !.registry = Registry([EntryA EXCEPT !.latency = Latency("A", 1, kv)]),
                         !.tables["x"] = Table("A", "", "B", "", NoLoad)] : kv \in Loads}
      \cup {[Base EXCEPT !.tables["x"] = t, !.registry = r, !.cacheMode = c] :
              t \in Tables, r \in {NoRegistry, Registry(EntryA)},
              c \in {"batch_aware_hbm_lru", "batch_aware_hbm_ddr_lru"}}
      \cup {[Base EXCEPT !.latencyPath = "", !.registry = NoRegistry, !.backend = b,
                         !.cacheMode = "batch_aware_hbm_lru"] :
              b \in {[serving EXCEPT !.kv = kv] : kv \in Loads}
                      \cup {[Base.backend EXCEPT !.name = "formula", !.perBatch = 1, !.perContext = 1]}}
      \cup {[Base EXCEPT !.promptLimit = n, !.run = r] :
              n \in {0, 3}, r \in {<<>>} \cup {<<[name |-> m, model |-> EntryB.model, deployment |-> d,
                                                 block |-> 2]>> :
                                     m \in {"A", "B"}, d \in {Deployment, [Deployment EXCEPT !.limit = 3]}}}
      \cup {[Base EXCEPT !.trace = t] : t \in
              {<<Request(3, "A", 1)>>, <<Request(1, "B", 1)>>, <<Request(1, "A", 1), Request(2, "A", 1)>>, <<>>}}
      \cup {[Base EXCEPT !.latencyPath = l, !.runtimePath = "", !.registry = NoRegistry,
                         !.cacheMode = "batch_aware_hbm_lru", !.trace = <<Request(3, "A", 1)>>] :
              l \in {"", "x"}}
      \cup {[Base EXCEPT !.targets = TRUE], [Base EXCEPT !.capacities = <<1, 1>>],
            [Base EXCEPT !.events = TRUE], [Base EXCEPT !.requireSorted = FALSE],
            [Base EXCEPT !.events = TRUE, !.eventCapacities = {3}]}

\* Computing, computing and loading, loading only, and loading with no bytes known.
MCBatches ==
    LET Slice(p, t, b) == [prefill |-> p, before |-> 2, kvTokens |-> t, kvBytes |-> b]
    IN  {<<Slice(2, 0, 0)>>, <<Slice(2, 1, 2)>>, <<Slice(0, 1, 2)>>, <<Slice(0, 1, 0), Slice(2, 0, 0)>>}
=========================================================================
