-------------------------- MODULE LatencyBackends --------------------------
(* latency/: the backends that estimate one iteration from the shape of its *)
(* batch, the KV-load component of a serving profile, and the memo of an    *)
(* engine.  An option that is not given is NoText or 0.                     *)
EXTENDS Integers, Sequences
LOCAL INSTANCE Functions
LOCAL INSTANCE SequencesExt
LOCAL INSTANCE FiniteSetsExt

\* The empty string.
NoText == ""

\* Item assignment of a dictionary.
Put(f, key, item) == [k \in DOMAIN f \cup {key} |-> IF k = key THEN item ELSE f[k]]

-----------------------------------------------------------------------------
(* BatchShape: a slice is [prefill, before, kvTokens, kvBytes].              *)

SumOf(slices, Value(_)) == FoldSeq(LAMBDA s, total : total + Value(s), 0, slices)

KVLoads(slices) == SelectSeq(slices, LAMBDA s : s.kvTokens > 0 \/ s.kvBytes > 0)

Shape(slices) ==
    [batchSize  |-> Len(slices),
     prefill    |-> SumOf(slices, LAMBDA s : s.prefill),
     maxQuery   |-> Max({0} \cup {s.prefill : s \in Range(slices)}),
     context    |-> SumOf(slices, LAMBDA s : s.before),
     kvTokens   |-> SumOf(slices, LAMBDA s : s.kvTokens),
     kvBytes    |-> SumOf(slices, LAMBDA s : s.kvBytes),
     kvRequests |-> Len(KVLoads(slices))]

\* ScheduledSlice refuses a slice that neither computes nor loads.
SliceIsValid(s) == s.prefill > 0 \/ s.kvTokens > 0 \/ s.kvBytes > 0

-----------------------------------------------------------------------------
(* The KV-load component: [mode, fixed, perToken, perByte, remote].          *)

\* KVLoadLatencyProfile.from_mapping; a mode that is not given is zero.
KVLoadParses(kv) ==
    LET given == {kv.fixed, kv.perToken, kv.perByte} \ {0}
    IN  /\ kv.mode = NoText => given = {} /\ kv.remote = 0
        /\ kv.mode = "zero" => given = {}
        /\ kv.mode = "token_linear" => kv.perByte = 0
        /\ kv.mode = "byte_linear" => kv.perToken = 0

\* build_kv_load_component
KVLoadBuilds(kv) == kv.remote = 0

LoadActive(shape) == shape.kvRequests > 0 \/ shape.kvTokens > 0 \/ shape.kvBytes > 0

KVLoadMs(kv, shape) ==
    IF ~LoadActive(shape) THEN 0
    ELSE CASE kv.mode = "token_linear" -> kv.fixed + shape.kvTokens * kv.perToken
           [] kv.mode = "byte_linear"  -> kv.fixed + shape.kvBytes * kv.perByte
           [] OTHER -> 0

\* The byte-linear component raises when the bytes of what it loads are not known.
BytesUnknown(kv, shape) ==
    kv.mode = "byte_linear" /\ shape.kvTokens > 0 /\ shape.kvBytes = 0

-----------------------------------------------------------------------------
(* estimate_iteration of the backends: [name, model, hardware, intercept,    *)
(* perToken, perBatch, perContext, kv], the last three where they apply.     *)

FittedMs(b, shape) == b.intercept + b.perToken * shape.prefill

FormulaMs(b, shape) ==
    b.intercept + b.perToken * shape.prefill + b.perBatch * shape.batchSize
      + b.perContext * shape.context

\* An iteration that only loads costs no TTFT; no queue component is modelled.
ServingMs(b, shape) ==
    LET loadOnly == shape.prefill = 0 /\ shape.kvRequests > 0
    IN  (IF loadOnly THEN 0 ELSE FittedMs(b, shape)) + KVLoadMs(b.kv, shape)

Estimate(b, shape) ==
    CASE b.name = "fitted_ttft" -> FittedMs(b, shape)
      [] b.name = "formula" -> FormulaMs(b, shape)
      [] b.name = "serving_latency_profile" -> ServingMs(b, shape)

EstimateFails(b, shape) == b.name = "serving_latency_profile" /\ BytesUnknown(b.kv, shape)

-----------------------------------------------------------------------------
(* ShapeKey and ShapeMemo.  The coefficients of a backend are not in the key.*)

\* Mutation: the fields for KV loads are left out of the key.
KeyWithoutKVLoad(b, shape) ==
    <<b.name, b.model, b.hardware, shape.batchSize, shape.prefill, shape.maxQuery,
      shape.context>>

Key(b, shape) ==
    <<b.name, b.model, b.hardware, shape.batchSize, shape.prefill, shape.maxQuery,
      shape.context, shape.kvTokens, shape.kvBytes, shape.kvRequests>>

NoMemo == [key \in {} |-> 0]

\* get_or_compute: what the memo knows is not computed again.
GetOrCompute(memo, b, shape) ==
    LET key == Key(b, shape)
        ms  == IF key \in DOMAIN memo THEN memo[key] ELSE Estimate(b, shape)
    IN  [ms |-> ms, memo |-> Put(memo, key, ms)]
=========================================================================
