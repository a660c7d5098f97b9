------------------------- MODULE ReplayTimeline -------------------------
(***************************************************************************)
(* Where the time of a request goes in the progressive timeline mode: the  *)
(* compute wait charged by the event loop (replay/event_loop.py), the KV   *)
(* load wait on the shared link (replay/kv_transfer.py), the share of the  *)
(* prefill compute (replay/metrics.py), and the composition of the TTFT    *)
(* at the finish of the request, which raises when these add up to more    *)
(* than the request has lived (replay/ttft.py).                            *)
(*                                                                         *)
(* The schedule is left open: an iteration may take any of the active      *)
(* requests, so what holds here holds for the schedules of BatchReplay.    *)
(* Times are integers.  ClockUlp is the spacing of the floating-point      *)
(* numbers at the magnitude of the clock, in the same unit: sums on the    *)
(* clock are rounded to it, durations and their sums are not.              *)
(***************************************************************************)
EXTENDS Integers, FiniteSets

CONSTANTS
    Requests,       \* requests routed to the instance
    Arrivals,       \* possible start_time_ms, representable on the clock
    PrefillMs,      \* prefill_compute_ms the backend may return
    KvMs,           \* kv_load_ms it may return
    QueueMs,        \* queue_ms it may return
    ClockUlp,       \* spacing of the clock
    MaxIterations   \* bound of the model

ASSUME TimesAssumption ==
    Arrivals \subseteq Nat /\ PrefillMs \subseteq Nat /\ KvMs \subseteq Nat /\ QueueMs \subseteq Nat
ASSUME ClockAssumption ==
    ClockUlp \in Nat \ {0} /\ \A t \in Arrivals : t % ClockUlp = 0
ASSUME IterationsAssumption == MaxIterations \in Nat

VARIABLES
    now,            \* now_ms
    start,          \* start_time_ms of each request
    stage,          \* "pending", "waiting" (never scheduled), "running", "finished"
    computeWait,    \* compute_wait_ms
    kvWait,         \* kv_load_wait_ms
    prefill,        \* prefill_compute_ms attributed to the request
    ttft,           \* composed TTFT, 0 before the finish
    unattributed,   \* its residual
    linkFree,       \* _next_available_time_ms of the link
    inFlight,       \* _unfinished_finish_times of the link, each with the number
                    \* of its submission in the iteration
    phase,          \* "idle", "apply" or "error"
    batch,          \* requests of the batch whose slice is not applied yet
    prefillLeft,    \* prefill time of the iteration no slice has been given yet
    kvLeft,         \* KV load time of the iteration no slice has been given yet
    finishMs,       \* finish_ms of the iteration
    depth,          \* kv_transfer_queue_depth_max of the iteration
    loads,          \* waiting_for_kv_load_count of the iteration
    iterations      \* iteration_id

link == <<linkFree, inFlight, depth, loads>>
iteration == <<batch, prefillLeft, kvLeft, finishMs>>
charges == <<computeWait, kvWait, prefill>>
composed == <<ttft, unattributed>>

vars == <<now, start, stage, charges, composed, link, phase, iteration, iterations>>

MaxOf(a, b) == IF a > b THEN a ELSE b

\* A time on the clock: the nearest representable one, ties to the even one.
OnClock(t) ==
    LET low  == t \div ClockUlp
        rest == t % ClockUlp
    IN  IF 2 * rest < ClockUlp \/ (2 * rest = ClockUlp /\ low % 2 = 0)
        THEN low * ClockUlp
        ELSE (low + 1) * ClockUlp

Active == {r \in Requests : stage[r] \in {"waiting", "running"}}
Charged(r) == computeWait[r] + kvWait[r] + prefill[r]

Zero == [r \in Requests |-> 0]

Init ==
    /\ now = 0
    /\ start \in [Requests -> Arrivals]
    /\ stage = [r \in Requests |-> "pending"]
    /\ computeWait = Zero
    /\ kvWait = Zero
    /\ prefill = Zero
    /\ ttft = Zero
    /\ unattributed = Zero
    /\ linkFree = 0
    /\ inFlight = {}
    /\ depth = 0
    /\ loads = 0
    /\ phase = "idle"
    /\ batch = {}
    /\ prefillLeft = 0
    /\ kvLeft = 0
    /\ finishMs = 0
    /\ iterations = 0

-----------------------------------------------------------------------------

Pending == {r \in Requests : stage[r] = "pending"}
Due == {r \in Pending : start[r] <= now}

\* Mutation: the wait before the first iteration boundary is not charged.
NoInitialWait(r) == start[r] - start[r]

\* _record_initial_compute_wait.
InitialWait(r) == now - start[r]

\* A request enters at the boundary of an iteration; what it has waited for it
\* is compute wait.
Arrive(r) ==
    /\ phase = "idle"
    /\ r \in Due
    /\ stage' = [stage EXCEPT ![r] = "waiting"]
    /\ computeWait' = [computeWait EXCEPT ![r] = @ + InitialWait(r)]
    /\ UNCHANGED <<now, start, kvWait, prefill, composed, link, phase, iteration, iterations>>

JumpToArrival ==
    /\ phase = "idle"
    /\ Active = {}
    /\ Due = {}
    /\ \E r \in Pending :
           /\ \A other \in Pending : start[r] <= start[other]
           /\ now' = start[r]
    /\ UNCHANGED <<start, stage, charges, composed, link, phase, iteration, iterations>>

\* RequestTTFTComposer: whatever is not accounted for is the residual; a
\* negative one raises and ends the replay.
Compose(r, finish, charged) ==
    LET residual == (finish - start[r]) - charged
    IN  IF residual < 0
        THEN phase' = "error" /\ UNCHANGED composed
        ELSE /\ unattributed' = [unattributed EXCEPT ![r] = residual]
             /\ ttft' = [ttft EXCEPT ![r] = charged + residual]
             /\ UNCHANGED phase

\* A zero-miss request finishes when the frontier looks it up.
FastFinish(r) ==
    /\ phase = "idle"
    /\ Due = {}
    /\ stage[r] = "waiting"
    /\ stage' = [stage EXCEPT ![r] = "finished"]
    /\ Compose(r, now, Charged(r))
    /\ UNCHANGED <<now, start, charges, link, iteration, iterations>>

\* Mutation: the scheduled requests are charged the wait as well.
Everybody(chosen) == Active \cup chosen

\* _record_iteration_compute_wait: who waits while the chosen ones run.
Bystanders(chosen) == Active \ chosen

\* The scheduler has chosen its batch and the backend has answered: everybody
\* else waits for the whole duration.
BeginIteration(chosen, p, k, q) ==
    /\ phase = "idle"
    /\ Due = {}
    /\ chosen # {}
    /\ chosen \subseteq Active
    /\ iterations < MaxIterations
    /\ phase' = "apply"
    /\ batch' = chosen
    /\ prefillLeft' = p
    /\ kvLeft' = k
    /\ finishMs' = OnClock(now + (q + p + k))
    /\ computeWait' = [r \in Requests |->
           IF r \in Bystanders(chosen) THEN computeWait[r] + (q + p + k) ELSE computeWait[r]]
    /\ depth' = 0
    /\ loads' = 0
    /\ iterations' = iterations + 1
    /\ UNCHANGED <<now, start, stage, kvWait, prefill, composed, linkFree, inFlight>>

\* Mutation: finished transfers stay in the queue.
NeverPruned == inFlight

\* _prune_completed.
Pruned == {t \in inFlight : t.end > now}

\* Mutation: the transfer is ready only when the link was last free.
LinkStartStale == linkFree

\* Mutation: the transfer starts after the compute of its iteration.
LinkStartLate == MaxOf(finishMs, linkFree)

LinkStart == MaxOf(now, linkFree)

\* SharedLinkFIFOTransferQueue.submit of a transfer that is ready now.
Submit(r, k) ==
    LET finish == OnClock(LinkStart + k)
    IN  /\ linkFree' = finish
        /\ loads' = loads + 1
        /\ inFlight' = Pruned \cup (IF k > 0 THEN {[end |-> finish, nth |-> loads + 1]} ELSE {})
        /\ depth' = MaxOf(depth, Cardinality(inFlight'))
        /\ kvWait' = [kvWait EXCEPT ![r] = @ + (finish - now)]

\* One slice of the batch is applied.  Its shares of the prefill and KV time
\* are proportional to its tokens; what matters here is that the prefill shares
\* of a batch add up to the whole and the KV shares do not exceed it.  Only the
\* first slice of a request can load KV, and a request finishes with its last
\* slice.
ApplySlice(r, p, k) ==
    /\ phase = "apply"
    /\ r \in batch
    /\ p <= prefillLeft
    /\ k <= kvLeft
    /\ batch = {r} => p = prefillLeft
    /\ batch' = batch \ {r}
    /\ prefillLeft' = prefillLeft - p
    /\ kvLeft' = kvLeft - k
    /\ prefill' = [prefill EXCEPT ![r] = @ + p]
    /\ \/ /\ stage[r] = "waiting"
          /\ Submit(r, k)
       \/ /\ k = 0
          /\ UNCHANGED <<link, kvWait>>
    /\ \/ /\ stage' = [stage EXCEPT ![r] = "running"]
          /\ UNCHANGED <<composed, phase>>
       \/ /\ stage' = [stage EXCEPT ![r] = "finished"]
          /\ Compose(r, finishMs, computeWait[r] + kvWait'[r] + prefill'[r])
    /\ UNCHANGED <<now, start, computeWait, finishMs, iterations>>

EndIteration ==
    /\ phase = "apply"
    /\ batch = {}
    /\ now' = finishMs
    /\ phase' = "idle"
    /\ prefillLeft' = 0
    /\ kvLeft' = 0
    /\ finishMs' = 0
    /\ UNCHANGED <<start, stage, charges, composed, link, batch, iterations>>

Next ==
    \/ \E r \in Requests : Arrive(r) \/ FastFinish(r)
    \/ JumpToArrival
    \/ \E chosen \in SUBSET Requests, p \in PrefillMs, k \in KvMs, q \in QueueMs :
           BeginIteration(chosen, p, k, q)
    \/ \E r \in Requests, p \in 0..prefillLeft, k \in 0..kvLeft : ApplySlice(r, p, k)
    \/ EndIteration

Spec == Init /\ [][Next]_vars

-----------------------------------------------------------------------------
(* Properties.                                                               *)

TypeOK ==
    /\ now \in Nat
    /\ start \in [Requests -> Arrivals]
    /\ stage \in [Requests -> {"pending", "waiting", "running", "finished"}]
    /\ computeWait \in [Requests -> Nat]
    /\ kvWait \in [Requests -> Nat]
    /\ prefill \in [Requests -> Nat]
    /\ ttft \in [Requests -> Nat]
    /\ unattributed \in [Requests -> Nat]
    /\ linkFree \in Nat
    /\ inFlight \subseteq [end : Nat, nth : Nat] /\ IsFiniteSet(inFlight)
    /\ depth \in Nat
    /\ loads \in Nat
    /\ phase \in {"idle", "apply", "error"}
    /\ batch \subseteq Requests
    /\ prefillLeft \in Nat
    /\ kvLeft \in Nat
    /\ finishMs \in Nat
    /\ iterations \in 0..MaxIterations

\* The TTFT decomposition closes: compute wait, KV wait and prefill share never
\* exceed what the request has lived ("negative unattributed TTFT residual" of
\* replay/ttft.py is never raised).
ResidualNonNegative == phase # "error"

\* The KV link is idle between iterations: no transfer of one iteration delays
\* a transfer of a later one, although the link keeps its own clock.
LinkIdleBetweenIterations == phase = "idle" => linkFree <= now

\* Until its first slice a request has waited, exactly, since its arrival: no
\* iteration is left out or charged twice, whatever it arrived in the middle of.
WaitIsExact ==
    phase = "idle" =>
        \A r \in Requests : stage[r] = "waiting" => computeWait[r] = now - start[r]

\* The queue depth reported for an iteration counts only transfers of that
\* iteration: there is nothing left over from earlier ones.
DepthWithinIteration == depth <= loads

=========================================================================
