---------------------- MODULE ReplayTimelineProofs ----------------------
(***************************************************************************)
(* Proofs about ReplayTimeline: on a clock that represents every sum       *)
(* exactly (ClockUlp = 1), the TTFT decomposition closes for every set of  *)
(* requests, every schedule and every latency backend.                     *)
(*                                                                         *)
(* The invariant follows the time that is still to be attributed.  In the  *)
(* middle of an iteration the end of the link's last transfer plus all the *)
(* time no slice has been given yet (Reserve) ends before the iteration;   *)
(* between iterations every active request has been charged no more than   *)
(* it has lived.                                                           *)
(***************************************************************************)
EXTENDS ReplayTimeline, FiniteSetTheorems, TLAPS

Reserve == LinkStart + prefillLeft + kvLeft

\* A request has lived, at time t, at least as long as it was charged.
Covered(r, t) == start[r] <= now /\ Charged(r) <= t - start[r]

BetweenIterations ==
    phase = "idle" =>
        /\ batch = {}
        /\ linkFree <= now
        /\ \A r \in Active : Covered(r, now)

WithinIteration ==
    phase = "apply" =>
        /\ batch \subseteq Active
        /\ now <= finishMs
        /\ Reserve <= finishMs
        /\ \A r \in batch : Covered(r, now)
        /\ \A r \in Active \ batch : Covered(r, finishMs)

\* A request that was never scheduled has been charged all of its life, as
\* compute wait.
WaitSoFar ==
    \A r \in Requests : stage[r] = "waiting" =>
        computeWait[r] = (IF phase = "apply" /\ r \notin batch THEN finishMs ELSE now) - start[r]

Fresh == \A r \in Requests : stage[r] = "pending" => Charged(r) = 0

\* The link keeps no unfinished transfer of an earlier iteration.
LinkInv ==
    /\ \A t \in inFlight : t.end <= linkFree
    /\ phase = "apply" => Cardinality(Pruned) <= loads
    /\ depth <= loads

IInv ==
    /\ TypeOK
    /\ ResidualNonNegative
    /\ Fresh
    /\ BetweenIterations
    /\ WithinIteration
    /\ WaitSoFar
    /\ LinkInv

-----------------------------------------------------------------------------

\* On an exact clock a time is its own representation.
LEMMA ExactClock ==
    ASSUME ClockUlp = 1, NEW t \in Nat
    PROVE  OnClock(t) = t
  BY SMT DEF OnClock

LEMMA InitInv == Init => IInv
<1> SUFFICES ASSUME Init PROVE IInv
  OBVIOUS
<1>1. TypeOK
  BY FS_EmptySet, TimesAssumption, IterationsAssumption DEF Init, TypeOK, Zero
<1>2. LinkInv
  BY DEF Init, LinkInv
<1>3. ResidualNonNegative /\ WithinIteration
  BY DEF Init, ResidualNonNegative, WithinIteration
<1>4. Fresh /\ BetweenIterations /\ WaitSoFar
  BY TimesAssumption
  DEF Init, Fresh, BetweenIterations, WaitSoFar, Zero, Charged, Active
<1> QED
  BY <1>1, <1>2, <1>3, <1>4 DEF IInv

\* A request enters: all it is charged is what it has waited.
LEMMA ArriveInv ==
    ASSUME IInv, NEW r \in Requests, Arrive(r)
    PROVE  IInv'
<1> USE DEF IInv, Arrive, InitialWait, composed, link, iteration
<1>0. start[r] \in Nat /\ start[r] <= now /\ Charged(r) = 0 /\ stage[r] = "pending"
  BY TimesAssumption DEF TypeOK, Due, Pending, Fresh
<1>1. TypeOK'
  BY <1>0 DEF TypeOK
<1>2. ResidualNonNegative' /\ WithinIteration' /\ LinkInv'
  BY DEF ResidualNonNegative, WithinIteration, LinkInv, Pruned
<1>3. \A s \in Requests : s # r =>
          stage'[s] = stage[s] /\ Charged(s)' = Charged(s) /\ computeWait'[s] = computeWait[s]
  BY DEF TypeOK, Charged
<1>4. stage'[r] = "waiting" /\ Charged(r)' = now - start[r] /\ computeWait'[r] = now - start[r]
  <2>1. computeWait[r] = 0 /\ kvWait[r] = 0 /\ prefill[r] = 0
    BY <1>0 DEF TypeOK, Charged
  <2>2. computeWait'[r] = now - start[r] /\ kvWait'[r] = 0 /\ prefill'[r] = 0
    BY <2>1, <1>0 DEF TypeOK
  <2>3. stage'[r] = "waiting"
    BY DEF TypeOK
  <2> QED
    BY <2>2, <2>3, <1>0 DEF Charged, TypeOK
<1>5. Fresh'
  BY <1>3, <1>4 DEF Fresh
<1>6. BetweenIterations'
  <2>1. Active' = Active \cup {r}
    BY <1>3, <1>4 DEF Active
  <2>2. \A s \in Active' : start[s] <= now /\ Charged(s)' <= now - start[s]
    <3> TAKE s \in Active'
    <3>1. CASE s = r
      BY <3>1, <1>0, <1>4 DEF TypeOK
    <3>2. CASE s # r
      BY <3>2, <2>1, <1>3 DEF BetweenIterations, Covered, Active
    <3> QED
      BY <3>1, <3>2
  <2> QED
    BY <2>2 DEF BetweenIterations, Covered
<1>7. WaitSoFar'
  BY <1>3, <1>4 DEF WaitSoFar, BetweenIterations
<1> QED
  BY <1>1, <1>2, <1>5, <1>6, <1>7

LEMMA JumpInv ==
    ASSUME IInv, JumpToArrival
    PROVE  IInv'
<1> USE DEF IInv, JumpToArrival, composed, link, iteration, charges
<1>1. PICK r \in Pending : now' = start[r]
  OBVIOUS
<1>2. start[r] \in Nat /\ start[r] > now
  BY <1>1, TimesAssumption DEF TypeOK, Due, Pending
<1>3. TypeOK'
  BY <1>1, <1>2 DEF TypeOK
<1>4. Active' = {} /\ \A s \in Requests : stage[s] # "waiting"
  BY DEF Active
<1>5. ResidualNonNegative' /\ WithinIteration' /\ Fresh' /\ WaitSoFar'
  BY <1>4 DEF ResidualNonNegative, WithinIteration, Fresh, WaitSoFar, Charged
<1>6. BetweenIterations' /\ LinkInv'
  BY <1>1, <1>2, <1>4 DEF BetweenIterations, LinkInv, TypeOK
<1> QED
  BY <1>3, <1>5, <1>6

\* The composition of a request that is covered at its finish does not raise.
LEMMA ComposeCovered ==
    ASSUME TypeOK, NEW r \in Requests, NEW f \in Nat, NEW c \in Nat,
           c <= f - start[r], Compose(r, f, c)
    PROVE  /\ phase' = phase
           /\ ttft' \in [Requests -> Nat]
           /\ unattributed' \in [Requests -> Nat]
<1> DEFINE residual == (f - start[r]) - c
<1>1. start[r] \in Nat
  BY TimesAssumption DEF TypeOK
<1>2. residual \in Nat /\ ~(residual < 0)
  BY <1>1
<1>3. /\ unattributed' = [unattributed EXCEPT ![r] = residual]
      /\ ttft' = [ttft EXCEPT ![r] = c + residual]
      /\ UNCHANGED phase
  BY <1>2 DEF Compose
<1> QED
  BY <1>2, <1>3 DEF TypeOK

LEMMA FastFinishInv ==
    ASSUME IInv, NEW r \in Requests, FastFinish(r)
    PROVE  IInv'
<1> USE DEF IInv, FastFinish, charges, link, iteration
<1>0. r \in Active /\ Charged(r) \in Nat /\ Charged(r) <= now - start[r]
  BY DEF TypeOK, Active, Charged, BetweenIterations, Covered
<1>1. /\ phase' = phase
      /\ ttft' \in [Requests -> Nat]
      /\ unattributed' \in [Requests -> Nat]
  BY <1>0, ComposeCovered DEF TypeOK
<1>2. TypeOK'
  BY <1>1 DEF TypeOK
<1>3. Active' \subseteq Active /\ \A s \in Requests : Charged(s)' = Charged(s)
  BY DEF Active, Charged, TypeOK
<1>4. ResidualNonNegative' /\ WithinIteration' /\ LinkInv'
  BY <1>1 DEF ResidualNonNegative, WithinIteration, LinkInv, Pruned
<1>5. Fresh'
  BY <1>3 DEF Fresh, TypeOK
<1>6. BetweenIterations'
  <2>1. \A s \in Active' : start[s] <= now /\ Charged(s)' <= now - start[s]
    BY <1>3 DEF BetweenIterations, Covered, Active
  <2> QED
    BY <1>1, <2>1 DEF BetweenIterations, Covered
<1>7. WaitSoFar'
  BY <1>1 DEF WaitSoFar, TypeOK
<1> QED
  BY <1>2, <1>4, <1>5, <1>6, <1>7

\* A batch is chosen: those left out are charged its whole duration.
LEMMA BeginIterationInv ==
    ASSUME IInv, ClockUlp = 1,
           NEW chosen \in SUBSET Requests,
           NEW p \in PrefillMs, NEW k \in KvMs, NEW q \in QueueMs,
           BeginIteration(chosen, p, k, q)
    PROVE  IInv'
<1> USE DEF IInv, BeginIteration, Bystanders, composed
<1> DEFINE d == q + p + k
<1>0. p \in Nat /\ k \in Nat /\ q \in Nat /\ now \in Nat
  BY TimesAssumption DEF TypeOK
<1>1. finishMs' = now + d /\ finishMs' \in Nat
  BY <1>0, ExactClock
<1>2. TypeOK'
  BY <1>0, <1>1, IterationsAssumption DEF TypeOK
<1>3. \A r \in Requests :
          Charged(r)' = IF r \in Active \ chosen THEN Charged(r) + d ELSE Charged(r)
  BY <1>0 DEF TypeOK, Charged
<1>4. Active' = Active
  BY DEF Active
<1>5. Fresh'
  BY <1>3 DEF Fresh, Active
<1>6. WithinIteration'
  <2>1. Reserve' <= finishMs'
    BY <1>0, <1>1 DEF Reserve, LinkStart, MaxOf, BetweenIterations, TypeOK
  <2>2. \A r \in chosen : start[r] <= now /\ Charged(r)' <= now - start[r]
    BY <1>3 DEF BetweenIterations, Covered
  <2>3. \A r \in Active \ chosen : start[r] <= now /\ Charged(r)' <= finishMs' - start[r]
    <3> TAKE r \in Active \ chosen
    <3>0. r \in Requests
      BY DEF Active
    <3>1. Charged(r) \in Nat
      BY <3>0 DEF TypeOK, Charged
    <3>4. start[r] \in Nat
      BY <3>0, TimesAssumption DEF TypeOK
    <3>2. start[r] <= now /\ Charged(r) <= now - start[r]
      BY DEF BetweenIterations, Covered
    <3>3. Charged(r)' = Charged(r) + d
      BY <1>3 DEF Active
    <3> QED
      BY <3>1, <3>4, <3>2, <3>3, <1>0, <1>1
  <2> QED
    BY <1>0, <1>1, <1>4, <2>1, <2>2, <2>3 DEF WithinIteration, Covered, TypeOK
<1>7. WaitSoFar'
  <2> SUFFICES ASSUME NEW r \in Requests, stage[r] = "waiting"
               PROVE  computeWait'[r] = (IF r \notin chosen THEN finishMs' ELSE now) - start[r]
    BY DEF WaitSoFar
  <2>1. computeWait[r] = now - start[r] /\ start[r] \in Nat /\ r \in Active
    BY TimesAssumption DEF WaitSoFar, TypeOK, Active
  <2> QED
    BY <2>1, <1>0, <1>1 DEF TypeOK
<1>8. LinkInv'
  <2>1. {t \in inFlight : t.end > now} = {}
    BY DEF LinkInv, BetweenIterations, TypeOK
  <2>2. Pruned' = {}
    BY <2>1 DEF Pruned
  <2> QED
    BY <2>2, FS_EmptySet DEF LinkInv
<1>9. ResidualNonNegative' /\ BetweenIterations'
  BY DEF ResidualNonNegative, BetweenIterations
<1> QED
  BY <1>2, <1>5, <1>6, <1>7, <1>8, <1>9

\* A transfer of k ms, submitted now, ends after everything the link had, and
\* waits at most for what is left of the time of the iteration.
LEMMA SubmitLink ==
    ASSUME IInv, ClockUlp = 1, phase = "apply",
           NEW r \in Requests, NEW k \in Nat, Submit(r, k)
    PROVE  /\ linkFree' = LinkStart + k
           /\ kvWait' = [kvWait EXCEPT ![r] = @ + (LinkStart + k - now)]
           /\ LinkStart + k - now \in Nat
           /\ linkFree' \in Nat /\ loads' \in Nat /\ depth' \in Nat
           /\ inFlight' \subseteq [end : Nat, nth : Nat] /\ IsFiniteSet(inFlight')
           /\ \A t \in inFlight' : t.end <= linkFree'
           /\ Cardinality({t \in inFlight' : t.end > now}) <= loads'
           /\ depth' <= loads'
<1> USE DEF IInv
<1>0. now \in Nat /\ linkFree \in Nat /\ loads \in Nat /\ depth \in Nat /\ depth <= loads
  BY DEF TypeOK, LinkInv
<1>1. /\ LinkStart \in Nat /\ LinkStart + k \in Nat
      /\ LinkStart >= now /\ LinkStart >= linkFree
  BY <1>0 DEF LinkStart, MaxOf
<1>a. OnClock(LinkStart + k) = LinkStart + k
  BY <1>1, ExactClock
<1>2. linkFree' = LinkStart + k /\ loads' = loads + 1
  BY <1>a DEF Submit
<1>3. kvWait' = [kvWait EXCEPT ![r] = @ + (LinkStart + k - now)]
  <2>1. kvWait' = [kvWait EXCEPT ![r] = @ + (linkFree' - now)]
    BY DEF Submit
  <2>2. linkFree' - now = LinkStart + k - now
    BY <1>0, <1>1, <1>2
  <2> QED
    BY <2>1, <2>2, Zenon
<1>b. LinkStart + k - now \in Nat
  BY <1>0, <1>1 DEF LinkStart, MaxOf
<1> DEFINE new == [end |-> linkFree', nth |-> loads + 1]
<1>4. inFlight' = Pruned \cup (IF k > 0 THEN {new} ELSE {})
  BY <1>2 DEF Submit
<1>5. new \in [end : Nat, nth : Nat]
  BY <1>0, <1>1, <1>2
<1>6. IsFiniteSet(Pruned) /\ Cardinality(Pruned) \in Nat
      /\ Cardinality(Pruned) <= loads
  BY FS_Subset, FS_CardinalityType DEF Pruned, TypeOK, LinkInv
<1>7. IsFiniteSet(inFlight') /\ Cardinality(inFlight') \in Nat /\ Cardinality(inFlight') <= loads + 1
  <2>1. CASE k > 0
    <3>1. inFlight' = Pruned \cup {new}
      BY <1>4, <2>1
    <3>2. /\ IsFiniteSet(Pruned \cup {new})
          /\ Cardinality(Pruned \cup {new}) =
                 IF new \in Pruned THEN Cardinality(Pruned) ELSE Cardinality(Pruned) + 1
      BY <1>6, FS_AddElement
    <3> HIDE DEF new
    <3> QED
      BY <3>1, <3>2, <1>6, <1>0
  <2>2. CASE ~(k > 0)
    BY <2>2, <1>4, <1>6, <1>0
  <2> QED
    BY <2>1, <2>2
<1>8. inFlight' \subseteq [end : Nat, nth : Nat]
  BY <1>4, <1>5 DEF TypeOK, Pruned
<1>9. \A t \in inFlight' : t.end <= linkFree'
  <2> TAKE t \in inFlight'
  <2>1. CASE t \in Pruned
    <3>1. t.end \in Nat /\ t.end <= linkFree
      BY <2>1 DEF Pruned, LinkInv, TypeOK
    <3> QED
      BY <3>1, <1>0, <1>1, <1>2 DEF LinkStart, MaxOf
  <2>2. CASE t = new
    BY <2>2, <1>1, <1>2
  <2> QED
    BY <2>1, <2>2, <1>4
<1>10. Cardinality({t \in inFlight' : t.end > now}) <= loads'
  <2>1. {t \in inFlight' : t.end > now} \subseteq inFlight'
    OBVIOUS
  <2> QED
    BY <2>1, <1>7, <1>2, <1>0, FS_Subset, FS_CardinalityType
<1>11. depth' \in Nat /\ depth' <= loads'
  BY <1>7, <1>2, <1>0 DEF Submit, MaxOf
<1> QED
  BY <1>0, <1>1, <1>b, <1>2, <1>3, <1>7, <1>8, <1>9, <1>10, <1>11

\* A slice is applied: what it charges to its request comes out of the
\* reserve of the iteration, so the request is covered at the finish time.
LEMMA ApplySliceInv ==
    ASSUME IInv, ClockUlp = 1,
           NEW r \in Requests, NEW p \in 0..prefillLeft, NEW k \in 0..kvLeft,
           ApplySlice(r, p, k)
    PROVE  IInv'
<1> USE DEF IInv
<1>0. /\ phase = "apply" /\ r \in batch /\ batch' = batch \ {r}
      /\ p \in Nat /\ p <= prefillLeft /\ k \in Nat /\ k <= kvLeft
      /\ prefillLeft' = prefillLeft - p /\ prefillLeft' \in Nat
      /\ kvLeft' = kvLeft - k /\ kvLeft' \in Nat
      /\ prefill' = [prefill EXCEPT ![r] = @ + p]
      /\ UNCHANGED <<now, start, computeWait, finishMs, iterations>>
  BY DEF ApplySlice, TypeOK
<1>1. /\ now \in Nat /\ linkFree \in Nat /\ prefillLeft \in Nat /\ kvLeft \in Nat
      /\ finishMs \in Nat /\ start[r] \in Nat /\ computeWait[r] \in Nat
      /\ kvWait[r] \in Nat /\ prefill[r] \in Nat
  BY TimesAssumption DEF TypeOK
<1> DEFINE M == LinkStart
           M2 == MaxOf(now, linkFree')
<1>2. M \in Nat /\ M >= now /\ M >= linkFree /\ M + kvLeft + prefillLeft <= finishMs
  BY <1>0, <1>1 DEF LinkStart, MaxOf, WithinIteration, Reserve
\* The two ways a slice meets the link.
<1>3. \E e \in Nat :
          /\ e <= M + k - now
          /\ kvWait' = [kvWait EXCEPT ![r] = @ + e]
          /\ linkFree' \in Nat /\ loads' \in Nat /\ depth' \in Nat
          /\ MaxOf(now, linkFree') + kvLeft' <= M + kvLeft
          /\ inFlight' \subseteq [end : Nat, nth : Nat] /\ IsFiniteSet(inFlight')
          /\ \A t \in inFlight' : t.end <= linkFree'
          /\ Cardinality({t \in inFlight' : t.end > now}) <= loads'
          /\ depth' <= loads'
  <2>1. CASE Submit(r, k)
    <3>1. M + k - now \in Nat /\ linkFree' = M + k
          /\ kvWait' = [kvWait EXCEPT ![r] = @ + (M + k - now)]
      BY <2>1, <1>0, SubmitLink
    <3>2. MaxOf(now, linkFree') + kvLeft' <= M + kvLeft
      BY <3>1, <1>0, <1>1, <1>2 DEF LinkStart, MaxOf
    <3>3. M + k - now <= M + k - now
      BY <3>1
    <3> HIDE DEF M
    <3>4. /\ linkFree' \in Nat /\ loads' \in Nat /\ depth' \in Nat
          /\ inFlight' \subseteq [end : Nat, nth : Nat] /\ IsFiniteSet(inFlight')
          /\ \A t \in inFlight' : t.end <= linkFree'
          /\ Cardinality({t \in inFlight' : t.end > now}) <= loads'
          /\ depth' <= loads'
      BY <2>1, <1>0, SubmitLink
    <3> QED
      BY <3>1, <3>2, <3>3, <3>4
  <2>2. CASE k = 0 /\ UNCHANGED <<link, kvWait>>
    <3>1. UNCHANGED <<linkFree, inFlight, depth, loads, kvWait>>
      BY <2>2 DEF link
    <3>2. kvWait' = [kvWait EXCEPT ![r] = @ + 0]
      BY <3>1, <1>1 DEF TypeOK
    <3>3. 0 <= M + k - now
      BY <1>0, <1>1, <1>2
    <3>4. MaxOf(now, linkFree') + kvLeft' <= M + kvLeft
      BY <3>1, <2>2, <1>0, <1>1 DEF LinkStart, MaxOf
    <3>5. \A t \in inFlight : t.end <= linkFree
      BY DEF LinkInv
    <3>6. Cardinality({t \in inFlight : t.end > now}) <= loads /\ depth <= loads
      BY <1>0 DEF LinkInv, Pruned
    <3> QED
      BY <3>1, <3>2, <3>3, <3>4, <3>5, <3>6 DEF TypeOK
  <2> QED
    BY <2>1, <2>2 DEF ApplySlice
<1>4. PICK e \in Nat :
          /\ e <= M + k - now
          /\ kvWait' = [kvWait EXCEPT ![r] = @ + e]
          /\ linkFree' \in Nat /\ loads' \in Nat /\ depth' \in Nat
          /\ MaxOf(now, linkFree') + kvLeft' <= M + kvLeft
          /\ inFlight' \subseteq [end : Nat, nth : Nat] /\ IsFiniteSet(inFlight')
          /\ \A t \in inFlight' : t.end <= linkFree'
          /\ Cardinality({t \in inFlight' : t.end > now}) <= loads'
          /\ depth' <= loads'
  BY <1>3
<1>5. /\ kvWait'[r] = kvWait[r] + e /\ prefill'[r] = prefill[r] + p
      /\ kvWait' \in [Requests -> Nat] /\ prefill' \in [Requests -> Nat]
      /\ \A s \in Requests \ {r} : kvWait'[s] = kvWait[s] /\ prefill'[s] = prefill[s]
  BY <1>0, <1>1, <1>4 DEF TypeOK
<1> DEFINE charged == computeWait[r] + kvWait'[r] + prefill'[r]
<1>6. charged \in Nat /\ charged <= finishMs - start[r] /\ Charged(r)' = charged
  <2>1. Charged(r) <= now - start[r]
    BY <1>0 DEF WithinIteration, Covered
  <2>2. e + p <= finishMs - now
    BY <1>0, <1>1, <1>2, <1>4
  <2>3. charged = Charged(r) + (e + p)
    BY <1>5, <1>1, <1>4, <1>0 DEF Charged
  <2>4. charged \in Nat /\ Charged(r) \in Nat
    BY <1>5, <1>1, <1>0, <1>4 DEF Charged
  <2>5. Charged(r)' = charged
    BY <1>0 DEF Charged
  <2> QED
    BY <2>1, <2>2, <2>3, <2>4, <2>5, <1>0, <1>1, <1>4
<1>7. /\ phase' = "apply"
      /\ ttft' \in [Requests -> Nat] /\ unattributed' \in [Requests -> Nat]
      /\ \/ stage' = [stage EXCEPT ![r] = "running"]
         \/ stage' = [stage EXCEPT ![r] = "finished"]
  <2>1. CASE stage' = [stage EXCEPT ![r] = "running"] /\ UNCHANGED <<composed, phase>>
    BY <2>1, <1>0 DEF composed, TypeOK
  <2>2. CASE stage' = [stage EXCEPT ![r] = "finished"] /\ Compose(r, finishMs, charged)
    BY <2>2, <1>0, <1>1, <1>6, ComposeCovered
  <2> QED
    BY <2>1, <2>2 DEF ApplySlice
<1>8. /\ stage' \in [Requests -> {"pending", "waiting", "running", "finished"}]
      /\ stage'[r] # "pending" /\ stage'[r] # "waiting"
      /\ \A s \in Requests \ {r} : stage'[s] = stage[s]
  BY <1>7 DEF TypeOK
<1>9. TypeOK'
  BY <1>0, <1>4, <1>5, <1>7, <1>8 DEF TypeOK
<1>10. \A s \in Requests \ {r} : Charged(s)' = Charged(s)
  BY <1>0, <1>5 DEF Charged
<1>11. Fresh' /\ ResidualNonNegative' /\ BetweenIterations'
  BY <1>7, <1>8, <1>10 DEF Fresh, ResidualNonNegative, BetweenIterations
<1>12. WithinIteration'
  <2>1. batch' \subseteq Active'
    BY <1>0, <1>8 DEF WithinIteration, Active
  <2>2. Reserve' <= finishMs'
    <3>1. M2 \in Nat
      BY <1>1, <1>4 DEF LinkStart, MaxOf
    <3>2. M2 + kvLeft' <= M + kvLeft
      BY <1>4
    <3>3. Reserve' = M2 + prefillLeft' + kvLeft' /\ finishMs' = finishMs
      BY <1>0 DEF Reserve, LinkStart
    <3> HIDE DEF M, M2
    <3> QED
      BY <3>1, <3>2, <3>3, <1>0, <1>1, <1>2
  <2>3. \A s \in batch' : start[s] <= now /\ Charged(s)' <= now - start[s]
    BY <1>0, <1>10 DEF WithinIteration, Covered, TypeOK
  <2>4. \A s \in Active' \ batch' : start[s] <= now /\ Charged(s)' <= finishMs - start[s]
    <3> TAKE s \in Active' \ batch'
    <3>1. CASE s = r
      BY <3>1, <1>6, <1>0 DEF WithinIteration, Covered
    <3>2. CASE s # r
      <4>1. s \in Active \ batch /\ s \in Requests \ {r}
        BY <3>2, <1>0, <1>8 DEF Active
      <4> QED
        BY <4>1, <1>0, <1>10 DEF WithinIteration, Covered
    <3> QED
      BY <3>1, <3>2
  <2> QED
    BY <2>1, <2>2, <2>3, <2>4, <1>0 DEF WithinIteration, Covered
<1>13. WaitSoFar'
  BY <1>0, <1>7, <1>8 DEF WaitSoFar
<1>14. LinkInv'
  BY <1>0, <1>4 DEF LinkInv, Pruned
<1> QED
  BY <1>9, <1>11, <1>12, <1>13, <1>14

LEMMA EndIterationInv ==
    ASSUME IInv, EndIteration
    PROVE  IInv'
<1> USE DEF IInv, EndIteration, charges, composed, link
<1>1. TypeOK'
  BY DEF TypeOK
<1>2. ResidualNonNegative' /\ WithinIteration' /\ Fresh'
  BY DEF ResidualNonNegative, WithinIteration, Fresh, Charged
<1>3. BetweenIterations'
  <2>1. Active' = Active /\ \A r \in Requests : Charged(r)' = Charged(r)
    BY DEF Active, Charged
  <2>2. linkFree <= finishMs
    BY DEF WithinIteration, Reserve, LinkStart, MaxOf, TypeOK
  <2>3. \A r \in Active : start[r] <= finishMs /\ Charged(r) <= finishMs - start[r]
    <3> TAKE r \in Active
    <3>1. start[r] \in Nat /\ now \in Nat /\ finishMs \in Nat /\ r \in Active \ batch
      BY TimesAssumption DEF Active, TypeOK
    <3> QED
      BY <3>1 DEF WithinIteration, Covered
  <2> QED
    BY <2>1, <2>2, <2>3 DEF BetweenIterations, Covered, Active
<1>4. WaitSoFar'
  BY DEF WaitSoFar
<1>5. LinkInv'
  BY DEF LinkInv
<1> QED
  BY <1>1, <1>2, <1>3, <1>4, <1>5

LEMMA NextInv ==
    ASSUME ClockUlp = 1, IInv, [Next]_vars
    PROVE  IInv'
<1>1. CASE \E r \in Requests : Arrive(r)
  BY <1>1, ArriveInv
<1>2. CASE \E r \in Requests : FastFinish(r)
  BY <1>2, FastFinishInv
<1>3. CASE JumpToArrival
  BY <1>3, JumpInv
<1>4. CASE \E chosen \in SUBSET Requests, p \in PrefillMs, k \in KvMs, q \in QueueMs :
               BeginIteration(chosen, p, k, q)
  BY <1>4, BeginIterationInv
<1>5. CASE \E r \in Requests, p \in 0..prefillLeft, k \in 0..kvLeft : ApplySlice(r, p, k)
  BY <1>5, ApplySliceInv
<1>6. CASE EndIteration
  BY <1>6, EndIterationInv
<1>7. CASE UNCHANGED vars
  BY <1>7
  DEF vars, charges, composed, link, iteration, IInv, TypeOK, ResidualNonNegative, Fresh,
      BetweenIterations, WithinIteration, WaitSoFar, LinkInv, Active, Covered, Charged,
      Reserve, LinkStart, Pruned
<1> QED
  BY <1>1, <1>2, <1>3, <1>4, <1>5, <1>6, <1>7 DEF Next

\* On an exact clock, whatever the schedule and the backend, the invariant
\* holds in every state.
THEOREM Invariance ==
    ASSUME ClockUlp = 1
    PROVE  Spec => []IInv
<1>1. Init => IInv
  BY InitInv
<1>2. IInv /\ [Next]_vars => IInv'
  BY NextInv
<1> QED
  BY <1>1, <1>2, PTL DEF Spec

\* The variables keep their types: no wait, share or residual is ever negative.
THEOREM TypeCorrect ==
    ASSUME ClockUlp = 1
    PROVE  Spec => []TypeOK
<1>1. IInv => TypeOK
  BY DEF IInv
<1> QED
  BY <1>1, Invariance, PTL

\* The composer never raises "negative unattributed TTFT residual".
THEOREM TTFTCloses ==
    ASSUME ClockUlp = 1
    PROVE  Spec => []ResidualNonNegative
<1>1. IInv => ResidualNonNegative
  BY DEF IInv
<1> QED
  BY <1>1, Invariance, PTL

\* The shared KV link is idle whenever an iteration starts.
THEOREM LinkIdle ==
    ASSUME ClockUlp = 1
    PROVE  Spec => []LinkIdleBetweenIterations
<1>1. IInv => LinkIdleBetweenIterations
  BY DEF IInv, BetweenIterations, LinkIdleBetweenIterations
<1> QED
  BY <1>1, Invariance, PTL

\* The compute wait of a request before its first slice is all of its life.
THEOREM WaitExact ==
    ASSUME ClockUlp = 1
    PROVE  Spec => []WaitIsExact
<1>1. IInv => WaitIsExact
  BY DEF IInv, WaitSoFar, WaitIsExact
<1> QED
  BY <1>1, Invariance, PTL

\* The queue depth reported for an iteration counts transfers of it only.
THEOREM DepthBounded ==
    ASSUME ClockUlp = 1
    PROVE  Spec => []DepthWithinIteration
<1>1. IInv => DepthWithinIteration
  BY DEF IInv, LinkInv, DepthWithinIteration
<1> QED
  BY <1>1, Invariance, PTL

=========================================================================
