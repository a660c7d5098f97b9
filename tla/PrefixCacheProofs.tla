------------------------ MODULE PrefixCacheProofs ------------------------
(***************************************************************************)
(* Lemmas about selections of sequences, about counting their members, and *)
(* about the whole-call operators of PrefixCacheOps.  None is about a      *)
(* behaviour; the proof modules that extend this one cite them by name.    *)
(*                                                                         *)
(* The induction theorems of the library take a predicate as an operator,  *)
(* so induction is done here with sets: LeastElement is a consequence of   *)
(* the well-foundedness of strict inclusion on finite sets, and the other  *)
(* inductions are of a smallest counterexample.                            *)
(***************************************************************************)
EXTENDS PrefixCacheOps, FiniteSetTheorems, SequenceTheorems, WellFoundedInduction, TLAPS

-----------------------------------------------------------------------------
(* Induction without operator parameters.                                    *)

\* Every non-empty set of naturals has a least element.
LEMMA LeastElement ==
    ASSUME NEW S, S \subseteq Nat, S # {}
    PROVE  \E n \in S : \A m \in S : n <= m
<1> DEFINE Below == {1..n : n \in S}
<1>1. Below \subseteq FiniteSubsetsOf(Nat)
  <2> SUFFICES ASSUME NEW n \in S PROVE 1..n \in FiniteSubsetsOf(Nat)
    OBVIOUS
  <2>1. IsFiniteSet(1..n) BY FS_Interval
  <2> QED BY <2>1 DEF FiniteSubsetsOf
<1>2. Below # {} OBVIOUS
<1>3. PICK x \in Below : \A y \in Below : <<y, x>> \notin StrictSubsetOrdering(Nat)
  <2>1. IsWellFoundedOn(StrictSubsetOrdering(Nat), FiniteSubsetsOf(Nat))
    BY FS_StrictSubsetOrderingWellFounded
  <2> HIDE DEF Below
  <2> QED BY <1>1, <1>2, <2>1, WFMin
<1>4. PICK n \in S : x = 1..n OBVIOUS
<1>5. ASSUME NEW m \in S, m < n PROVE FALSE
  <2>1. <<1..m, 1..n>> \notin StrictSubsetOrdering(Nat) BY <1>3, <1>4
  <2>2. n \in 1..n /\ n \notin 1..m BY <1>5
  <2>3. 1..m \in SUBSET Nat /\ 1..n \in SUBSET Nat /\ 1..m \subseteq 1..n BY <1>5
  <2> QED BY <2>1, <2>2, <2>3 DEF StrictSubsetOrdering
<1> QED BY <1>5

\* A set that holds 0 and the successor of each of its members holds all of Nat.
LEMMA SetInduction ==
    ASSUME NEW S, 0 \in S, \A n \in Nat : n \in S => n + 1 \in S
    PROVE  \A n \in Nat : n \in S
<1> SUFFICES ASSUME Nat \ S # {} PROVE FALSE
  OBVIOUS
<1>1. PICK n \in Nat \ S : \A m \in Nat \ S : n <= m
  BY LeastElement
<1>2. n # 0 BY <1>1
<1>3. n - 1 \in Nat /\ n - 1 \in S BY <1>1, <1>2
<1> QED BY <1>1, <1>3

\* A loop over 1..limit stops somewhere: at the end, or before the first
\* position that is not in good.
LEMMA FirstFailure ==
    ASSUME NEW limit \in Nat, NEW good
    PROVE  \E n \in 0..limit : /\ \A i \in 1..n : i \in good
                               /\ n < limit => n + 1 \notin good
<1> DEFINE S == {n \in 0..limit : n < limit => n + 1 \notin good}
<1>1. S \subseteq Nat /\ limit \in S OBVIOUS
<1>2. PICK n \in S : \A m \in S : n <= m
  <2> HIDE DEF S
  <2> QED BY <1>1, LeastElement
<1>3. ASSUME NEW i \in 1..n, i \notin good PROVE FALSE
  <2>1. i - 1 \in S BY <1>3
  <2> QED BY <1>2, <1>3, <2>1
<1> QED BY <1>2, <1>3

\* f holds the values of a left fold of step over q.
IsFoldStep(step, A, B) == step \in [A \X B -> A]
IsFoldOf(f, A, q, base, step) ==
    /\ f \in [0..Len(q) -> A]
    /\ f[0] = base
    /\ \A n \in 1..Len(q) : f[n] = step[<<f[n - 1], q[n]>>]

\* The values of a left fold over a sequence exist as a function.
LEMMA FoldExists ==
    ASSUME NEW A, NEW B, NEW q \in Seq(B), NEW base \in A, NEW step, IsFoldStep(step, A, B)
    PROVE  \E f : IsFoldOf(f, A, q, base, step)
<1> USE DEF IsFoldStep
<1> DEFINE IsFold(f, m) == /\ f[0] = base
                           /\ \A n \in 1..m : f[n] = step[<<f[n - 1], q[n]>>]
           S == {m \in Nat : m <= Len(q) => \E f \in [0..m -> A] : IsFold(f, m)}
<1>1. 0 \in S
  <2>1. [i \in 0..0 |-> base] \in [0..0 -> A] /\ IsFold([i \in 0..0 |-> base], 0)
    OBVIOUS
  <2> QED BY <2>1
<1>2. ASSUME NEW m \in Nat, m \in S PROVE m + 1 \in S
  <2> SUFFICES ASSUME m + 1 <= Len(q)
               PROVE  \E f \in [0..(m + 1) -> A] : IsFold(f, m + 1)
    OBVIOUS
  <2>1. PICK f \in [0..m -> A] : IsFold(f, m) BY <1>2
  <2> DEFINE g == [i \in 0..(m + 1) |-> IF i = m + 1 THEN step[<<f[m], q[m + 1]>>] ELSE f[i]]
  <2>2. q[m + 1] \in B /\ <<f[m], q[m + 1]>> \in A \X B OBVIOUS
  <2>3. g \in [0..(m + 1) -> A] BY <2>2
  <2>4. ASSUME NEW n \in 1..(m + 1) PROVE g[n] = step[<<g[n - 1], q[n]>>]
    <3>1. CASE n = m + 1
      <4>1. g[n] = step[<<f[m], q[m + 1]>>] /\ g[n - 1] = f[m] BY <3>1
      <4> QED BY <3>1, <4>1
    <3>2. CASE n # m + 1
      <4>1. n \in 1..m /\ n - 1 \in 0..m BY <3>2
      <4>2. f[n] = step[<<f[n - 1], q[n]>>] BY <2>1, <4>1
      <4>3. g[n] = f[n] /\ g[n - 1] = f[n - 1] BY <4>1
      <4> QED BY <4>2, <4>3
    <3> QED BY <3>1, <3>2
  <2>5. g[0] = base BY <2>1
  <2> QED BY <2>3, <2>4, <2>5
<1>3. Len(q) \in S
  <2> HIDE DEF S
  <2>1. \A m \in Nat : m \in S BY <1>1, <1>2, SetInduction
  <2> QED BY <2>1
<1> QED BY <1>3 DEF IsFoldOf

-----------------------------------------------------------------------------
(* Keep: the members of a sequence that are in a set.                        *)

\* e is the position in q of each element of k: k is a subsequence of the
\* first m elements of q and has all of those that are in S.
Embeds(e, k, q, m, S) ==
    /\ e \in [1..Len(k) -> 1..m]
    /\ \A i, j \in 1..Len(k) : i < j => e[i] < e[j]
    /\ \A i \in 1..Len(k) : k[i] = q[e[i]] /\ q[e[i]] \in S
    /\ \A p \in 1..m : q[p] \in S => \E i \in 1..Len(k) : e[i] = p

\* g holds the selections from the prefixes of q.
IsKeepRun(g, q, S) ==
    g = [n \in 0..Len(q) |->
            IF n = 0 THEN <<>>
            ELSE IF q[n] \in S THEN Append(g[n - 1], q[n]) ELSE g[n - 1]]

\* The recursive function of Keep exists.
LEMMA KeepRuns ==
    ASSUME NEW B, NEW q \in Seq(B), NEW S
    PROVE  \E g : Keep(q, S) = g[Len(q)] /\ IsKeepRun(g, q, S)
<1> DEFINE A == Seq(B)
           base == <<>>
           step == [x \in A \X B |-> IF x[2] \in S THEN Append(x[1], x[2]) ELSE x[1]]
<1>1. IsFoldStep(step, A, B) /\ base \in A
  BY DEF IsFoldStep
<1>2. PICK f : IsFoldOf(f, A, q, base, step)
  <2> HIDE DEF A, base, step
  <2> QED BY <1>1, FoldExists
<1>3. IsKeepRun(f, q, S)
  <2>1. ASSUME NEW n \in 0..Len(q)
        PROVE  f[n] = IF n = 0 THEN <<>>
                      ELSE IF q[n] \in S THEN Append(f[n - 1], q[n]) ELSE f[n - 1]
    <3>1. CASE n = 0 BY <1>2, <3>1 DEF IsFoldOf
    <3>2. CASE n # 0
      <4>1. n \in 1..Len(q) /\ q[n] \in B /\ f[n - 1] \in Seq(B)
        BY <1>2, <3>2 DEF IsFoldOf
      <4>2. f[n] = step[<<f[n - 1], q[n]>>] BY <1>2, <4>1 DEF IsFoldOf
      <4> QED BY <3>2, <4>1, <4>2
    <3> QED BY <3>1, <3>2
  <2>2. f \in [0..Len(q) -> A] BY <1>2 DEF IsFoldOf
  <2> QED BY <2>1, <2>2 DEF IsKeepRun
<1>4. IsKeepRun(CHOOSE g : IsKeepRun(g, q, S), q, S)
  BY <1>3
<1>5. Keep(q, S) = (CHOOSE g : IsKeepRun(g, q, S))[Len(q)]
  BY DEF Keep, IsKeepRun
<1> QED BY <1>4, <1>5

LEMMA EmbedsAppend ==
    ASSUME NEW B, NEW q \in Seq(B), NEW S, NEW m \in Nat, m + 1 <= Len(q),
           NEW k \in Seq(B), NEW e, Embeds(e, k, q, m, S), q[m + 1] \in S
    PROVE  \E d : Embeds(d, Append(k, q[m + 1]), q, m + 1, S)
<1>1. PICK l \in Nat : l = Len(k) OBVIOUS
<1>2. /\ e \in [1..l -> 1..m]
      /\ \A i, j \in 1..l : i < j => e[i] < e[j]
      /\ \A i \in 1..l : k[i] = q[e[i]] /\ q[e[i]] \in S
      /\ \A p \in 1..m : q[p] \in S => \E i \in 1..l : e[i] = p
  BY <1>1 DEF Embeds
<1>3. PICK a : a = Append(k, q[m + 1]) OBVIOUS
<1>4. Len(a) = l + 1 /\ a[l + 1] = q[m + 1] /\ \A i \in 1..l : a[i] = k[i]
  <2>1. q[m + 1] \in B OBVIOUS
  <2> QED BY <1>1, <1>3, <2>1
<1>5. PICK d : d = [i \in 1..(l + 1) |-> IF i = l + 1 THEN m + 1 ELSE e[i]] OBVIOUS
<1>6. d[l + 1] = m + 1 /\ \A i \in 1..l : d[i] = e[i] /\ d[i] \in 1..m
  BY <1>2, <1>5
<1>7. d \in [1..(l + 1) -> 1..(m + 1)]
  <2>1. ASSUME NEW i \in 1..(l + 1) PROVE d[i] \in 1..(m + 1)
    <3>1. CASE i = l + 1 BY <1>6, <3>1
    <3>2. CASE i # l + 1
      <4>1. i \in 1..l BY <3>2
      <4>2. d[i] \in 1..m BY <4>1, <1>6
      <4> QED BY <4>2
    <3> QED BY <3>1, <3>2
  <2> QED BY <1>5, <2>1
<1>8. ASSUME NEW i \in 1..(l + 1), NEW j \in 1..(l + 1), i < j PROVE d[i] < d[j]
  <2>1. i \in 1..l /\ d[i] = e[i] /\ d[i] \in 1..m BY <1>6, <1>8
  <2>2. CASE j = l + 1 BY <1>6, <2>1, <2>2
  <2>3. CASE j # l + 1
    <3>1. j \in 1..l BY <2>3
    <3> QED BY <1>2, <1>6, <1>8, <2>1, <3>1
  <2> QED BY <2>2, <2>3
<1>9. ASSUME NEW i \in 1..(l + 1) PROVE a[i] = q[d[i]] /\ q[d[i]] \in S
  <2>1. CASE i = l + 1 BY <1>4, <1>6, <2>1
  <2>2. CASE i # l + 1
    <3>1. i \in 1..l BY <2>2
    <3> QED BY <1>2, <1>4, <1>6, <3>1
  <2> QED BY <2>1, <2>2
<1>10. ASSUME NEW p \in 1..(m + 1), q[p] \in S PROVE \E i \in 1..(l + 1) : d[i] = p
  <2>1. CASE p = m + 1 BY <1>6, <2>1
  <2>2. CASE p # m + 1
    <3>1. p \in 1..m BY <2>2
    <3>2. PICK i \in 1..l : e[i] = p BY <1>2, <1>10, <3>1
    <3>3. i \in 1..(l + 1) /\ d[i] = p BY <1>6, <3>2
    <3> QED BY <3>3
  <2> QED BY <2>1, <2>2
<1>11. Embeds(d, a, q, m + 1, S)
  BY <1>4, <1>7, <1>8, <1>9, <1>10 DEF Embeds
<1> QED BY <1>3, <1>11

LEMMA KeepEmbeds ==
    ASSUME NEW B, NEW q \in Seq(B), NEW S
    PROVE  /\ Keep(q, S) \in Seq(B)
           /\ \E e : Embeds(e, Keep(q, S), q, Len(q), S)
<1>0. PICK g : Keep(q, S) = g[Len(q)] /\ IsKeepRun(g, q, S) BY KeepRuns
<1>1. /\ Keep(q, S) = g[Len(q)]
      /\ g = [n \in 0..Len(q) |->
                 IF n = 0 THEN <<>>
                 ELSE IF q[n] \in S THEN Append(g[n - 1], q[n]) ELSE g[n - 1]]
  BY <1>0 DEF IsKeepRun
<1> DEFINE Good == {m \in Nat : m <= Len(q) =>
                        g[m] \in Seq(B) /\ \E e : Embeds(e, g[m], q, m, S)}
<1>2. 0 \in Good
  <2>1. g[0] = <<>> BY <1>1
  <2>2. Embeds(<<>>, <<>>, q, 0, S) BY DEF Embeds
  <2>3. <<>> \in Seq(B) OBVIOUS
  <2> QED BY <2>1, <2>2, <2>3
<1>3. ASSUME NEW m \in Nat, m \in Good PROVE m + 1 \in Good
  <2> SUFFICES ASSUME m + 1 <= Len(q)
               PROVE  g[m + 1] \in Seq(B) /\ \E e : Embeds(e, g[m + 1], q, m + 1, S)
    OBVIOUS
  <2>1. g[m] \in Seq(B) BY <1>3
  <2>2. PICK e : Embeds(e, g[m], q, m, S) BY <1>3
  <2>3. q[m + 1] \in B OBVIOUS
  <2>4. CASE q[m + 1] \notin S
    <3>1. g[m + 1] = g[m]
      <4>1. m + 1 \in 0..Len(q) /\ m + 1 # 0 /\ (m + 1) - 1 = m OBVIOUS
      <4> QED BY <1>1, <2>4, <4>1
    <3>2. Embeds(e, g[m], q, m + 1, S)
      <4>1. e \in [1..Len(g[m]) -> 1..(m + 1)] BY <2>2 DEF Embeds
      <4>2. \A p \in 1..(m + 1) : q[p] \in S => p \in 1..m BY <2>4
      <4> QED BY <2>2, <4>1, <4>2 DEF Embeds
    <3> QED BY <2>1, <3>1, <3>2
  <2>5. CASE q[m + 1] \in S
    <3>1. g[m + 1] = Append(g[m], q[m + 1])
      <4>1. m + 1 \in 0..Len(q) /\ m + 1 # 0 /\ (m + 1) - 1 = m OBVIOUS
      <4> QED BY <1>1, <2>5, <4>1
    <3>2. g[m + 1] \in Seq(B) BY <2>1, <2>3, <3>1
    <3>3. \E d : Embeds(d, Append(g[m], q[m + 1]), q, m + 1, S)
      BY <2>1, <2>2, <2>5, EmbedsAppend
    <3> QED BY <3>1, <3>2, <3>3
  <2> QED BY <2>4, <2>5
<1>4. Len(q) \in Good
  <2> HIDE DEF Good
  <2>1. \A m \in Nat : m \in Good BY <1>2, <1>3, SetInduction
  <2> QED BY <2>1
<1> QED BY <1>1, <1>4

\* What Keep keeps: no more and no less than the members of S.
LEMMA KeepMembers ==
    ASSUME NEW B, NEW q \in Seq(B), NEW S
    PROVE  /\ Keep(q, S) \in Seq(B)
           /\ Len(Keep(q, S)) <= Len(q)
           /\ Resident(Keep(q, S)) = Resident(q) \cap S
<1>1. PICK k \in Seq(B) : k = Keep(q, S) BY KeepEmbeds
<1>2. PICK e : Embeds(e, k, q, Len(q), S) BY <1>1, KeepEmbeds
<1>3. PICK l \in Nat, n \in Nat : l = Len(k) /\ n = Len(q) OBVIOUS
<1>4. /\ e \in [1..l -> 1..n]
      /\ \A i, j \in 1..l : i < j => e[i] < e[j]
      /\ \A i \in 1..l : k[i] = q[e[i]] /\ q[e[i]] \in S
      /\ \A p \in 1..n : q[p] \in S => \E i \in 1..l : e[i] = p
  BY <1>2, <1>3 DEF Embeds
<1>5. DOMAIN k = 1..l /\ DOMAIN q = 1..n BY <1>3
<1>6. Resident(k) = Resident(q) \cap S
  <2>1. ASSUME NEW x \in Resident(k) PROVE x \in Resident(q) \cap S
    <3>1. PICK i \in 1..l : x = k[i] BY <1>5 DEF Resident
    <3>2. e[i] \in 1..n /\ x = q[e[i]] /\ x \in S BY <1>4, <3>1
    <3> QED BY <1>5, <3>2 DEF Resident
  <2>2. ASSUME NEW x \in Resident(q), x \in S PROVE x \in Resident(k)
    <3>1. PICK p \in 1..n : x = q[p] BY <1>5 DEF Resident
    <3>2. PICK i \in 1..l : e[i] = p BY <1>4, <2>2, <3>1
    <3>3. x = k[i] BY <1>4, <3>1, <3>2
    <3> QED BY <1>5, <3>3 DEF Resident
  <2> QED BY <2>1, <2>2
<1>7. l <= n
  <2>1. e \in Injection(1..l, 1..n)
    <3>1. \A i, j \in 1..l : e[i] = e[j] => i = j
      <4> SUFFICES ASSUME NEW i \in 1..l, NEW j \in 1..l, e[i] = e[j], i # j PROVE FALSE
        OBVIOUS
      <4>1. i < j \/ j < i OBVIOUS
      <4>2. e[i] < e[j] \/ e[j] < e[i] BY <1>4, <4>1
      <4>3. e[i] \in Nat /\ e[j] \in Nat BY <1>4
      <4> QED BY <4>2, <4>3
    <3> QED BY <1>4, <3>1 DEF Injection, IsInjective
  <2>2. IsFiniteSet(1..n) /\ Cardinality(1..n) = n /\ Cardinality(1..l) = l
    BY FS_Interval
  <2>3. Cardinality(1..l) <= Cardinality(1..n) BY <2>1, <2>2, FS_Injection
  <2> QED BY <2>2, <2>3
<1> QED BY <1>1, <1>3, <1>6, <1>7

\* A selection in two parts, the first of which comes first in q.
LEMMA KeepUnion ==
    ASSUME NEW B, NEW q \in Seq(B), NEW S, NEW T,
           \A i, j \in 1..Len(q) : q[i] \in S /\ q[j] \in T => i < j
    PROVE  Keep(q, S \cup T) = Keep(q, S) \o Keep(q, T)
<1> DEFINE n == Len(q)
<1>1. n \in Nat OBVIOUS
<1>g. PICK g : Keep(q, S \cup T) = g[Len(q)] /\ IsKeepRun(g, q, S \cup T)
  BY KeepRuns
<1>s. PICK s : Keep(q, S) = s[Len(q)] /\ IsKeepRun(s, q, S) BY KeepRuns
<1>t. PICK t : Keep(q, T) = t[Len(q)] /\ IsKeepRun(t, q, T) BY KeepRuns
<1>2. /\ Keep(q, S \cup T) = g[n]
      /\ g = [m \in 0..n |->
                 IF m = 0 THEN <<>>
                 ELSE IF q[m] \in S \cup T THEN Append(g[m - 1], q[m]) ELSE g[m - 1]]
  BY <1>g DEF IsKeepRun
<1>3. /\ Keep(q, S) = s[n]
      /\ s = [m \in 0..n |->
                 IF m = 0 THEN <<>>
                 ELSE IF q[m] \in S THEN Append(s[m - 1], q[m]) ELSE s[m - 1]]
  BY <1>s DEF IsKeepRun
<1>4. /\ Keep(q, T) = t[n]
      /\ t = [m \in 0..n |->
                 IF m = 0 THEN <<>>
                 ELSE IF q[m] \in T THEN Append(t[m - 1], q[m]) ELSE t[m - 1]]
  BY <1>t DEF IsKeepRun
<1>5. \A m \in 1..n : q[m] \in B OBVIOUS
<1> HIDE DEF n
<1> DEFINE Splits(m) == /\ s[m] \in Seq(B) /\ t[m] \in Seq(B)
                        /\ g[m] = s[m] \o t[m]
                        /\ t[m] # <<>> => \E j \in 1..m : q[j] \in T
           Good == {m \in Nat : m <= n => Splits(m)}
<1>6. 0 \in Good
  <2>1. g[0] = <<>> /\ s[0] = <<>> /\ t[0] = <<>> BY <1>1, <1>2, <1>3, <1>4
  <2>2. <<>> \in Seq(B) /\ <<>> \o <<>> = <<>> OBVIOUS
  <2> QED BY <2>1, <2>2
<1>7. ASSUME NEW m \in Nat, m \in Good PROVE m + 1 \in Good
  <2> HIDE DEF Splits
  <2> SUFFICES ASSUME m + 1 <= n PROVE Splits(m + 1)
    OBVIOUS
  <2> USE DEF Splits
  <2>1. /\ s[m] \in Seq(B) /\ t[m] \in Seq(B) /\ g[m] = s[m] \o t[m]
        /\ t[m] # <<>> => \E j \in 1..m : q[j] \in T
    <3>1. Splits(m)
      <4> HIDE DEF Splits
      <4> QED BY <1>1, <1>7
    <3> QED BY <3>1
  <2>2. m + 1 \in 0..n /\ m + 1 # 0 /\ (m + 1) - 1 = m /\ m + 1 \in 1..n BY <1>1
  <2> DEFINE x == q[m + 1]
  <2>3. x \in B BY <1>5, <2>2
  <2>4. g[m + 1] = IF x \in S \cup T THEN Append(g[m], x) ELSE g[m] BY <1>2, <2>2
  <2>5. s[m + 1] = IF x \in S THEN Append(s[m], x) ELSE s[m] BY <1>3, <2>2
  <2>6. t[m + 1] = IF x \in T THEN Append(t[m], x) ELSE t[m] BY <1>4, <2>2
  <2>7. ~(x \in S /\ x \in T) BY <1>1, <2>2 DEF n
  <2>8. x \in S => t[m] = <<>>
    <3> SUFFICES ASSUME x \in S, t[m] # <<>> PROVE FALSE
      OBVIOUS
    <3>1. PICK j \in 1..m : q[j] \in T BY <2>1
    <3>2. j \in 1..Len(q) /\ m + 1 \in 1..Len(q) BY <1>1, <2>2, <3>1 DEF n
    <3>3. m + 1 < j BY <3>1, <3>2
    <3> QED BY <3>1, <3>3
  <2> HIDE DEF x
  <2>9. CASE x \in S
    <3>1. s[m + 1] = Append(s[m], x) /\ t[m + 1] = <<>> /\ g[m + 1] = Append(g[m], x)
      BY <2>4, <2>5, <2>6, <2>7, <2>8, <2>9
    <3>2. g[m] = s[m] BY <2>1, <2>8, <2>9, ConcatEmptySeq
    <3>3. Append(s[m], x) \in Seq(B) BY <2>1, <2>3
    <3>4. Append(s[m], x) \o <<>> = Append(s[m], x) BY <3>3, ConcatEmptySeq
    <3>5. <<>> \in Seq(B) OBVIOUS
    <3> QED BY <3>1, <3>2, <3>3, <3>4, <3>5
  <2>10. CASE x \in T
    <3>1. s[m + 1] = s[m] /\ t[m + 1] = Append(t[m], x) /\ g[m + 1] = Append(s[m] \o t[m], x)
      BY <2>1, <2>4, <2>5, <2>6, <2>7, <2>10
    <3> DEFINE a == s[m]
               b == t[m]
    <3>2. a \in Seq(B) /\ b \in Seq(B) /\ <<x>> \in Seq(B) BY <2>1, <2>3
    <3>3. Append(a \o b, x) = a \o Append(b, x)
      <4> HIDE DEF a, b
      <4>1. a \o b \in Seq(B) BY <3>2, ConcatProperties
      <4>2. Append(b, x) = b \o <<x>> BY <2>3, <3>2, AppendIsConcat
      <4>3. Append(a \o b, x) = (a \o b) \o <<x>> BY <2>3, <4>1, AppendIsConcat
      <4>4. (a \o b) \o <<x>> = a \o (b \o <<x>>) BY <3>2, ConcatAssociative
      <4> QED BY <4>2, <4>3, <4>4
    <3>4. Append(t[m], x) \in Seq(B) BY <2>1, <2>3
    <3>5. m + 1 \in 1..(m + 1) /\ q[m + 1] \in T BY <2>10 DEF x
    <3> QED BY <2>1, <3>1, <3>3, <3>4, <3>5
  <2>11. CASE x \notin S /\ x \notin T
    <3>1. s[m + 1] = s[m] /\ t[m + 1] = t[m] /\ g[m + 1] = g[m]
      BY <2>4, <2>5, <2>6, <2>11
    <3>2. \A j \in 1..m : j \in 1..(m + 1) OBVIOUS
    <3> QED BY <2>1, <3>1, <3>2
  <2> QED BY <2>9, <2>10, <2>11
<1>8. n \in Good
  <2> HIDE DEF Good
  <2>1. \A m \in Nat : m \in Good BY <1>6, <1>7, SetInduction
  <2> QED BY <1>1, <2>1
<1>9. g[n] = s[n] \o t[n]
  <2>1. Splits(n)
    <3> HIDE DEF Splits
    <3> QED BY <1>1, <1>8
  <2> QED BY <2>1
<1> QED BY <1>2, <1>3, <1>4, <1>9

-----------------------------------------------------------------------------
(* The calls of a block cache.                                               *)

LEMMA ResidentConcat ==
    ASSUME NEW K, NEW s \in Seq(K), NEW t \in Seq(K)
    PROVE  Resident(s \o t) = Resident(s) \cup Resident(t)
<1>1. /\ DOMAIN (s \o t) = 1..(Len(s) + Len(t))
      /\ \A i \in 1..Len(s) : (s \o t)[i] = s[i]
      /\ \A i \in 1..Len(t) : (s \o t)[Len(s) + i] = t[i]
      /\ DOMAIN s = 1..Len(s) /\ DOMAIN t = 1..Len(t)
      /\ Len(s) \in Nat /\ Len(t) \in Nat
  OBVIOUS
<1>2. ASSUME NEW x \in Resident(s \o t) PROVE x \in Resident(s) \cup Resident(t)
  <2>1. PICK i \in 1..(Len(s) + Len(t)) : x = (s \o t)[i] BY <1>1 DEF Resident
  <2>2. CASE i \in 1..Len(s) BY <1>1, <2>1, <2>2 DEF Resident
  <2>3. CASE i \notin 1..Len(s)
    <3>1. PICK j \in 1..Len(t) : i = Len(s) + j
      <4>1. i - Len(s) \in 1..Len(t) /\ i = Len(s) + (i - Len(s)) BY <1>1, <2>3
      <4> QED BY <4>1
    <3> QED BY <1>1, <2>1, <3>1 DEF Resident
  <2> QED BY <2>2, <2>3
<1>3. Resident(s) \subseteq Resident(s \o t)
  <2> SUFFICES ASSUME NEW i \in 1..Len(s) PROVE s[i] \in Resident(s \o t)
    BY <1>1 DEF Resident
  <2>1. i \in 1..(Len(s) + Len(t)) BY <1>1
  <2> QED BY <1>1, <2>1 DEF Resident
<1>4. Resident(t) \subseteq Resident(s \o t)
  <2> SUFFICES ASSUME NEW i \in 1..Len(t) PROVE t[i] \in Resident(s \o t)
    BY <1>1 DEF Resident
  <2>1. Len(s) + i \in 1..(Len(s) + Len(t)) BY <1>1
  <2> QED BY <1>1, <2>1 DEF Resident
<1> QED BY <1>2, <1>3, <1>4

\* A touch adds the touched blocks and removes none.
LEMMA TouchResident ==
    ASSUME NEW K, NEW lru \in Seq(K), NEW ks \in Seq(K)
    PROVE  /\ Touch(lru, ks) \in Seq(K)
           /\ Resident(Touch(lru, ks)) = Resident(lru) \cup Resident(ks)
<1> DEFINE others == Resident(lru) \ Resident(ks)
<1>1. PICK k \in Seq(K) : k = Keep(lru, others) BY KeepMembers
<1>2. Resident(k) = Resident(lru) \cap others BY <1>1, KeepMembers
<1>3. Touch(lru, ks) = k \o ks BY <1>1 DEF Touch
<1>4. k \o ks \in Seq(K) OBVIOUS
<1>5. Resident(k \o ks) = Resident(k) \cup Resident(ks) BY ResidentConcat
<1> QED BY <1>2, <1>3, <1>4, <1>5

\* What CHOOSE picks in HitCount exists: the hits are a prefix, and it is the
\* longest one.
LEMMA HitCountLongest ==
    ASSUME NEW K, NEW ks \in Seq(K), NEW lru
    PROVE  /\ HitCount(lru, ks) \in 0..Len(ks)
           /\ \A i \in 1..HitCount(lru, ks) : ks[i] \in Resident(lru)
           /\ HitCount(lru, ks) < Len(ks) => ks[HitCount(lru, ks) + 1] \notin Resident(lru)
<1> DEFINE good == {i \in 1..Len(ks) : ks[i] \in Resident(lru)}
           Longest(n) == /\ \A i \in 1..n : ks[i] \in Resident(lru)
                         /\ n < Len(ks) => ks[n + 1] \notin Resident(lru)
<1>1. PICK n \in 0..Len(ks) : /\ \A i \in 1..n : i \in good
                              /\ n < Len(ks) => n + 1 \notin good
  <2>1. Len(ks) \in Nat OBVIOUS
  <2> HIDE DEF good
  <2> QED BY <2>1, FirstFailure
<1>2. Longest(n) BY <1>1
<1>3. HitCount(lru, ks) = CHOOSE m \in 0..Len(ks) : Longest(m) BY DEF HitCount
<1>4. HitCount(lru, ks) \in 0..Len(ks) /\ Longest(HitCount(lru, ks))
  <2> HIDE DEF Longest
  <2> QED BY <1>2, <1>3
<1> QED BY <1>4

LEMMA SubSeqResident ==
    ASSUME NEW K, NEW s \in Seq(K), NEW m \in Int, NEW n \in Int, 1 <= m, n <= Len(s)
    PROVE  /\ SubSeq(s, m, n) \in Seq(K)
           /\ Resident(SubSeq(s, m, n)) \subseteq Resident(s)
           /\ \A x \in Resident(SubSeq(s, m, n)) : \E i \in m..n : x = s[i]
<1>1. CASE n < m
  <2>1. SubSeq(s, m, n) = <<>> BY <1>1
  <2>2. Resident(<<>>) = {} BY DEF Resident
  <2>3. <<>> \in Seq(K) OBVIOUS
  <2> QED BY <2>1, <2>2, <2>3
<1>2. CASE m <= n
  <2>1. PICK l \in Nat : l = n - m + 1 BY <1>2
  <2>2. PICK t \in Seq(K) : t = SubSeq(s, m, n)
    <3>1. \A i \in m..n : s[i] \in K BY <1>2
    <3> QED BY <3>1, SubSeqProperties
  <2>3. Len(t) = l /\ DOMAIN t = 1..l /\ \A i \in 1..l : t[i] = s[m + i - 1]
    BY <1>2, <2>1, <2>2
  <2>4. ASSUME NEW x \in Resident(t) PROVE \E i \in m..n : x = s[i]
    <3>1. PICK i \in 1..l : x = t[i] BY <2>3 DEF Resident
    <3>2. m + i - 1 \in m..n BY <2>1
    <3> QED BY <2>3, <3>1, <3>2
  <2>5. \A i \in m..n : s[i] \in Resident(s) BY DEF Resident
  <2> QED BY <2>2, <2>4, <2>5
<1> QED BY <1>1, <1>2

\* A lookup never changes what is resident.
LEMMA LookupResident ==
    ASSUME NEW K, NEW lru \in Seq(K), NEW ks \in Seq(K)
    PROVE  /\ AfterLookup(lru, ks) \in Seq(K)
           /\ Resident(AfterLookup(lru, ks)) = Resident(lru)
<1>1. PICK h \in 0..Len(ks) : h = HitCount(lru, ks) BY HitCountLongest
<1>2. \A i \in 1..h : ks[i] \in Resident(lru) BY <1>1, HitCountLongest
<1>3. PICK t \in Seq(K) : t = SubSeq(ks, 1, h)
  <2>1. 1 \in Int /\ h \in Int /\ 1 <= 1 /\ h <= Len(ks) OBVIOUS
  <2> QED BY <2>1, SubSeqResident
<1>4. Resident(t) \subseteq Resident(lru)
  <2>1. 1 \in Int /\ h \in Int /\ 1 <= 1 /\ h <= Len(ks) OBVIOUS
  <2>2. \A x \in Resident(t) : \E i \in 1..h : x = ks[i] BY <1>3, <2>1, SubSeqResident
  <2> QED BY <1>2, <2>2
<1>5. AfterLookup(lru, ks) = Touch(lru, t) BY <1>1, <1>3 DEF AfterLookup
<1>6. Touch(lru, t) \in Seq(K) /\ Resident(Touch(lru, t)) = Resident(lru) \cup Resident(t)
  BY TouchResident
<1> QED BY <1>4, <1>5, <1>6

\* A store brings in no block but those stored.
LEMMA StoreResident ==
    ASSUME NEW K, NEW lru \in Seq(K), NEW ks \in Seq(K), NEW capacity \in Nat
    PROVE  /\ AfterStore(lru, ks, capacity) \in Seq(K)
           /\ Resident(AfterStore(lru, ks, capacity)) \subseteq Resident(lru) \cup Resident(ks)
<1>1. PICK all \in Seq(K) : all = Touch(lru, ks) BY TouchResident
<1>2. PICK size \in Nat : size = IF Len(all) < capacity THEN Len(all) ELSE capacity
  OBVIOUS
<1>3. 1 <= Len(all) - size + 1 /\ Len(all) - size + 1 \in Int /\ Len(all) \in Int
  BY <1>2
<1>4. AfterStore(lru, ks, capacity) = SubSeq(all, Len(all) - size + 1, Len(all))
  BY <1>1, <1>2 DEF AfterStore
<1>5. PICK m \in Int : m = Len(all) - size + 1 BY <1>3
<1>6. /\ SubSeq(all, m, Len(all)) \in Seq(K)
      /\ Resident(SubSeq(all, m, Len(all))) \subseteq Resident(all)
  BY <1>3, <1>5, SubSeqResident
<1> QED BY <1>1, <1>4, <1>5, <1>6, TouchResident

-----------------------------------------------------------------------------
(* Keep, one element at a time and piece by piece.                           *)

LEMMA KeepNone == \A S : Keep(<<>>, S) = <<>>
<1> SUFFICES ASSUME NEW S PROVE Keep(<<>>, S) = <<>>
  OBVIOUS
<1>1. PICK q \in Seq(Nat) : q = <<>>
  <2>1. <<>> \in Seq(Nat) OBVIOUS
  <2> QED BY <2>1
<1>2. PICK g : Keep(q, S) = g[Len(q)] /\ IsKeepRun(g, q, S) BY KeepRuns
<1>3. Len(q) = 0 BY <1>1
<1>4. 0 \in 0..Len(q) BY <1>3
<1> QED BY <1>1, <1>2, <1>3, <1>4 DEF IsKeepRun

LEMMA KeepAppend ==
    ASSUME NEW B, NEW q \in Seq(B), NEW x \in B, NEW S
    PROVE  Keep(Append(q, x), S) = IF x \in S THEN Append(Keep(q, S), x) ELSE Keep(q, S)
<1>1. PICK n \in Nat : n = Len(q) OBVIOUS
<1>2. PICK a \in Seq(B) : a = Append(q, x) BY AppendProperties
<1>3. Len(a) = n + 1 /\ a[n + 1] = x /\ \A i \in 1..n : a[i] = q[i]
  BY <1>1, <1>2, AppendProperties
<1>4. PICK s : /\ Keep(q, S) = s[n]
               /\ s = [m \in 0..n |->
                          IF m = 0 THEN <<>>
                          ELSE IF q[m] \in S THEN Append(s[m - 1], q[m])
                                             ELSE s[m - 1]]
  <2>1. PICK s : Keep(q, S) = s[Len(q)] /\ IsKeepRun(s, q, S) BY KeepRuns
  <2> QED BY <1>1, <2>1 DEF IsKeepRun
<1>5. PICK t : /\ Keep(a, S) = t[n + 1]
               /\ t = [m \in 0..(n + 1) |->
                          IF m = 0 THEN <<>>
                          ELSE IF a[m] \in S THEN Append(t[m - 1], a[m])
                                             ELSE t[m - 1]]
  <2>1. PICK t : Keep(a, S) = t[Len(a)] /\ IsKeepRun(t, a, S) BY KeepRuns
  <2> QED BY <1>3, <2>1 DEF IsKeepRun
<1> DEFINE Good == {m \in Nat : m <= n => t[m] = s[m]}
<1>6. 0 \in Good BY <1>4, <1>5
<1>7. ASSUME NEW m \in Nat, m \in Good PROVE m + 1 \in Good
  <2> SUFFICES ASSUME m + 1 <= n PROVE t[m + 1] = s[m + 1]
    OBVIOUS
  <2>1. m + 1 \in 0..n /\ m + 1 \in 0..(n + 1) /\ m + 1 # 0 /\ (m + 1) - 1 = m
        /\ m + 1 \in 1..n
    OBVIOUS
  <2>2. t[m] = s[m] /\ a[m + 1] = q[m + 1] BY <1>3, <1>7, <2>1
  <2>3. s[m + 1] = IF q[m + 1] \in S THEN Append(s[m], q[m + 1]) ELSE s[m] BY <1>4, <2>1
  <2>4. t[m + 1] = IF a[m + 1] \in S THEN Append(t[m], a[m + 1]) ELSE t[m] BY <1>5, <2>1
  <2> QED BY <2>2, <2>3, <2>4
<1>8. t[n] = s[n]
  <2>1. \A m \in Nat : m \in Good
    <3> HIDE DEF Good
    <3> QED BY <1>6, <1>7, SetInduction
  <2> QED BY <2>1
<1>9. t[n + 1] = IF x \in S THEN Append(t[n], x) ELSE t[n]
  <2>1. n + 1 \in 0..(n + 1) /\ n + 1 # 0 /\ (n + 1) - 1 = n OBVIOUS
  <2> QED BY <1>3, <1>5, <2>1
<1> QED BY <1>2, <1>4, <1>5, <1>8, <1>9

\* q is p with x at its end.
EndsWith(q, p, x) == q = Append(p, x) /\ Resident(q) = Resident(p) \cup {x}

\* A non-empty sequence is its front and its last element.
LEMMA FrontAndLast ==
    ASSUME NEW B, NEW q \in Seq(B), NEW n \in Nat, Len(q) = n + 1
    PROVE  \E p \in Seq(B), x \in B : Len(p) = n /\ EndsWith(q, p, x)
<1>1. PICK x \in B : x = q[n + 1] OBVIOUS
<1>2. PICK p \in Seq(B) : p = SubSeq(q, 1, n)
  <2>1. 1 \in Int /\ n \in Int /\ 1 <= 1 /\ n <= Len(q) OBVIOUS
  <2> QED BY <2>1, SubSeqResident
<1>3. Len(p) = n /\ \A i \in 1..n : p[i] = q[i] BY <1>2
<1>4. q = Append(p, x)
  <2>1. Append(p, x) \in Seq(B) /\ Len(Append(p, x)) = n + 1 BY <1>3
  <2>2. \A i \in 1..(n + 1) : q[i] = Append(p, x)[i] BY <1>1, <1>3
  <2> QED BY <2>1, <2>2, SeqEqual
<1>5. Resident(Append(p, x)) = Resident(p) \cup {x}
  <2>1. Append(p, x) = p \o <<x>> /\ <<x>> \in Seq(B) BY AppendIsConcat
  <2>2. Resident(<<x>>) = {x} BY DEF Resident
  <2>3. PICK w \in Seq(B) : w = <<x>> BY <2>1
  <2>4. Resident(p \o w) = Resident(p) \cup Resident(w) BY ResidentConcat
  <2> QED BY <2>1, <2>2, <2>3, <2>4
<1> QED BY <1>3, <1>4, <1>5 DEF EndsWith

LEMMA AppendConcat ==
    ASSUME NEW B, NEW p \in Seq(B), NEW q \in Seq(B), NEW x \in B
    PROVE  p \o Append(q, x) = Append(p \o q, x)
<1>1. Append(q, x) = q \o <<x>> /\ <<x>> \in Seq(B) BY AppendIsConcat
<1>2. p \o q \in Seq(B) OBVIOUS
<1>3. Append(p \o q, x) = (p \o q) \o <<x>> BY <1>2, AppendIsConcat
<1>4. p \o (q \o <<x>>) = (p \o q) \o <<x>> BY <1>1, ConcatAssociative
<1> QED BY <1>1, <1>3, <1>4

LEMMA KeepConcat ==
    ASSUME NEW B, NEW p \in Seq(B), NEW q \in Seq(B), NEW S
    PROVE  Keep(p \o q, S) = Keep(p, S) \o Keep(q, S)
<1> DEFINE Good == {n \in Nat : \A t \in Seq(B) :
                        Len(t) = n => Keep(p \o t, S) = Keep(p, S) \o Keep(t, S)}
<1>0. PICK k \in Seq(B) : k = Keep(p, S) BY KeepMembers
<1>1. 0 \in Good
  <2> SUFFICES ASSUME NEW t \in Seq(B), Len(t) = 0
               PROVE  Keep(p \o t, S) = Keep(p, S) \o Keep(t, S)
    OBVIOUS
  <2>1. t = <<>> BY EmptySeq
  <2>2. p \o <<>> = p /\ k \o <<>> = k BY ConcatEmptySeq
  <2>3. Keep(<<>>, S) = <<>> BY KeepNone
  <2> QED BY <1>0, <2>1, <2>2, <2>3
<1>2. ASSUME NEW n \in Nat, n \in Good PROVE n + 1 \in Good
  <2> SUFFICES ASSUME NEW t \in Seq(B), Len(t) = n + 1
               PROVE  Keep(p \o t, S) = Keep(p, S) \o Keep(t, S)
    OBVIOUS
  <2>0. PICK u \in Seq(B), x \in B : Len(u) = n /\ EndsWith(t, u, x)
    BY FrontAndLast
  <2>1. Len(u) = n /\ t = Append(u, x) /\ Resident(t) = Resident(u) \cup {x}
    BY <2>0 DEF EndsWith
  <2>2. PICK m \in Seq(B) : m = Keep(u, S) BY KeepMembers
  <2>3. PICK c \in Seq(B) : c = p \o u BY ConcatProperties
  <2>4. Keep(c, S) = k \o m BY <1>0, <1>2, <2>1, <2>2, <2>3
  <2>5. p \o t = Append(c, x) BY <2>1, <2>3, AppendConcat
  <2>6. Keep(t, S) = IF x \in S THEN Append(m, x) ELSE m BY <2>1, <2>2, KeepAppend
  <2>7. Keep(Append(c, x), S) = IF x \in S THEN Append(k \o m, x) ELSE k \o m
    BY <2>4, KeepAppend
  <2>8. k \o Append(m, x) = Append(k \o m, x) BY AppendConcat
  <2> QED BY <1>0, <2>5, <2>6, <2>7, <2>8
<1>3. Len(q) \in Good
  <2> HIDE DEF Good
  <2>1. \A n \in Nat : n \in Good BY <1>1, <1>2, SetInduction
  <2> QED BY <2>1
<1> QED BY <1>3

\* Selecting twice is selecting the common members.
LEMMA KeepKeep ==
    ASSUME NEW B, NEW q \in Seq(B), NEW S, NEW T
    PROVE  Keep(Keep(q, S), T) = Keep(q, S \cap T)
<1> DEFINE Twice(t) == Keep(Keep(t, S), T) = Keep(t, S \cap T)
           Good == {n \in Nat : \A t \in Seq(B) : Len(t) = n => Twice(t)}
<1>1. 0 \in Good
  <2> SUFFICES ASSUME NEW t \in Seq(B), Len(t) = 0
               PROVE  Keep(Keep(t, S), T) = Keep(t, S \cap T)
    OBVIOUS
  <2>1. t = <<>> BY EmptySeq
  <2> QED BY <2>1, KeepNone
<1>2. ASSUME NEW n \in Nat, n \in Good PROVE n + 1 \in Good
  <2> HIDE DEF Twice
  <2> SUFFICES ASSUME NEW t \in Seq(B), Len(t) = n + 1 PROVE Twice(t)
    OBVIOUS
  <2> USE DEF Twice
  <2>0. PICK u \in Seq(B), x \in B : Len(u) = n /\ EndsWith(t, u, x)
    BY FrontAndLast
  <2>1. Len(u) = n /\ t = Append(u, x) /\ Resident(t) = Resident(u) \cup {x}
    BY <2>0 DEF EndsWith
  <2>2. PICK m \in Seq(B) : m = Keep(u, S) BY KeepMembers
  <2>3. Keep(m, T) = Keep(u, S \cap T)
    <3>1. Twice(u)
      <4> HIDE DEF Twice
      <4> QED BY <1>2, <2>1
    <3> QED BY <2>2, <3>1
  <2>4. Keep(t, S) = IF x \in S THEN Append(m, x) ELSE m BY <2>1, <2>2, KeepAppend
  <2>5. Keep(t, S \cap T) = IF x \in S \cap T THEN Append(Keep(m, T), x) ELSE Keep(m, T)
    <3>1. PICK R : R = S \cap T OBVIOUS
    <3>2. Keep(t, R) = IF x \in R THEN Append(Keep(u, R), x) ELSE Keep(u, R)
      BY <2>1, KeepAppend
    <3> QED BY <2>3, <3>1, <3>2
  <2>6. Keep(Append(m, x), T) = IF x \in T THEN Append(Keep(m, T), x) ELSE Keep(m, T)
    BY KeepAppend
  <2> QED BY <2>4, <2>5, <2>6
<1>3. Len(q) \in Good
  <2> HIDE DEF Good
  <2>1. \A n \in Nat : n \in Good BY <1>1, <1>2, SetInduction
  <2> QED BY <2>1
<1> QED BY <1>3

\* Selecting all the members changes nothing.
LEMMA KeepAll ==
    ASSUME NEW B, NEW q \in Seq(B), NEW S, Resident(q) \subseteq S
    PROVE  Keep(q, S) = q
<1> DEFINE Good == {n \in Nat : \A t \in Seq(B) :
                        Len(t) = n /\ Resident(t) \subseteq S => Keep(t, S) = t}
<1>1. 0 \in Good
  <2> SUFFICES ASSUME NEW t \in Seq(B), Len(t) = 0
               PROVE  Keep(t, S) = t
    OBVIOUS
  <2>1. t = <<>> BY EmptySeq
  <2> QED BY <2>1, KeepNone
<1>2. ASSUME NEW n \in Nat, n \in Good PROVE n + 1 \in Good
  <2> SUFFICES ASSUME NEW t \in Seq(B), Len(t) = n + 1, Resident(t) \subseteq S
               PROVE  Keep(t, S) = t
    OBVIOUS
  <2>0. PICK u \in Seq(B), x \in B : Len(u) = n /\ EndsWith(t, u, x)
    BY FrontAndLast
  <2>1. Len(u) = n /\ t = Append(u, x) /\ Resident(t) = Resident(u) \cup {x}
    BY <2>0 DEF EndsWith
  <2>2. Keep(u, S) = u BY <1>2, <2>1
  <2> QED BY <2>1, <2>2, KeepAppend
<1>3. Len(q) \in Good
  <2> HIDE DEF Good
  <2>1. \A n \in Nat : n \in Good BY <1>1, <1>2, SetInduction
  <2> QED BY <2>1
<1> QED BY <1>3

\* Only the members of a sequence matter in what is selected from it.
LEMMA KeepSame ==
    ASSUME NEW B, NEW q \in Seq(B), NEW S, NEW T,
           S \cap Resident(q) = T \cap Resident(q)
    PROVE  Keep(q, S) = Keep(q, T)
<1>1. Keep(q, Resident(q)) = q BY KeepAll
<1>2. Keep(q, Resident(q) \cap S) = Keep(q, S) BY <1>1, KeepKeep
<1>3. Keep(q, Resident(q) \cap T) = Keep(q, T) BY <1>1, KeepKeep
<1>4. Resident(q) \cap S = Resident(q) \cap T OBVIOUS
<1> QED BY <1>2, <1>3, <1>4

\* Touching one more block: it leaves its place and comes last.
LEMMA TouchOneMore ==
    ASSUME NEW K, NEW lru \in Seq(K), NEW ks \in Seq(K), NEW k \in K, k \notin Resident(ks)
    PROVE  Touch(lru, Append(ks, k)) = Append(Keep(Touch(lru, ks), K \ {k}), k)
<1>1. PICK t : t = Keep(lru, Resident(lru) \ Resident(ks)) OBVIOUS
<1>2. t \in Seq(K) BY <1>1, KeepMembers
<1>3. Resident(Append(ks, k)) = Resident(ks) \cup {k}
  <2>0. <<k>> \in Seq(K) OBVIOUS
  <2>1. PICK w \in Seq(K) : w = <<k>> BY <2>0
  <2>2. Append(ks, k) = ks \o w BY <2>1, AppendIsConcat
  <2>3. Resident(w) = {k} BY <2>1 DEF Resident
  <2>4. Resident(ks \o w) = Resident(ks) \cup Resident(w) BY ResidentConcat
  <2> QED BY <2>2, <2>3, <2>4
<1>4. Keep(lru, Resident(lru) \ Resident(Append(ks, k))) = Keep(t, K \ {k})
  <2>1. (Resident(lru) \ Resident(ks)) \cap (K \ {k})
            = (Resident(lru) \ Resident(Append(ks, k))) \cap K
    BY <1>3
  <2>2. Resident(lru) \subseteq K BY DEF Resident
  <2>3. (Resident(lru) \ Resident(ks)) \cap (K \ {k}) = Resident(lru) \ Resident(Append(ks, k))
    BY <2>1, <2>2
  <2> QED BY <1>1, <2>3, KeepKeep
<1>5. Keep(ks, K \ {k}) = ks
  <2>1. Resident(ks) \subseteq K BY DEF Resident
  <2> QED BY <2>1, KeepAll
<1>6. Keep(t \o ks, K \ {k}) = Keep(t, K \ {k}) \o ks
  <2>1. Keep(t \o ks, K \ {k}) = Keep(t, K \ {k}) \o Keep(ks, K \ {k}) BY <1>2, KeepConcat
  <2> QED BY <1>5, <2>1
<1>7. PICK u \in Seq(K) : u = Keep(t, K \ {k}) BY <1>2, KeepMembers
<1>8. u \o Append(ks, k) = Append(u \o ks, k) BY AppendConcat
<1> QED BY <1>1, <1>4, <1>6, <1>7, <1>8 DEF Touch

-----------------------------------------------------------------------------
(* Lists of distinct members.                                                *)

Distinct(q) == \A m, n \in DOMAIN q : q[m] = q[n] => m = n

LEMMA DistinctConcat ==
    ASSUME NEW B, NEW p \in Seq(B), NEW q \in Seq(B), Distinct(p), Distinct(q),
           Resident(p) \cap Resident(q) = {}
    PROVE  Distinct(p \o q)
<1> SUFFICES ASSUME NEW m \in DOMAIN (p \o q), NEW n \in DOMAIN (p \o q),
                    (p \o q)[m] = (p \o q)[n]
             PROVE  m = n
  BY DEF Distinct
<1>1. PICK a \in Nat : a = Len(p) OBVIOUS
<1>2. PICK b \in Nat : b = Len(q) OBVIOUS
<1>3. m \in 1..(a + b) /\ n \in 1..(a + b) BY <1>1, <1>2
<1>4. \A i \in 1..(a + b) : (p \o q)[i] = IF i <= a THEN p[i] ELSE q[i - a]
  BY <1>1, <1>2
<1>5. \A i \in 1..a : i \in DOMAIN p /\ p[i] \in Resident(p) BY <1>1 DEF Resident
<1>6. \A i \in 1..b : i \in DOMAIN q /\ q[i] \in Resident(q) BY <1>2 DEF Resident
<1>7. \A i \in 1..(a + b) : IF i <= a THEN i \in 1..a ELSE i - a \in 1..b OBVIOUS
<1>8. CASE m <= a /\ n <= a BY <1>3, <1>4, <1>5, <1>7, <1>8 DEF Distinct
<1>9. CASE m > a /\ n > a
  <2>1. q[m - a] = q[n - a] /\ m - a \in DOMAIN q /\ n - a \in DOMAIN q
    BY <1>3, <1>4, <1>6, <1>7, <1>9
  <2>2. m - a = n - a BY <2>1 DEF Distinct
  <2> QED BY <1>3, <2>2
<1>10. CASE (m <= a) # (n <= a)
  BY <1>3, <1>4, <1>5, <1>6, <1>7, <1>10
<1> QED BY <1>3, <1>8, <1>9, <1>10

LEMMA DistinctKeep ==
    ASSUME NEW B, NEW q \in Seq(B), NEW S, Distinct(q)
    PROVE  Distinct(Keep(q, S))
<1>1. PICK k \in Seq(B) : k = Keep(q, S) BY KeepEmbeds
<1>2. PICK e : Embeds(e, k, q, Len(q), S) BY <1>1, KeepEmbeds
<1>3. DOMAIN k = 1..Len(k) /\ DOMAIN q = 1..Len(q) /\ Len(k) \in Nat /\ Len(q) \in Nat
  BY <1>1
<1>4. ASSUME NEW m \in 1..Len(k), NEW n \in 1..Len(k), m < n
      PROVE  k[m] # k[n]
  <2>1. /\ e[m] < e[n] /\ e[m] \in 1..Len(q) /\ e[n] \in 1..Len(q)
        /\ k[m] = q[e[m]] /\ k[n] = q[e[n]]
    BY <1>2, <1>4 DEF Embeds
  <2> QED BY <1>3, <2>1 DEF Distinct
<1> SUFFICES ASSUME NEW m \in 1..Len(k), NEW n \in 1..Len(k), k[m] = k[n] PROVE m = n
  BY <1>1, <1>3 DEF Distinct
<1> QED BY <1>3, <1>4

\* A list in two parts.
LEMMA SplitList ==
    ASSUME NEW B, NEW q \in Seq(B), NEW r \in 0..Len(q)
    PROVE  LET p == SubSeq(q, 1, r)
               t == SubSeq(q, r + 1, Len(q))
           IN  /\ p \in Seq(B) /\ t \in Seq(B)
               /\ Len(p) = r /\ Len(t) = Len(q) - r
               /\ \A i \in 1..r : p[i] = q[i]
               /\ \A i \in 1..(Len(q) - r) : t[i] = q[r + i]
               /\ Resident(q) = Resident(p) \cup Resident(t)
               /\ Distinct(q) => /\ Distinct(p) /\ Distinct(t)
                                 /\ Resident(p) \cap Resident(t) = {}
<1>1. PICK n \in Nat : n = Len(q) OBVIOUS
<1>2. \A i \in 1..n : q[i] \in B BY <1>1
<1> DEFINE p == SubSeq(q, 1, r)
           t == SubSeq(q, r + 1, n)
<1>3. p \in Seq(B) /\ Len(p) = r /\ \A i \in 1..r : p[i] = q[i]
  BY <1>1, <1>2, SubSeqProperties
<1>4. t \in Seq(B) /\ Len(t) = n - r /\ \A i \in 1..(n - r) : t[i] = q[r + i]
  BY <1>1, <1>2, SubSeqProperties
<1> HIDE DEF p, t
<1>5. DOMAIN p = 1..r /\ DOMAIN t = 1..(n - r) /\ DOMAIN q = 1..n
  BY <1>1, <1>3, <1>4
<1>6. Resident(q) = Resident(p) \cup Resident(t)
  <2>1. ASSUME NEW i \in 1..n PROVE q[i] \in Resident(p) \cup Resident(t)
    <3>1. CASE i <= r
      <4>1. i \in 1..r BY <3>1
      <4> QED BY <1>3, <1>5, <4>1 DEF Resident
    <3>2. CASE i > r
      <4>1. i - r \in 1..(n - r) /\ r + (i - r) = i BY <1>1, <3>2
      <4>2. t[i - r] = q[i] BY <1>4, <4>1
      <4> QED BY <1>5, <4>1, <4>2 DEF Resident
    <3> QED BY <3>1, <3>2
  <2>2. ASSUME NEW i \in 1..r PROVE p[i] \in Resident(q)
    <3>1. i \in 1..n BY <1>1
    <3> QED BY <1>3, <1>5, <3>1 DEF Resident
  <2>3. ASSUME NEW i \in 1..(n - r) PROVE t[i] \in Resident(q)
    <3>1. r + i \in 1..n BY <1>1
    <3> QED BY <1>4, <1>5, <3>1 DEF Resident
  <2> QED BY <1>5, <2>1, <2>2, <2>3 DEF Resident
<1>7. ASSUME Distinct(q)
      PROVE  Distinct(p) /\ Distinct(t) /\ Resident(p) \cap Resident(t) = {}
  <2>1. \A i, j \in 1..n : q[i] = q[j] => i = j BY <1>5, <1>7 DEF Distinct
  <2>2. Distinct(p)
    <3> SUFFICES ASSUME NEW i \in 1..r, NEW j \in 1..r, p[i] = p[j] PROVE i = j
      BY <1>5 DEF Distinct
    <3>1. i \in 1..n /\ j \in 1..n BY <1>1
    <3> QED BY <1>3, <2>1, <3>1
  <2>3. Distinct(t)
    <3> SUFFICES ASSUME NEW i \in 1..(n - r), NEW j \in 1..(n - r), t[i] = t[j] PROVE i = j
      BY <1>5 DEF Distinct
    <3>1. r + i \in 1..n /\ r + j \in 1..n BY <1>1
    <3>2. r + i = r + j BY <1>4, <2>1, <3>1
    <3> QED BY <3>2
  <2>4. ASSUME NEW i \in 1..r, NEW j \in 1..(n - r), p[i] = t[j] PROVE FALSE
    <3>1. i \in 1..n /\ r + j \in 1..n /\ i # r + j BY <1>1
    <3>2. q[i] = q[r + j] BY <1>3, <1>4, <2>4
    <3> QED BY <2>1, <3>1, <3>2
  <2>5. Resident(p) \cap Resident(t) = {} BY <1>5, <2>4 DEF Resident
  <2> QED BY <2>2, <2>3, <2>5
<1> QED BY <1>1, <1>3, <1>4, <1>6, <1>7 DEF p, t

\* A list of distinct members is as long as they are many.
LEMMA DistinctCount ==
    ASSUME NEW B, NEW q \in Seq(B), Distinct(q)
    PROVE  IsFiniteSet(Resident(q)) /\ Cardinality(Resident(q)) = Len(q)
<1>1. Len(q) \in Nat /\ DOMAIN q = 1..Len(q) OBVIOUS
<1>2. IsFiniteSet(1..Len(q)) /\ Cardinality(1..Len(q)) = Len(q)
  <2>1. PICK n \in Nat : n = Len(q) BY <1>1
  <2>2. n \in Int /\ 1 \in Int /\ (IF 1 > n THEN 0 ELSE n - 1 + 1) = n BY <2>1
  <2>3. IsFiniteSet(1..n) /\ Cardinality(1..n) = IF 1 > n THEN 0 ELSE n - 1 + 1
    BY <2>2, FS_Interval
  <2> QED BY <2>1, <2>2, <2>3
<1>3. q \in [1..Len(q) -> Resident(q)] BY <1>1 DEF Resident
<1>4. q \in Bijection(1..Len(q), Resident(q))
  BY <1>1, <1>3 DEF Bijection, Injection, Surjection, IsInjective, Distinct, Resident
<1>5. ExistsBijection(1..Len(q), Resident(q)) BY <1>4 DEF ExistsBijection
<1> QED BY <1>2, <1>5, FS_Bijection

\* A function that tells the members of a set apart has as many values as they are.
LEMMA ImageCount ==
    ASSUME NEW S, NEW f, IsFiniteSet(S), \A x, y \in S : f[x] = f[y] => x = y
    PROVE  /\ IsFiniteSet({f[x] : x \in S})
           /\ Cardinality({f[x] : x \in S}) = Cardinality(S)
<1> DEFINE T == {f[x] : x \in S}
           g == [x \in S |-> f[x]]
<1>1. g \in [S -> T] OBVIOUS
<1>2. \A x \in S : g[x] = f[x] OBVIOUS
<1>3. \A t \in T : \E x \in S : g[x] = t OBVIOUS
<1> HIDE DEF T, g
<1>4. g \in Bijection(S, T)
  BY <1>1, <1>2, <1>3 DEF Bijection, Injection, Surjection, IsInjective
<1>5. ExistsBijection(S, T) BY <1>4 DEF ExistsBijection
<1> QED BY <1>5, FS_Bijection DEF T

\* What is left of the first n numbers when some are taken away.
LEMMA RestCount ==
    ASSUME NEW n \in Nat, NEW S \in SUBSET (1..n)
    PROVE  /\ IsFiniteSet(S) /\ IsFiniteSet((1..n) \ S)
           /\ Cardinality(S) \in Nat
           /\ Cardinality((1..n) \ S) = n - Cardinality(S)
<1>1. IsFiniteSet(1..n) /\ Cardinality(1..n) = n
  <2>1. n \in Int /\ 1 \in Int /\ (IF 1 > n THEN 0 ELSE n - 1 + 1) = n OBVIOUS
  <2>2. IsFiniteSet(1..n) /\ Cardinality(1..n) = IF 1 > n THEN 0 ELSE n - 1 + 1
    BY <2>1, FS_Interval
  <2> QED BY <2>1, <2>2
<1>2. PICK R : R = (1..n) \ S OBVIOUS
<1>3. IsFiniteSet(S) /\ IsFiniteSet(R) BY <1>1, <1>2, FS_Subset
<1>4. Cardinality(S) \in Nat /\ Cardinality(R) \in Nat BY <1>3, FS_CardinalityType
<1>5. Cardinality(S \cup R) = Cardinality(S) + Cardinality(R) - Cardinality(S \cap R)
  BY <1>3, FS_Union
<1>6. Cardinality(S \cap R) = 0
  <2>1. S \cap R = {} BY <1>2
  <2> QED BY <2>1, FS_EmptySet
<1>7. Cardinality(S \cup R) = n
  <2>1. S \cup R = 1..n BY <1>2
  <2> QED BY <1>1, <2>1
<1> QED BY <1>2, <1>3, <1>4, <1>5, <1>6, <1>7

=========================================================================
