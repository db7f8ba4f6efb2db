-------------------------- MODULE VoiceTrackingProofs --------------------------
(***************************************************************************)
(* Proofs about the voices of one channel, for any pitches, polyphony,     *)
(* intervals and windows, and every file of paired notes.                  *)
(***************************************************************************)
EXTENDS VoiceTracking, FiniteSetTheorems, WellFoundedInduction, TLAPS

Tallies == [Notes -> Nat]

-----------------------------------------------------------------------------
\* Least and greatest naturals.

LEMMA LeastNat ==
  ASSUME NEW T \in SUBSET Nat, T # {}
  PROVE  \E x \in T : \A y \in T : x <= y
<1> DEFINE Less == {ss \in Nat \X Nat : ss[1] < ss[2]}
<1>1. IsWellFoundedOn(Less, Nat)
  BY NatLessThanWellFounded DEF OpToRel
<1>2. PICK x \in T : \A y \in T : <<y, x>> \notin Less
  <2> HIDE DEF Less
  <2> QED
    BY <1>1, WFMin
<1>3. ASSUME NEW y \in T PROVE x <= y
  <2>1. x \in Nat /\ y \in Nat
    OBVIOUS
  <2>2. ~(y < x)
    BY <1>2, <2>1
  <2> QED
    BY <2>1, <2>2
<1> QED
  BY <1>3

\* A smallest unbounded set would be unbounded without one of its elements.
LEMMA FiniteIsBounded ==
  ASSUME NEW T \in SUBSET Nat, IsFiniteSet(T)
  PROVE  \E b \in Nat : \A x \in T : x <= b
<1> DEFINE Bounded(U) == \E b \in Nat : \A x \in U : x <= b
           K == {k \in Nat : \E U \in SUBSET Nat : IsFiniteSet(U) /\ Cardinality(U) = k
                                                   /\ ~Bounded(U)}
<1>1. K = {}
  <2> SUFFICES ASSUME K # {} PROVE FALSE
    OBVIOUS
  <2>1. PICK k \in K : \A j \in K : k <= j
    <3>1. K \in SUBSET Nat
      OBVIOUS
    <3> HIDE DEF K
    <3> QED
      BY <3>1, LeastNat
  <2>2. PICK U \in SUBSET Nat : IsFiniteSet(U) /\ Cardinality(U) = k /\ ~Bounded(U)
    OBVIOUS
  <2>3. U # {}
    <3>1. \A x \in {} : x <= 0
      OBVIOUS
    <3> QED
      BY <2>2, <3>1
  <2>4. PICK y \in U : TRUE
    BY <2>3
  <2> DEFINE V == U \ {y}
  <2>5. V \in SUBSET Nat /\ IsFiniteSet(V) /\ Cardinality(V) = k - 1 /\ k \in Nat
    BY <2>2, FS_RemoveElement
  <2>6. k - 1 \in Nat
    BY <2>5, FS_CardinalityType
  <2>7. k - 1 \notin K
    BY <2>1, <2>5
  <2>8. Bounded(V)
    BY <2>5, <2>6, <2>7
  <2>9. PICK b \in Nat : \A x \in V : x <= b
    BY <2>8
  <2>10. y + b \in Nat /\ \A x \in U : x <= y + b
    BY <2>9
  <2> QED
    BY <2>2, <2>10
<1>2. Cardinality(T) \in Nat
  BY FS_CardinalityType
<1>3. Cardinality(T) \notin K
  BY <1>1
<1> HIDE DEF K
<1>4. Bounded(T)
  BY <1>2, <1>3 DEF K
<1> QED
  BY <1>4

LEMMA GreatestNat ==
  ASSUME NEW T \in SUBSET Nat, T # {}, NEW b \in Nat, \A x \in T : x <= b
  PROVE  \E x \in T : \A y \in T : y <= x
<1> DEFINE U == {u \in Nat : \A x \in T : x <= u}
<1>1. PICK u \in U : \A v \in U : u <= v
  <2>1. U \in SUBSET Nat /\ b \in U
    OBVIOUS
  <2> HIDE DEF U
  <2> QED
    BY <2>1, LeastNat
<1>2. u \in T
  <2> SUFFICES ASSUME u \notin T PROVE FALSE
    OBVIOUS
  <2>1. PICK t \in T : TRUE
    OBVIOUS
  <2>2. t <= u /\ t # u /\ t \in Nat /\ u \in Nat
    OBVIOUS
  <2>3. u - 1 \in Nat
    BY <2>2
  <2>4. \A x \in T : x <= u - 1
    BY <2>2
  <2>5. u - 1 \in U
    BY <2>3, <2>4
  <2> QED
    BY <1>1, <2>2, <2>5
<1> QED
  BY <1>1, <1>2

LEMMA MinOfTwo ==
  ASSUME NEW a \in Nat, NEW b \in Nat
  PROVE  Min({a, b}) = IF a <= b THEN a ELSE b
<1> DEFINE m == IF a <= b THEN a ELSE b
<1>1. m \in {a, b} /\ \A y \in {a, b} : m <= y
  OBVIOUS
<1>2. \A x \in {a, b} : (\A y \in {a, b} : x <= y) => x = m
  OBVIOUS
<1> HIDE DEF m
<1>3. Min({a, b}) \in {a, b} /\ \A y \in {a, b} : Min({a, b}) <= y
  BY <1>1 DEF Min
<1> QED
  BY <1>2, <1>3 DEF m

LEMMA NoLessThanZero ==
  ASSUME NEW a \in Int
  PROVE  Max({0, a}) = IF a >= 0 THEN a ELSE 0
<1> DEFINE m == IF a >= 0 THEN a ELSE 0
<1>1. m \in {0, a} /\ \A y \in {0, a} : m >= y
  OBVIOUS
<1>2. \A x \in {0, a} : (\A y \in {0, a} : x >= y) => x = m
  OBVIOUS
<1> HIDE DEF m
<1>3. Max({0, a}) \in {0, a} /\ \A y \in {0, a} : Max({0, a}) >= y
  BY <1>1 DEF Max
<1> QED
  BY <1>2, <1>3 DEF m

-----------------------------------------------------------------------------
\* Tallies of notes.

LEMMA CopiesAre ==
  ASSUME NEW f \in Tallies
  PROVE  /\ \A x : x \in Copies(f) <=> \E n \in Notes : \E i \in 1 .. f[n] : x = <<n, i>>
         /\ IsFiniteSet(Copies(f))
<1> DEFINE g == [n \in Notes |-> {n} \X (1 .. f[n])]
           S == {{n} \X (1 .. f[n]) : n \in Notes}
<1>1. DOMAIN f = Notes
  BY DEF Tallies
<1>2. Copies(f) = UNION S
  BY <1>1 DEF Copies
<1>3. IsFiniteSet(S)
  <2>1. g \in Surjection(Notes, S)
    BY DEF Surjection
  <2> HIDE DEF g, S
  <2> QED
    BY <2>1, FS_Surjection, VoiceAssumption
<1>4. ASSUME NEW T \in S PROVE IsFiniteSet(T)
  <2>1. PICK n \in Notes : T = {n} \X (1 .. f[n])
    OBVIOUS
  <2>2. 1 \in Int /\ f[n] \in Int
    BY DEF Tallies
  <2>3. IsFiniteSet({n}) /\ IsFiniteSet(1 .. f[n])
    BY <2>2, FS_Singleton, FS_Interval
  <2> QED
    BY <2>1, <2>3, FS_Product
<1>5. \A x : x \in UNION S <=> \E n \in Notes : \E i \in 1 .. f[n] : x = <<n, i>>
  OBVIOUS
<1> HIDE DEF S
<1> QED
  BY <1>2, <1>3, <1>4, <1>5, FS_UNION

LEMMA CountType ==
  ASSUME NEW f \in Tallies
  PROVE  Count(f) \in Nat
  BY CopiesAre, FS_CardinalityType DEF Count

LEMMA CountZero ==
  ASSUME NEW f \in Tallies
  PROVE  Count(f) = 0 <=> \A n \in Notes : f[n] = 0
<1>1. Count(f) = 0 <=> Copies(f) = {}
  BY CopiesAre, FS_EmptySet DEF Count
<1>2. ASSUME NEW n \in Notes, f[n] # 0 PROVE <<n, 1>> \in Copies(f)
  <2>1. 1 \in 1 .. f[n]
    BY <1>2 DEF Tallies
  <2> QED
    BY <2>1, CopiesAre
<1>3. ASSUME \A n \in Notes : f[n] = 0 PROVE Copies(f) = {}
  BY <1>3, CopiesAre
<1> QED
  BY <1>1, <1>2, <1>3

\* A note more.
LEMMA CountMore ==
  ASSUME NEW f \in Tallies, NEW n \in Notes,
         NEW g, g = [f EXCEPT ![n] = f[n] + 1]
  PROVE  g \in Tallies /\ Count(g) = Count(f) + 1
<1>1. /\ g \in Tallies /\ g[n] = f[n] + 1 /\ f[n] \in Nat
      /\ \A m \in Notes : m # n => g[m] = f[m]
  BY DEF Tallies
<1> DEFINE x == <<n, f[n] + 1>>
<1>2. Copies(g) = Copies(f) \cup {x}
  <2>0. \A y : y \in Copies(g) <=> \E m \in Notes : \E i \in 1 .. g[m] : y = <<m, i>>
    BY <1>1, CopiesAre
  <2>1. ASSUME NEW y \in Copies(g) PROVE y \in Copies(f) \cup {x}
    <3>0. PICK m \in Notes : \E i \in 1 .. g[m] : y = <<m, i>>
      BY <2>0
    <3>1. PICK i \in 1 .. g[m] : y = <<m, i>>
      BY <3>0
    <3>2. CASE m = n
      <4>1. i \in 1 .. f[n] \/ i = f[n] + 1
        BY <1>1, <3>2
      <4> QED
        BY <3>1, <3>2, <4>1, CopiesAre
    <3>3. CASE m # n
      BY <1>1, <3>1, <3>3, CopiesAre
    <3> QED
      BY <3>2, <3>3
  <2>2. x \in Copies(g)
    <3>1. f[n] + 1 \in 1 .. g[n]
      BY <1>1
    <3> QED
      BY <1>1, <3>1, CopiesAre
  <2>3. ASSUME NEW y \in Copies(f) PROVE y \in Copies(g)
    <3>0. PICK m \in Notes : \E i \in 1 .. f[m] : y = <<m, i>>
      BY CopiesAre
    <3>1. PICK i \in 1 .. f[m] : y = <<m, i>>
      BY <3>0
    <3>2. i \in 1 .. g[m]
      BY <1>1
    <3> QED
      BY <1>1, <3>1, <3>2, CopiesAre
  <2> QED
    BY <2>1, <2>2, <2>3
<1>3. x \notin Copies(f)
  <2> SUFFICES ASSUME x \in Copies(f) PROVE FALSE
    OBVIOUS
  <2>0. PICK m \in Notes : \E i \in 1 .. f[m] : x = <<m, i>>
    BY CopiesAre
  <2>1. PICK i \in 1 .. f[m] : x = <<m, i>>
    BY <2>0
  <2>2. f[n] + 1 \in 1 .. f[n]
    BY <2>1
  <2> QED
    BY <1>1, <2>2
<1> HIDE DEF x
<1>4. Cardinality(Copies(g)) = Cardinality(Copies(f)) + 1
  BY <1>2, <1>3, CopiesAre, FS_AddElement
<1> QED
  BY <1>1, <1>4 DEF Count

\* A note less.
LEMMA CountLess ==
  ASSUME NEW f \in Tallies, NEW n \in Notes, f[n] > 0,
         NEW g, g = [f EXCEPT ![n] = f[n] - 1]
  PROVE  g \in Tallies /\ Count(g) = Count(f) - 1
<1>1. g \in Tallies /\ g[n] = f[n] - 1
  BY DEF Tallies
<1>2. f = [g EXCEPT ![n] = g[n] + 1]
  <2> DEFINE h == [g EXCEPT ![n] = g[n] + 1]
  <2>1. f \in Tallies /\ h \in Tallies
    BY <1>1 DEF Tallies
  <2>2. ASSUME NEW m \in Notes PROVE f[m] = h[m]
    BY <1>1 DEF Tallies
  <2> HIDE DEF h
  <2>3. f = h
    BY <2>1, <2>2 DEF Tallies
  <2> QED
    BY <2>3 DEF h
<1>3. Count(f) = Count(g) + 1
  BY <1>1, <1>2, CountMore
<1> QED
  BY <1>1, <1>3, CountType

LEMMA CountMonotone ==
  ASSUME NEW f \in Tallies, NEW g \in Tallies, \A n \in Notes : f[n] <= g[n]
  PROVE  Count(f) <= Count(g)
<1>1. ASSUME NEW x \in Copies(f) PROVE x \in Copies(g)
  <2>0. PICK n \in Notes : \E i \in 1 .. f[n] : x = <<n, i>>
    BY CopiesAre
  <2>1. PICK i \in 1 .. f[n] : x = <<n, i>>
    BY <2>0
  <2>2. i \in 1 .. g[n]
    BY DEF Tallies
  <2> QED
    BY <2>1, <2>2, CopiesAre
<1> QED
  BY <1>1, CopiesAre, FS_Subset DEF Count

LEMMA CountHolds ==
  ASSUME NEW f \in Tallies, NEW n \in Notes
  PROVE  f[n] <= Count(f)
<1> DEFINE S == {n} \X (1 .. f[n])
<1>1. 1 \in Int /\ f[n] \in Int /\ f[n] \in Nat
  BY DEF Tallies
<1>2. IsFiniteSet({n}) /\ Cardinality({n}) = 1
  BY FS_Singleton
<1>3. IsFiniteSet(1 .. f[n]) /\ Cardinality(1 .. f[n]) = f[n]
  BY <1>1, FS_Interval
<1>4. Cardinality(S) = f[n]
  <2>1. Cardinality(S) = Cardinality({n}) * Cardinality(1 .. f[n])
    BY <1>2, <1>3, FS_Product
  <2> HIDE DEF S
  <2>2. Cardinality(S) = 1 * f[n]
    BY <1>2, <1>3, <2>1
  <2> QED
    BY <1>1, <2>2
<1>5. S \in SUBSET Copies(f)
  BY CopiesAre
<1> HIDE DEF S
<1> QED
  BY <1>4, <1>5, CopiesAre, FS_Subset DEF Count

\* There are no more pitches than notes.
LEMMA CountPitches ==
  ASSUME NEW f \in Tallies, NEW P, P = {n \in Notes : f[n] > 0}
  PROVE  IsFiniteSet(P) /\ Cardinality(P) <= Count(f)
<1> DEFINE h == [n \in P |-> <<n, 1>>]
<1>1. ASSUME NEW n \in P PROVE <<n, 1>> \in Copies(f)
  <2>1. n \in Notes /\ 1 \in 1 .. f[n]
    BY DEF Tallies
  <2> QED
    BY <2>1, CopiesAre
<1>2. h \in Injection(P, Copies(f))
  BY <1>1 DEF Injection, IsInjective
<1> HIDE DEF h
<1> QED
  BY <1>2, CopiesAre, FS_Injection DEF Count

\* The lower notes and the others.
LEMMA CountSplits ==
  ASSUME NEW f \in Tallies, NEW g \in Tallies, NEW h \in Tallies,
         \A n \in Notes : \/ g[n] = f[n] /\ h[n] = 0
                          \/ g[n] = 0 /\ h[n] = f[n]
  PROVE  Count(f) = Count(g) + Count(h)
<1>1. Copies(f) = Copies(g) \cup Copies(h)
  <2>1. ASSUME NEW x \in Copies(f) PROVE x \in Copies(g) \cup Copies(h)
    <3>0. PICK n \in Notes : \E i \in 1 .. f[n] : x = <<n, i>>
      BY CopiesAre
    <3>1. PICK i \in 1 .. f[n] : x = <<n, i>>
      BY <3>0
    <3> QED
      BY <3>1, CopiesAre
  <2>2. ASSUME NEW x \in Copies(g) PROVE x \in Copies(f)
    <3>0. PICK n \in Notes : \E i \in 1 .. g[n] : x = <<n, i>>
      BY CopiesAre
    <3>1. PICK i \in 1 .. g[n] : x = <<n, i>>
      BY <3>0
    <3> QED
      BY <3>1, CopiesAre
  <2>3. ASSUME NEW x \in Copies(h) PROVE x \in Copies(f)
    <3>0. PICK n \in Notes : \E i \in 1 .. h[n] : x = <<n, i>>
      BY CopiesAre
    <3>1. PICK i \in 1 .. h[n] : x = <<n, i>>
      BY <3>0
    <3> QED
      BY <3>1, CopiesAre
  <2> QED
    BY <2>1, <2>2, <2>3
<1>2. Copies(g) \cap Copies(h) = {}
  <2> SUFFICES ASSUME NEW x \in Copies(g), x \in Copies(h) PROVE FALSE
    OBVIOUS
  <2>0. PICK n \in Notes : \E i \in 1 .. g[n] : x = <<n, i>>
    BY CopiesAre
  <2>1. PICK i \in 1 .. g[n] : x = <<n, i>>
    BY <2>0
  <2>5. PICK m \in Notes : \E j \in 1 .. h[m] : x = <<m, j>>
    BY CopiesAre
  <2>2. PICK j \in 1 .. h[m] : x = <<m, j>>
    BY <2>5
  <2>3. m = n
    BY <2>1, <2>2
  <2> QED
    BY <2>1, <2>2, <2>3
<1>3. Cardinality(Copies(g) \cap Copies(h)) = 0
  BY <1>2, FS_EmptySet
<1>4. Cardinality(Copies(f)) =
        Cardinality(Copies(g)) + Cardinality(Copies(h)) - Cardinality(Copies(g) \cap Copies(h))
  BY <1>1, CopiesAre, FS_Union
<1>5. Count(f) \in Nat /\ Count(g) \in Nat /\ Count(h) \in Nat
  BY CountType
<1> QED
  BY <1>3, <1>4, <1>5 DEF Count

-----------------------------------------------------------------------------
\* The median voice.
Below(f, n) == [m \in Notes |-> IF m < n THEN f[m] ELSE 0]
UpTo(f, n) == [m \in Notes |-> IF m <= n THEN f[m] ELSE 0]
Above(f, n) == [m \in Notes |-> IF m > n THEN f[m] ELSE 0]

LEMMA PartType ==
  ASSUME NEW f \in Tallies, NEW n
  PROVE  Below(f, n) \in Tallies /\ UpTo(f, n) \in Tallies /\ Above(f, n) \in Tallies
  BY DEF Below, UpTo, Above, Tallies

LEMMA Half ==
  ASSUME NEW k \in Nat, k > 0
  PROVE  k \div 2 \in Nat /\ k \div 2 < k /\ 2 * (k \div 2) <= k
  OBVIOUS

LEMMA SameTally ==
  ASSUME NEW f \in Tallies, NEW g \in Tallies, \A n \in Notes : f[n] = g[n]
  PROVE  f = g
  BY DEF Tallies

\* The victim sounds, and no more than half of the voices are below it.
LEMMA VictimFacts ==
  ASSUME NEW f \in Tallies, Count(f) > 0, NEW v, v = Victim(f)
  PROVE  /\ v \in Notes /\ f[v] > 0
         /\ Count(UpTo(f, v)) > Count(f) \div 2
         /\ Count(Below(f, v)) <= Count(f) \div 2
<1> DEFINE C == Count(f)
           H == C \div 2
           T == {n \in Notes : Rank(f, n) > H}
<1>1. C \in Nat /\ H \in Nat /\ H < C
  BY CountType, Half
<1>2. \A n : Rank(f, n) = Count(UpTo(f, n))
  BY DEF Rank, UpTo
<1>3. Notes \in SUBSET Nat /\ IsFiniteSet(Notes)
  BY VoiceAssumption
<1>4. Notes # {}
  BY <1>1, CountZero
<1>5. T # {}
  <2>1. PICK b \in Nat : \A n \in Notes : n <= b
    BY <1>3, FiniteIsBounded
  <2>2. PICK top \in Notes : \A n \in Notes : n <= top
    BY <1>3, <1>4, <2>1, GreatestNat
  <2>3. UpTo(f, top) = f
    <3>1. \A n \in Notes : UpTo(f, top)[n] = f[n]
      BY <2>2 DEF UpTo
    <3> QED
      BY <3>1, PartType, SameTally
  <2>4. top \in T
    BY <1>1, <1>2, <2>3
  <2> QED
    BY <2>4
<1>6. v \in T /\ \A n \in T : v <= n
  <2>1. T \in SUBSET Nat
    BY <1>3
  <2>2. v = Min(T)
    BY DEF Victim
  <2> HIDE DEF T
  <2> QED
    BY <1>5, <2>1, <2>2, LeastNat DEF Min
<1>7. v \in Notes /\ Count(UpTo(f, v)) > H
  BY <1>2, <1>6
<1> HIDE DEF C, H, T
<1>8. Count(Below(f, v)) <= H
  <2> DEFINE M == {m \in Notes : m < v}
  <2>1. CASE M = {}
    <3>1. \A n \in Notes : Below(f, v)[n] = 0
      BY <2>1 DEF Below
    <3>2. Count(Below(f, v)) = 0
      BY <3>1, CountZero, PartType
    <3> QED
      BY <1>1, <3>2
  <2>2. CASE M # {}
    <3>1. M \in SUBSET Nat /\ v \in Nat /\ \A m \in M : m <= v
      <4>1. v \in Nat
        BY <1>3, <1>7
      <4>2. M \in SUBSET Nat
        BY <1>3
      <4>3. \A m \in M : m <= v
        BY <1>3, <4>1
      <4> QED
        BY <4>1, <4>2, <4>3
    <3>2. PICK m \in M : \A n \in M : n <= m
      <4> HIDE DEF M
      <4> QED
        BY <2>2, <3>1, GreatestNat
    <3>3. m \in Nat /\ m < v /\ m \in Notes
      BY <1>3
    <3>4. ASSUME NEW n \in Notes PROVE n <= m <=> n < v
      BY <1>3, <3>1, <3>2, <3>3
    <3>5. UpTo(f, m) = Below(f, v)
      BY <3>4 DEF UpTo, Below
    <3>6. m \notin T
      BY <1>3, <1>6, <3>1, <3>3
    <3>7. ~(Rank(f, m) > H)
      BY <3>3, <3>6 DEF T
    <3>8. Count(Below(f, v)) \in Nat
      BY CountType, PartType
    <3> QED
      BY <1>1, <1>2, <3>5, <3>7, <3>8
  <2> QED
    BY <2>1, <2>2
<1>9. f[v] > 0
  <2> SUFFICES ASSUME ~(f[v] > 0) PROVE FALSE
    OBVIOUS
  <2>1. f[v] = 0
    BY <1>7 DEF Tallies
  <2>2. ASSUME NEW n \in Notes PROVE UpTo(f, v)[n] = Below(f, v)[n]
    <3>1. n \in Nat /\ v \in Nat
      BY <1>3, <1>7
    <3>2. CASE n = v
      BY <2>1, <3>2 DEF UpTo, Below
    <3>3. CASE n # v
      BY <3>1, <3>3 DEF UpTo, Below
    <3> QED
      BY <3>2, <3>3
  <2>3. UpTo(f, v) = Below(f, v)
    BY <2>2 DEF UpTo, Below
  <2>4. Count(Below(f, v)) \in Nat
    BY CountType, PartType
  <2> QED
    BY <1>1, <1>7, <1>8, <2>3, <2>4
<1> QED
  BY <1>7, <1>8, <1>9 DEF C, H

\* Three voices or more have others on both sides of the victim.
LEMMA VictimIsInside ==
  ASSUME NEW f \in Tallies, Count(f) >= 3, NEW v, v = Victim(f),
         NEW g, g = [f EXCEPT ![v] = f[v] - 1]
  PROVE  \E l, h \in Notes : l <= v /\ v <= h /\ g[l] > 0 /\ g[h] > 0
<1> DEFINE C == Count(f)
           H == C \div 2
<1>1. /\ v \in Notes /\ f[v] > 0
      /\ Count(UpTo(f, v)) > H /\ Count(Below(f, v)) <= H
  BY CountType, VictimFacts
<1>2. g \in Tallies /\ Count(g) = C - 1
  BY <1>1, CountLess
<1>3. /\ Notes \subseteq Nat /\ C \in Nat
      /\ Count(UpTo(f, v)) \in Nat /\ Count(Below(f, v)) \in Nat
  BY VoiceAssumption, CountType, PartType
<1>4. H \in Nat /\ H >= 1 /\ C - H >= 2
  BY <1>3
<1> HIDE DEF C, H
<1>5. \E l \in Notes : l <= v /\ g[l] > 0
  <2>1. UpTo(f, v)[v] = f[v]
    BY <1>1, <1>3 DEF UpTo
  <2>2. UpTo(g, v) = [UpTo(f, v) EXCEPT ![v] = UpTo(f, v)[v] - 1]
    <3>1. ASSUME NEW n \in Notes
          PROVE  UpTo(g, v)[n] = [UpTo(f, v) EXCEPT ![v] = UpTo(f, v)[v] - 1][n]
      BY <1>1, <1>3, <2>1 DEF UpTo, Tallies
    <3> QED
      BY <3>1 DEF UpTo
  <2>3. Count(UpTo(g, v)) = Count(UpTo(f, v)) - 1
    BY <1>1, <2>1, <2>2, PartType, CountLess
  <2>4. Count(UpTo(g, v)) # 0
    BY <1>1, <1>3, <1>4, <2>3
  <2>5. PICK l \in Notes : UpTo(g, v)[l] # 0
    BY <1>2, <2>4, PartType, CountZero
  <2>6. l <= v /\ g[l] > 0
    BY <1>2, <2>5 DEF UpTo, Tallies
  <2> QED
    BY <2>6
<1>6. \E h \in Notes : v <= h /\ g[h] > 0
  <2> SUFFICES ASSUME \A h \in Notes : ~(v <= h /\ g[h] > 0) PROVE FALSE
    OBVIOUS
  <2>1. ASSUME NEW n \in Notes PROVE g[n] = Below(f, v)[n]
    <3>1. n \in Nat /\ v \in Nat /\ g[n] \in Nat
      BY <1>1, <1>2, <1>3 DEF Tallies
    <3>2. CASE n < v
      <4>1. n # v
        BY <3>1, <3>2
      <4>2. g[n] = f[n]
        BY <4>1 DEF Tallies
      <4> QED
        BY <3>2, <4>2 DEF Below
    <3>3. CASE ~(n < v)
      <4>0. v <= n
        BY <3>1, <3>3
      <4>1. ~(g[n] > 0)
        BY <4>0
      <4>2. \A k \in Nat : ~(k > 0) => k = 0
        OBVIOUS
      <4>3. g[n] = 0
        BY <3>1, <4>1, <4>2, Zenon
      <4> QED
        BY <3>3, <4>3 DEF Below
    <3> QED
      BY <3>2, <3>3
  <2>2. g = Below(f, v)
    BY <1>2, <2>1, PartType, SameTally
  <2>3. C - 1 <= H
    BY <1>1, <1>2, <2>2
  <2> QED
    BY <1>3, <1>4, <2>3
<1> QED
  BY <1>5, <1>6

-----------------------------------------------------------------------------
\* The scheduler's maps and its deferred note-offs.
Trackings == [active : Tallies, dropped : Tallies,
              lastOn : [Keys -> 0 .. MinInterval], onTime : [Notes -> 0 .. MinDuration]]
Releases == [note : Notes, in : 0 .. MinDuration, current : BOOLEAN]

ChannelType ==
    /\ held \in Tallies /\ Count(held) <= MaxHeld
    /\ voices \in Trackings
    /\ Count(voices.active) <= Polyphony /\ Count(voices.dropped) <= MaxHeld
    /\ releases \in SUBSET Releases
    /\ sounding \in SUBSET Notes
    /\ struck \in [Notes -> 0 .. MinDuration]
    /\ muted \in BOOLEAN /\ tampered \in BOOLEAN

\* The instrument was struck no later than the scheduler believes, and a
\* note-off that still counts comes when its pitch has sounded for long enough.
StrikesAreTimed ==
    /\ \A n \in Notes : struck[n] >= voices.onTime[n]
    /\ \A r \in releases : r.current => struck[r.note] + r.in >= MinDuration

IInv ==
    /\ ChannelType
    /\ muted => tampered
    /\ SoundingIsAccounted
    /\ StrikesAreTimed

-----------------------------------------------------------------------------
\* What the operators of the scheduler do.

LEMMA DropFacts ==
  ASSUME NEW t \in Trackings, NEW n \in Notes
  PROVE  /\ Drop(t, n) \in Trackings
         /\ Drop(t, n).active = t.active
         /\ Drop(t, n).dropped = [t.dropped EXCEPT ![n] = t.dropped[n] + 1]
         /\ Drop(t, n).lastOn = t.lastOn
         /\ Drop(t, n).onTime = t.onTime
  BY DEF Drop, Trackings, Tallies

LEMMA EvictedFacts ==
  ASSUME NEW t \in Trackings, NEW n \in Notes, t.active[n] > 0
  PROVE  /\ Evicted(t, n) \in Trackings
         /\ Evicted(t, n).active = [t.active EXCEPT ![n] = t.active[n] - 1]
         /\ Evicted(t, n).dropped = [t.dropped EXCEPT ![n] = t.dropped[n] + 1]
         /\ Evicted(t, n).lastOn = t.lastOn
         /\ Evicted(t, n).onTime = t.onTime
<1> DEFINE u == [t EXCEPT !.active[n] = t.active[n] - 1]
<1>1. /\ u \in Trackings
      /\ u.active = [t.active EXCEPT ![n] = t.active[n] - 1]
      /\ u.dropped = t.dropped /\ u.lastOn = t.lastOn /\ u.onTime = t.onTime
  BY DEF Trackings, Tallies
<1>2. Evicted(t, n) = Drop(u, n)
  BY DEF Evicted
<1> HIDE DEF u
<1> QED
  BY <1>1, <1>2, DropFacts

LEMMA AcceptFacts ==
  ASSUME NEW t \in Trackings, NEW n \in Notes
  PROVE  /\ Accept(t, n) \in Trackings
         /\ Accept(t, n).active = [t.active EXCEPT ![n] = t.active[n] + 1]
         /\ Accept(t, n).dropped = t.dropped
         /\ Accept(t, n).onTime = [t.onTime EXCEPT ![n] = 0]
<1>1. IntervalKey(n) \in Keys
  BY DEF IntervalKey, Keys
<1>2. 0 \in 0 .. MinInterval /\ 0 \in 0 .. MinDuration
  BY VoiceAssumption
<1>3. t.active \in Tallies /\ t.lastOn \in [Keys -> 0 .. MinInterval]
      /\ t.onTime \in [Notes -> 0 .. MinDuration] /\ t.dropped \in Tallies
  BY DEF Trackings
<1> DEFINE a == [t.active EXCEPT ![n] = t.active[n] + 1]
           l == [t.lastOn EXCEPT ![IntervalKey(n)] = 0]
           o == [t.onTime EXCEPT ![n] = 0]
<1>4. a \in Tallies /\ l \in [Keys -> 0 .. MinInterval] /\ o \in [Notes -> 0 .. MinDuration]
  BY <1>1, <1>2, <1>3 DEF Tallies
<1>5. Accept(t, n) = [t EXCEPT !.active = a, !.lastOn = l, !.onTime = o]
  BY DEF Accept, Trackings
<1> HIDE DEF a, l, o
<1>6. /\ Accept(t, n) \in Trackings /\ Accept(t, n).active = a
      /\ Accept(t, n).dropped = t.dropped /\ Accept(t, n).onTime = o
  BY <1>4, <1>5 DEF Trackings
<1> QED
  BY <1>6 DEF a, o

LEMMA NoTrackingFacts ==
  /\ NoTracking \in Trackings
  /\ Count(NoTracking.active) = 0 /\ Count(NoTracking.dropped) = 0
  /\ \A n \in Notes : /\ NoTracking.active[n] = 0 /\ NoTracking.dropped[n] = 0
                      /\ NoTracking.onTime[n] = MinDuration
<1>1. MinInterval \in 0 .. MinInterval /\ MinDuration \in 0 .. MinDuration
  BY VoiceAssumption
<1>2. /\ NoTracking \in Trackings
      /\ \A n \in Notes : /\ NoTracking.active[n] = 0 /\ NoTracking.dropped[n] = 0
                          /\ NoTracking.onTime[n] = MinDuration
  BY <1>1 DEF NoTracking, Trackings, Tallies
<1>3. NoTracking.active \in Tallies /\ NoTracking.dropped \in Tallies
  BY <1>2 DEF Trackings
<1> QED
  BY <1>2, <1>3, CountZero

LEMMA AgedFacts ==
  ASSUME NEW K, NEW limit \in Nat, NEW ages \in [K -> 0 .. limit]
  PROVE  /\ Aged(ages, limit) \in [K -> 0 .. limit]
         /\ \A k \in K : Aged(ages, limit)[k] = IF ages[k] < limit THEN ages[k] + 1 ELSE limit
<1>1. ASSUME NEW k \in K
      PROVE  Min({ages[k] + 1, limit}) = IF ages[k] < limit THEN ages[k] + 1 ELSE limit
  <2>1. ages[k] \in Nat /\ ages[k] <= limit /\ ages[k] + 1 \in Nat
    OBVIOUS
  <2>2. Min({ages[k] + 1, limit}) = IF ages[k] + 1 <= limit THEN ages[k] + 1 ELSE limit
    BY <2>1, MinOfTwo
  <2> QED
    BY <2>1, <2>2
<1>2. \A k \in K : Aged(ages, limit)[k] = IF ages[k] < limit THEN ages[k] + 1 ELSE limit
  BY <1>1 DEF Aged
<1>3. \A k \in K : (IF ages[k] < limit THEN ages[k] + 1 ELSE limit) \in 0 .. limit
  OBVIOUS
<1>4. Aged(ages, limit) = [k \in K |-> Aged(ages, limit)[k]]
  BY DEF Aged
<1> QED
  BY <1>2, <1>3, <1>4

\* A strike voids the deferrals of its pitch and no others.
LEMMA SupersedeFacts ==
  ASSUME NEW R \in SUBSET Releases, NEW n
  PROVE  /\ Supersede(R, n) \in SUBSET Releases
         /\ \A r \in Supersede(R, n) : r.current => r.note # n /\ r \in R
         /\ \A r \in R : r.current /\ r.note # n => r \in Supersede(R, n)
<1> DEFINE after(r) == [r EXCEPT !.current = r.current /\ r.note # n]
<1>0. Supersede(R, n) = {after(r) : r \in R}
  BY DEF Supersede
<1>1. ASSUME NEW r \in Releases
      PROVE  /\ after(r) \in Releases
             /\ after(r).current = (r.current /\ r.note # n)
             /\ r.current /\ r.note # n => after(r) = r
  <2>1. /\ after(r) \in Releases
        /\ after(r).current = (r.current /\ r.note # n)
        /\ after(r).note = r.note /\ after(r).in = r.in
    BY DEF Releases
  <2>2. ASSUME r.current, r.note # n PROVE after(r) = r
    <3>1. after(r).current = r.current
      BY <2>1, <2>2 DEF Releases
    <3> HIDE DEF after
    <3> QED
      BY <2>1, <3>1 DEF Releases
  <2> HIDE DEF after
  <2> QED
    BY <2>1, <2>2
<1> HIDE DEF after
<1>2. Supersede(R, n) \in SUBSET Releases
  BY <1>0, <1>1
<1>3. ASSUME NEW s \in Supersede(R, n), s.current PROVE s.note # n /\ s \in R
  <2>1. PICK r \in R : s = after(r)
    BY <1>0
  <2>2. r.current /\ r.note # n
    BY <1>1, <1>3, <2>1, Zenon
  <2>3. s = r
    BY <1>1, <2>1, <2>2
  <2> QED
    BY <2>2, <2>3
<1>4. ASSUME NEW r \in R, r.current, r.note # n PROVE r \in Supersede(R, n)
  <2>1. after(r) = r
    BY <1>1, <1>4
  <2> QED
    BY <1>0, <2>1
<1> QED
  BY <1>2, <1>3, <1>4

\* The note-offs of some pitches: each is sent or deferred.
LEMMA OffsFacts ==
  ASSUME ChannelType, StrikesAreTimed, NEW N \in SUBSET Notes
  PROVE  /\ ReleasesAfterOffs(voices, N) \in SUBSET Releases
         /\ releases \subseteq ReleasesAfterOffs(voices, N)
         /\ \A r \in ReleasesAfterOffs(voices, N) :
               r.current => struck[r.note] + r.in >= MinDuration
         /\ SoundingAfterOffs(voices, N) \subseteq sounding
         /\ \A n \in sounding \ SoundingAfterOffs(voices, N) :
               n \in N /\ struck[n] >= MinDuration - EmitAhead
         /\ \A n \in SoundingAfterOffs(voices, N) :
               n \in N => \E r \in ReleasesAfterOffs(voices, N) : r.note = n /\ r.current
<1> DEFINE R == ReleasesAfterOffs(voices, N)
           D == Deferred(voices, N)
           off(n) == [note |-> n, in |-> Deferral(voices, n), current |-> TRUE]
<1>1. R = releases \cup {off(n) : n \in D}
  BY DEF ReleasesAfterOffs
<1>2. ASSUME NEW n \in N
      PROVE  /\ Deferral(voices, n) \in 0 .. MinDuration
             /\ struck[n] + Deferral(voices, n) >= MinDuration
  <2>1. voices.onTime[n] \in 0 .. MinDuration /\ struck[n] \in 0 .. MinDuration
    BY DEF ChannelType, Trackings
  <2>2. struck[n] >= voices.onTime[n]
    BY DEF StrikesAreTimed
  <2> QED
    BY <2>1, <2>2, VoiceAssumption DEF Deferral
<1>3. D \subseteq N /\ \A n \in N : n \in D <=> Deferral(voices, n) > EmitAhead
  BY DEF Deferred
<1>4. ASSUME NEW n \in D
      PROVE  off(n) \in Releases /\ off(n).note = n /\ off(n).current = TRUE
             /\ off(n).in = Deferral(voices, n)
  BY <1>2, <1>3 DEF Releases
<1> HIDE DEF off, D, R
<1>5. R \in SUBSET Releases
  BY <1>1, <1>4 DEF ChannelType
<1>6. ASSUME NEW r \in R, r.current PROVE struck[r.note] + r.in >= MinDuration
  <2>1. CASE r \in releases
    BY <1>6, <2>1 DEF StrikesAreTimed
  <2>2. ASSUME NEW n \in D, r = off(n) PROVE struck[r.note] + r.in >= MinDuration
    BY <1>2, <1>3, <1>4, <2>2
  <2> QED
    BY <1>1, <2>1, <2>2
<1>7. SoundingAfterOffs(voices, N) = sounding \ (N \ D)
  BY DEF SoundingAfterOffs, D
<1>8. ASSUME NEW n \in N, n \notin D PROVE struck[n] >= MinDuration - EmitAhead
  <2>1. ~(Deferral(voices, n) > EmitAhead) /\ Deferral(voices, n) \in Nat
    BY <1>2, <1>3, <1>8
  <2>2. struck[n] \in Nat
    BY DEF ChannelType
  <2> QED
    BY <1>2, <2>1, <2>2, VoiceAssumption
<1>9. \A n \in D : \E r \in R : r.note = n /\ r.current
  BY <1>1, <1>4
<1> QED
  BY <1>1, <1>3, <1>5, <1>6, <1>7, <1>8, <1>9 DEF R

\* The median of the voices with one more makes room for it, or is it.
LEMMA VictimOfMore ==
  ASSUME NEW f \in Tallies, NEW n \in Notes, NEW v,
         v = Victim([f EXCEPT ![n] = f[n] + 1])
  PROVE  v \in Notes /\ (v # n => f[v] > 0)
<1> DEFINE g == [f EXCEPT ![n] = f[n] + 1]
<1>1. g \in Tallies /\ Count(g) = Count(f) + 1
  BY CountMore
<1>2. Count(g) > 0
  BY <1>1, CountType
<1>3. v # n => g[v] = f[v]
  BY DEF Tallies
<1> HIDE DEF g
<1>4. v \in Notes /\ g[v] > 0
  BY <1>1, <1>2, VictimFacts DEF g
<1> QED
  BY <1>3, <1>4

\* The bookkeeping of what makes room for a note-on, if anything has to.
LEMMA RoomMade ==
  ASSUME ChannelType, Room, NEW n \in Notes,
         NEW victim, victim = Victim([voices.active EXCEPT ![n] = voices.active[n] + 1]),
         Full(voices) => victim # n,
         NEW v, v = IF Full(voices) THEN Evicted(voices, victim) ELSE voices
  PROVE  /\ Full(voices) => victim \in Notes
         /\ v \in Trackings /\ v.onTime = voices.onTime
         /\ Count(v.active) + 1 <= Polyphony
         /\ Count(v.dropped) <= MaxHeld
         /\ \A x \in Notes : /\ v.active[x] + v.dropped[x] = voices.active[x] + voices.dropped[x]
                             /\ ~(Full(voices) /\ x = victim) => v.active[x] = voices.active[x]
<1>1. /\ voices \in Trackings /\ voices.active \in Tallies /\ voices.dropped \in Tallies
      /\ Count(voices.active) <= Polyphony
      /\ Count(voices.active) \in Nat /\ Count(voices.dropped) \in Nat
      /\ Count(voices.dropped) < MaxHeld
  BY CountType DEF ChannelType, Trackings, Room
<1>2. CASE Full(voices)
  <2>1. victim \in Notes /\ voices.active[victim] > 0
    BY <1>1, <1>2, VictimOfMore
  <2>2. v = Evicted(voices, victim)
    BY <1>2
  <2>3. /\ v \in Trackings /\ v.onTime = voices.onTime
        /\ v.active = [voices.active EXCEPT ![victim] = voices.active[victim] - 1]
        /\ v.dropped = [voices.dropped EXCEPT ![victim] = voices.dropped[victim] + 1]
    BY <1>1, <2>1, <2>2, EvictedFacts
  <2>4. Count(v.active) = Count(voices.active) - 1
    BY <1>1, <2>1, <2>3, CountLess
  <2>5. Count(v.dropped) = Count(voices.dropped) + 1
    BY <1>1, <2>1, <2>3, CountMore
  <2>6. ASSUME NEW x \in Notes
        PROVE  /\ v.active[x] + v.dropped[x] = voices.active[x] + voices.dropped[x]
               /\ x # victim => v.active[x] = voices.active[x]
    BY <1>1, <2>1, <2>3 DEF Tallies
  <2>7. Count(v.active) + 1 <= Polyphony /\ Count(v.dropped) <= MaxHeld
    BY <1>1, <2>4, <2>5, VoiceAssumption
  <2> QED
    BY <2>1, <2>3, <2>6, <2>7
<1>3. CASE ~Full(voices)
  <2>1. v = voices /\ ~(Count(voices.active) >= Polyphony)
    BY <1>3 DEF Full
  <2>2. Count(v.active) + 1 <= Polyphony /\ Count(v.dropped) <= MaxHeld
    BY <1>1, <2>1, VoiceAssumption
  <2> QED
    BY <1>1, <1>3, <2>1, <2>2
<1> QED
  BY <1>2, <1>3

-----------------------------------------------------------------------------
\* What a pitch has when it ceases to sound.
Lasted == \A n \in sounding \ sounding' : struck[n] >= MinDuration - EmitAhead

LEMMA NoteOnPlaysKeeps ==
  ASSUME IInv, NEW n \in Notes, NoteOnPlays(n)
  PROVE  IInv' /\ Lasted
<1> DEFINE victim == Victim([voices.active EXCEPT ![n] = voices.active[n] + 1])
           out == IF Full(voices) THEN {victim} ELSE {}
           v == IF Full(voices) THEN Evicted(voices, victim) ELSE voices
           R == ReleasesAfterOffs(voices, out)
           S == SoundingAfterOffs(voices, out)
<1>1. /\ Room /\ muted = FALSE /\ (Full(voices) => victim # n)
      /\ voices' = Accept(v, n)
      /\ releases' = Supersede(R, n)
      /\ sounding' = S \cup {n}
      /\ struck' = [struck EXCEPT ![n] = 0]
      /\ held' = [held EXCEPT ![n] = held[n] + 1]
      /\ muted' = muted /\ tampered' = tampered
  BY DEF NoteOnPlays, IInv, ChannelType
<1>2. ChannelType /\ StrikesAreTimed /\ SoundingIsAccounted
  BY DEF IInv
<1>3. \A x \in out : Full(voices) /\ x = victim
  OBVIOUS
<1>3a. Full(voices) => out = {victim}
  OBVIOUS
<1>4. /\ Full(voices) => victim \in Notes
      /\ v \in Trackings /\ v.onTime = voices.onTime
      /\ Count(v.active) + 1 <= Polyphony
      /\ Count(v.dropped) <= MaxHeld
      /\ \A x \in Notes : /\ v.active[x] + v.dropped[x] = voices.active[x] + voices.dropped[x]
                          /\ ~(Full(voices) /\ x = victim) => v.active[x] = voices.active[x]
  BY <1>1, <1>2, RoomMade
<1> HIDE DEF v, out, victim
<1>5. out \in SUBSET Notes
  BY <1>3, <1>4
<1>6. /\ R \in SUBSET Releases
      /\ releases \subseteq R
      /\ \A r \in R : r.current => struck[r.note] + r.in >= MinDuration
      /\ S \subseteq sounding
      /\ \A x \in sounding \ S : x \in out /\ struck[x] >= MinDuration - EmitAhead
      /\ \A x \in S : x \in out => \E r \in R : r.note = x /\ r.current
  BY <1>2, <1>5, OffsFacts
<1> HIDE DEF R, S
<1>7. /\ voices' \in Trackings
      /\ voices'.active = [v.active EXCEPT ![n] = v.active[n] + 1]
      /\ voices'.dropped = v.dropped
      /\ voices'.onTime = [voices.onTime EXCEPT ![n] = 0]
  BY <1>1, <1>4, AcceptFacts
<1>8. /\ releases' \in SUBSET Releases
      /\ \A r \in releases' : r.current => r.note # n /\ r \in R
      /\ \A r \in R : r.current /\ r.note # n => r \in releases'
  BY <1>1, <1>6, SupersedeFacts
<1>9. /\ held \in Tallies /\ v.active \in Tallies /\ v.dropped \in Tallies
      /\ voices.active \in Tallies /\ voices.dropped \in Tallies
      /\ struck \in [Notes -> 0 .. MinDuration] /\ voices.onTime \in [Notes -> 0 .. MinDuration]
      /\ Count(held) < MaxHeld /\ Count(held) \in Nat /\ MaxHeld \in Nat /\ MinDuration \in Nat
      /\ sounding \in SUBSET Notes
  BY <1>1, <1>2, <1>4, CountType, VoiceAssumption DEF ChannelType, Trackings, Room
<1>10. ChannelType'
  <2>1. held' \in Tallies /\ Count(held') = Count(held) + 1
    BY <1>1, <1>9, CountMore
  <2>2. Count(voices'.active) = Count(v.active) + 1
    BY <1>7, <1>9, CountMore
  <2>3. struck' \in [Notes -> 0 .. MinDuration]
    BY <1>1, <1>9
  <2>4. sounding' \in SUBSET Notes
    BY <1>1, <1>6, <1>9
  <2>5. Count(held') <= MaxHeld
    BY <1>9, <2>1
  <2> QED
    BY <1>1, <1>2, <1>4, <1>7, <1>8, <2>1, <2>2, <2>3, <2>4, <2>5 DEF ChannelType
<1>11. SoundingIsAccounted'
  <2> SUFFICES ASSUME ~tampered
               PROVE  /\ \A x \in sounding' :
                            voices'.active[x] > 0 \/ \E r \in releases' : r.note = x /\ r.current
                      /\ \A x \in Notes : voices'.active[x] + voices'.dropped[x] <= held'[x]
    BY <1>1 DEF SoundingIsAccounted
  <2>1. ASSUME NEW x \in sounding'
        PROVE  voices'.active[x] > 0 \/ \E r \in releases' : r.note = x /\ r.current
    <3>1. CASE x = n
      BY <1>7, <1>9, <3>1 DEF Tallies
    <3>2. CASE x # n
      <4>1. x \in S /\ x \in Notes /\ x \in sounding
        BY <1>1, <1>6, <1>9, <3>2
      <4>2. CASE x \in out
        <5>1. PICK r \in R : r.note = x /\ r.current
          BY <1>6, <4>1, <4>2
        <5> QED
          BY <1>8, <3>2, <5>1
      <4>3. CASE x \notin out
        <5>1. v.active[x] = voices.active[x]
          BY <1>3a, <1>4, <4>1, <4>3
        <5>2. voices'.active[x] = voices.active[x]
          BY <1>7, <1>9, <3>2, <4>1, <5>1 DEF Tallies
        <5>3. voices.active[x] > 0 \/ \E r \in releases : r.note = x /\ r.current
          BY <1>2, <4>1 DEF SoundingIsAccounted
        <5> QED
          BY <1>6, <1>8, <3>2, <5>2, <5>3
      <4> QED
        BY <4>2, <4>3
    <3> QED
      BY <3>1, <3>2
  <2>2. ASSUME NEW x \in Notes PROVE voices'.active[x] + voices'.dropped[x] <= held'[x]
    <3>1. voices.active[x] + voices.dropped[x] <= held[x]
      BY <1>2 DEF SoundingIsAccounted
    <3>2. v.active[x] + v.dropped[x] <= held[x]
      BY <1>4, <3>1
    <3>3. v.active[x] \in Nat /\ v.dropped[x] \in Nat /\ held[x] \in Nat
      BY <1>9 DEF Tallies
    <3>4. CASE x = n
      <4>1. voices'.active[x] = v.active[x] + 1 /\ held'[x] = held[x] + 1
        BY <1>1, <1>7, <1>9, <3>4 DEF Tallies
      <4> QED
        BY <1>7, <3>2, <3>3, <4>1
    <3>5. CASE x # n
      <4>1. voices'.active[x] = v.active[x] /\ held'[x] = held[x]
        BY <1>1, <1>7, <1>9, <3>5 DEF Tallies
      <4> QED
        BY <1>7, <3>2, <4>1
    <3> QED
      BY <3>4, <3>5
  <2> QED
    BY <2>1, <2>2
<1>12. StrikesAreTimed'
  <2>1. ASSUME NEW x \in Notes PROVE struck'[x] >= voices'.onTime[x]
    <3>1. struck[x] >= voices.onTime[x]
      BY <1>2 DEF StrikesAreTimed
    <3> QED
      BY <1>1, <1>7, <1>9, <3>1
  <2>2. ASSUME NEW r \in releases', r.current PROVE struck'[r.note] + r.in >= MinDuration
    <3>1. r.note # n /\ r \in R
      BY <1>8, <2>2
    <3>2. struck'[r.note] = struck[r.note]
      BY <1>1, <1>9, <3>1
    <3> QED
      BY <1>6, <2>2, <3>1, <3>2
  <2> QED
    BY <2>1, <2>2 DEF StrikesAreTimed
<1>13. Lasted
  BY <1>1, <1>6 DEF Lasted
<1> QED
  BY <1>1, <1>10, <1>11, <1>12, <1>13 DEF IInv

LEMMA NoteOnGatedKeeps ==
  ASSUME IInv, NEW n \in Notes, NoteOnGated(n)
  PROVE  IInv' /\ Lasted
<1>1. /\ Room
      /\ voices' = Drop(voices, n)
      /\ held' = [held EXCEPT ![n] = held[n] + 1]
      /\ UNCHANGED <<releases, sounding, struck, muted, tampered>>
  BY DEF NoteOnGated
<1>2. ChannelType /\ StrikesAreTimed /\ SoundingIsAccounted
  BY DEF IInv
<1>3. /\ voices \in Trackings /\ voices.active \in Tallies /\ voices.dropped \in Tallies
      /\ held \in Tallies /\ Count(held) < MaxHeld /\ Count(voices.dropped) < MaxHeld
      /\ Count(held) \in Nat /\ Count(voices.dropped) \in Nat /\ MaxHeld \in Nat
  BY <1>1, <1>2, CountType, VoiceAssumption DEF ChannelType, Trackings, Room
<1>4. /\ voices' \in Trackings
      /\ voices'.active = voices.active
      /\ voices'.dropped = [voices.dropped EXCEPT ![n] = voices.dropped[n] + 1]
      /\ voices'.onTime = voices.onTime
  BY <1>1, <1>3, DropFacts
<1>5. ChannelType'
  <2>1. held' \in Tallies /\ Count(held') = Count(held) + 1
    BY <1>1, <1>3, CountMore
  <2>2. Count(voices'.dropped) = Count(voices.dropped) + 1
    BY <1>3, <1>4, CountMore
  <2>3. Count(held') <= MaxHeld /\ Count(voices'.dropped) <= MaxHeld
    BY <1>3, <2>1, <2>2
  <2> QED
    BY <1>1, <1>2, <1>4, <2>1, <2>3 DEF ChannelType
<1>6. SoundingIsAccounted'
  <2>1. ASSUME ~tampered, NEW x \in Notes
        PROVE  voices'.active[x] + voices'.dropped[x] <= held'[x]
    <3>1. voices.active[x] + voices.dropped[x] <= held[x]
      BY <1>2, <2>1 DEF SoundingIsAccounted
    <3>2. voices.active[x] \in Nat /\ voices.dropped[x] \in Nat /\ held[x] \in Nat
      BY <1>3 DEF Tallies
    <3>3. CASE x = n
      <4>1. voices'.dropped[x] = voices.dropped[x] + 1 /\ held'[x] = held[x] + 1
        BY <1>1, <1>3, <1>4, <3>3 DEF Tallies
      <4> QED
        BY <1>4, <3>1, <3>2, <4>1
    <3>4. CASE x # n
      <4>1. voices'.dropped[x] = voices.dropped[x] /\ held'[x] = held[x]
        BY <1>1, <1>3, <1>4, <3>4 DEF Tallies
      <4> QED
        BY <1>4, <3>1, <4>1
    <3> QED
      BY <3>3, <3>4
  <2> QED
    BY <1>1, <1>2, <1>4, <2>1 DEF SoundingIsAccounted
<1>7. StrikesAreTimed' /\ Lasted
  BY <1>1, <1>2, <1>4 DEF StrikesAreTimed, Lasted
<1> QED
  BY <1>1, <1>5, <1>6, <1>7 DEF IInv

\* The note-off that a voice is waiting for, or one that goes out again.
LEMMA NoteOffKeeps ==
  ASSUME IInv, NEW n \in Notes, NoteOff(n)
  PROVE  IInv' /\ Lasted
<1>1. /\ held[n] > 0 /\ held' = [held EXCEPT ![n] = held[n] - 1]
      /\ UNCHANGED <<struck, muted, tampered>>
  BY DEF NoteOff
<1>2. ChannelType /\ StrikesAreTimed /\ SoundingIsAccounted
  BY DEF IInv
<1>3. /\ voices \in Trackings /\ voices.active \in Tallies /\ voices.dropped \in Tallies
      /\ held \in Tallies /\ Count(held) <= MaxHeld /\ Count(voices.dropped) <= MaxHeld
      /\ Count(voices.active) <= Polyphony
      /\ Count(held) \in Nat /\ Count(voices.dropped) \in Nat /\ Count(voices.active) \in Nat
      /\ MaxHeld \in Nat /\ Polyphony \in Nat
  BY <1>2, CountType, VoiceAssumption DEF ChannelType, Trackings
<1>4. held' \in Tallies /\ Count(held') <= MaxHeld
  <2>1. held' \in Tallies /\ Count(held') = Count(held) - 1
    BY <1>1, <1>3, CountLess
  <2> QED
    BY <1>3, <2>1
<1>5. \A x \in Notes : held'[x] = IF x = n THEN held[x] - 1 ELSE held[x]
  BY <1>1, <1>3 DEF Tallies
<1>6. CASE Swallows(voices, n)
  <2>1. /\ voices.dropped[n] > 0
        /\ voices' = [voices EXCEPT !.dropped[n] = voices.dropped[n] - 1]
        /\ UNCHANGED <<releases, sounding>>
    BY <1>6 DEF NoteOff, Swallows
  <2>2. /\ voices' \in Trackings
        /\ voices'.active = voices.active
        /\ voices'.dropped = [voices.dropped EXCEPT ![n] = voices.dropped[n] - 1]
        /\ voices'.onTime = voices.onTime
    BY <1>3, <2>1 DEF Trackings, Tallies
  <2>3. Count(voices'.dropped) <= MaxHeld
    <3>1. Count(voices'.dropped) = Count(voices.dropped) - 1
      BY <1>3, <2>1, <2>2, CountLess
    <3> QED
      BY <1>3, <3>1
  <2>4. ChannelType'
    BY <1>1, <1>2, <1>4, <2>1, <2>2, <2>3 DEF ChannelType
  <2>5. SoundingIsAccounted'
    <3>1. ASSUME ~tampered, NEW x \in Notes
          PROVE  voices'.active[x] + voices'.dropped[x] <= held'[x]
      <4>1. voices.active[x] + voices.dropped[x] <= held[x]
        BY <1>2, <3>1 DEF SoundingIsAccounted
      <4>2. voices.active[x] \in Nat /\ voices.dropped[x] \in Nat /\ held[x] \in Nat
        BY <1>3 DEF Tallies
      <4>3. voices'.dropped[x] = IF x = n THEN voices.dropped[x] - 1 ELSE voices.dropped[x]
        BY <1>3, <2>2 DEF Tallies
      <4> QED
        BY <1>5, <2>2, <4>1, <4>2, <4>3
    <3> QED
      BY <1>1, <1>2, <2>1, <2>2, <3>1 DEF SoundingIsAccounted
  <2>6. StrikesAreTimed' /\ Lasted
    BY <1>1, <1>2, <2>1, <2>2 DEF StrikesAreTimed, Lasted
  <2> QED
    BY <1>1, <2>4, <2>5, <2>6 DEF IInv
<1>7. CASE ~Swallows(voices, n)
  <2> DEFINE R == ReleasesAfterOffs(voices, {n})
             S == SoundingAfterOffs(voices, {n})
  <2>1. /\ voices' = [voices EXCEPT !.active[n] = Max({0, voices.active[n] - 1})]
        /\ releases' = R /\ sounding' = S
    BY <1>7 DEF NoteOff
  <2>2. /\ R \in SUBSET Releases
        /\ releases \subseteq R
        /\ \A r \in R : r.current => struck[r.note] + r.in >= MinDuration
        /\ S \subseteq sounding
        /\ \A x \in sounding \ S : x \in {n} /\ struck[x] >= MinDuration - EmitAhead
        /\ \A x \in S : x \in {n} => \E r \in R : r.note = x /\ r.current
    <3>1. {n} \in SUBSET Notes
      OBVIOUS
    <3> QED
      BY <1>2, <3>1, OffsFacts
  <2> HIDE DEF R, S
  <2>3. Max({0, voices.active[n] - 1}) = IF voices.active[n] > 0 THEN voices.active[n] - 1 ELSE 0
    <3>1. voices.active[n] \in Nat /\ voices.active[n] - 1 \in Int
      BY <1>3 DEF Tallies
    <3>2. Max({0, voices.active[n] - 1}) =
            IF voices.active[n] - 1 >= 0 THEN voices.active[n] - 1 ELSE 0
      BY <3>1, NoLessThanZero
    <3> QED
      BY <3>1, <3>2
  <2> DEFINE k == Max({0, voices.active[n] - 1})
  <2>4. k \in Nat
    BY <1>3, <2>3 DEF Tallies
  <2> HIDE DEF k
  <2>5. /\ voices' \in Trackings
        /\ voices'.active = [voices.active EXCEPT ![n] = k]
        /\ voices'.dropped = voices.dropped
        /\ voices'.onTime = voices.onTime
    <3>1. voices' = [voices EXCEPT !.active[n] = k]
      BY <2>1 DEF k
    <3> QED
      BY <1>3, <2>4, <3>1 DEF Trackings, Tallies
  <2>6. \A x \in Notes : voices'.active[x] = IF x = n THEN k ELSE voices.active[x]
    BY <1>3, <2>5 DEF Tallies
  <2>7. voices.active[n] \in Nat /\ k = IF voices.active[n] > 0 THEN voices.active[n] - 1 ELSE 0
    BY <1>3, <2>3 DEF Tallies, k
  <2>8. Count(voices'.active) <= Polyphony
    <3>1. voices'.active \in Tallies
      BY <2>5 DEF Trackings
    <3>2. \A x \in Notes : voices'.active[x] <= voices.active[x]
      BY <1>3, <2>6, <2>7 DEF Tallies
    <3>3. Count(voices'.active) <= Count(voices.active) /\ Count(voices'.active) \in Nat
      BY <1>3, <3>1, <3>2, CountMonotone, CountType
    <3> QED
      BY <1>3, <3>3
  <2>9. ChannelType'
    <3>1. sounding' \in SUBSET Notes
      BY <1>2, <2>1, <2>2 DEF ChannelType
    <3> QED
      BY <1>1, <1>2, <1>4, <2>1, <2>2, <2>5, <2>8, <3>1 DEF ChannelType
  <2>10. SoundingIsAccounted'
    <3>1. ASSUME ~tampered, NEW x \in sounding'
          PROVE  voices'.active[x] > 0 \/ \E r \in releases' : r.note = x /\ r.current
      <4>1. x \in S /\ x \in sounding /\ x \in Notes
        BY <1>2, <2>1, <2>2, <3>1 DEF ChannelType
      <4>2. CASE x = n
        BY <2>1, <2>2, <4>1, <4>2
      <4>3. CASE x # n
        <5>1. voices.active[x] > 0 \/ \E r \in releases : r.note = x /\ r.current
          BY <1>2, <3>1, <4>1 DEF SoundingIsAccounted
        <5> QED
          BY <2>1, <2>2, <2>6, <4>1, <4>3, <5>1
      <4> QED
        BY <4>2, <4>3
    <3>2. ASSUME ~tampered, NEW x \in Notes
          PROVE  voices'.active[x] + voices'.dropped[x] <= held'[x]
      <4>1. voices.active[x] + voices.dropped[x] <= held[x]
        BY <1>2, <3>2 DEF SoundingIsAccounted
      <4>2. voices.active[x] \in Nat /\ voices.dropped[x] \in Nat /\ held[x] \in Nat
        BY <1>3 DEF Tallies
      <4>3. CASE x = n
        <5>1. voices.dropped[n] = 0
          BY <1>7, <4>2, <4>3 DEF Swallows
        <5>2. voices'.active[x] = k /\ voices'.dropped[x] = 0 /\ held'[x] = held[x] - 1
          BY <1>5, <2>5, <2>6, <4>3, <5>1
        <5>3. held[x] > 0 /\ k <= held[x] - 1
          BY <1>1, <2>7, <4>1, <4>2, <4>3, <5>1
        <5> QED
          BY <2>4, <4>2, <5>2, <5>3
      <4>4. CASE x # n
        BY <1>5, <2>5, <2>6, <4>1, <4>4
      <4> QED
        BY <4>3, <4>4
    <3> QED
      BY <1>1, <3>1, <3>2 DEF SoundingIsAccounted
  <2>11. StrikesAreTimed'
    BY <1>1, <1>2, <2>1, <2>2, <2>5 DEF StrikesAreTimed
  <2>12. Lasted
    BY <2>1, <2>2 DEF Lasted
  <2> QED
    BY <1>1, <2>9, <2>10, <2>11, <2>12 DEF IInv
<1> QED
  BY <1>6, <1>7

\* The file goes on behind a mute; the channel is tampered with.
LEMMA MutedEventKeeps ==
  ASSUME IInv, NEW n \in Notes, MutedEvent(n)
  PROVE  IInv' /\ Lasted
<1>1. /\ muted /\ tampered
      /\ UNCHANGED <<voices, releases, sounding, struck, muted, tampered>>
  BY DEF MutedEvent, IInv
<1>2. held \in Tallies /\ Count(held) \in Nat /\ Count(held) <= MaxHeld /\ MaxHeld \in Nat
  BY CountType, VoiceAssumption DEF IInv, ChannelType
<1>3. held' \in Tallies /\ Count(held') <= MaxHeld
  <2>1. CASE Room /\ held' = [held EXCEPT ![n] = @ + 1]
    <3>1. held' = [held EXCEPT ![n] = held[n] + 1] /\ Count(held) < MaxHeld
      BY <2>1 DEF Room
    <3>2. held' \in Tallies /\ Count(held') = Count(held) + 1
      BY <1>2, <3>1, CountMore
    <3> QED
      BY <1>2, <3>1, <3>2
  <2>2. CASE held[n] > 0 /\ held' = [held EXCEPT ![n] = @ - 1]
    <3>1. held[n] > 0 /\ held' = [held EXCEPT ![n] = held[n] - 1]
      BY <2>2
    <3>2. held' \in Tallies /\ Count(held') = Count(held) - 1
      BY <1>2, <3>1, CountLess
    <3> QED
      BY <1>2, <3>2
  <2> QED
    BY <2>1, <2>2 DEF MutedEvent
<1> QED
  BY <1>1, <1>3 DEF IInv, ChannelType, SoundingIsAccounted, StrikesAreTimed, Lasted

LEMMA ReleaseFiresKeeps ==
  ASSUME IInv, NEW r \in releases, ReleaseFires(r)
  PROVE  IInv' /\ Lasted
<1>1. /\ r.in = 0 /\ releases' = releases \ {r}
      /\ sounding' = IF r.current THEN sounding \ {r.note} ELSE sounding
      /\ UNCHANGED <<held, voices, struck, muted, tampered>>
  BY DEF ReleaseFires
<1>2. ChannelType /\ StrikesAreTimed /\ SoundingIsAccounted
  BY DEF IInv
<1>3. sounding' \subseteq sounding
  BY <1>1
<1>4. ChannelType'
  BY <1>1, <1>2, <1>3 DEF ChannelType
<1>5. SoundingIsAccounted'
  <2>1. ASSUME ~tampered, NEW x \in sounding'
        PROVE  voices.active[x] > 0 \/ \E s \in releases' : s.note = x /\ s.current
    <3>1. voices.active[x] > 0 \/ \E s \in releases : s.note = x /\ s.current
      BY <1>2, <1>3, <2>1 DEF SoundingIsAccounted
    <3>2. ASSUME NEW s \in releases, s.note = x, s.current PROVE s \in releases'
      <4>1. s # r
        BY <1>1, <3>2
      <4> QED
        BY <1>1, <4>1
    <3> QED
      BY <3>1, <3>2
  <2> QED
    BY <1>1, <1>2, <2>1 DEF SoundingIsAccounted
<1>6. StrikesAreTimed'
  BY <1>1, <1>2 DEF StrikesAreTimed
<1>7. Lasted
  <2>1. ASSUME NEW x \in sounding \ sounding' PROVE struck[x] >= MinDuration - EmitAhead
    <3>1. r.current /\ x = r.note
      BY <1>1
    <3>2. struck[x] + r.in >= MinDuration
      BY <1>2, <3>1 DEF StrikesAreTimed
    <3>3. struck[x] \in Nat
      BY <1>2 DEF ChannelType
    <3> QED
      BY <1>1, <3>2, <3>3, VoiceAssumption
  <2> QED
    BY <2>1 DEF Lasted
<1> QED
  BY <1>1, <1>4, <1>5, <1>6, <1>7 DEF IInv

LEMMA MuteKeeps ==
  ASSUME IInv, Mute
  PROVE  IInv' /\ sounding' = {}
<1>1. /\ muted' = TRUE /\ sounding' = {} /\ tampered' = TRUE
      /\ struck' = [n \in Notes |-> MinDuration]
      /\ UNCHANGED <<held, voices, releases>>
  BY DEF Mute
<1>2. ChannelType
  BY DEF IInv
<1>3. MinDuration \in Nat /\ MinDuration \in 0 .. MinDuration
  BY VoiceAssumption
<1>4. ChannelType'
  BY <1>1, <1>2, <1>3 DEF ChannelType
<1>5. StrikesAreTimed'
  <2>1. \A n \in Notes : voices.onTime[n] \in 0 .. MinDuration
    BY <1>2 DEF ChannelType, Trackings
  <2>2. \A r \in releases : r.note \in Notes /\ r.in \in Nat
    BY <1>2 DEF ChannelType, Releases
  <2> QED
    BY <1>1, <1>3, <2>1, <2>2 DEF StrikesAreTimed
<1> QED
  BY <1>1, <1>4, <1>5 DEF IInv, SoundingIsAccounted

LEMMA PauseOrSeekKeeps ==
  ASSUME IInv, PauseOrSeek
  PROVE  IInv' /\ sounding' = {}
<1>1. /\ releases' = {} /\ sounding' = {} /\ voices' = NoTracking
      /\ held' \in {held} \cup {f \in [Notes -> 0 .. 1] : Count(f) <= MaxHeld}
      /\ tampered' = muted /\ muted' = muted
      /\ struck' = [n \in Notes |-> MinDuration]
  BY DEF PauseOrSeek
<1>2. ChannelType
  BY DEF IInv
<1>3. /\ MinDuration \in Nat /\ MinDuration \in 0 .. MinDuration
      /\ MaxHeld \in Nat /\ Polyphony \in Nat
  BY VoiceAssumption
<1>4. held' \in Tallies /\ Count(held') <= MaxHeld
  BY <1>1, <1>2 DEF ChannelType, Tallies
<1>5. ChannelType'
  BY <1>1, <1>2, <1>3, <1>4, NoTrackingFacts DEF ChannelType
<1>6. SoundingIsAccounted'
  <2>1. \A n \in Notes : held'[n] \in Nat
    BY <1>4 DEF Tallies
  <2> QED
    BY <1>1, <2>1, NoTrackingFacts DEF SoundingIsAccounted
<1>7. StrikesAreTimed'
  BY <1>1, <1>3, NoTrackingFacts DEF StrikesAreTimed
<1> QED
  BY <1>1, <1>5, <1>6, <1>7 DEF IInv

LEMMA ElapseKeeps ==
  ASSUME IInv, Elapse
  PROVE  IInv' /\ Lasted
<1> DEFINE sooner(r) == [r EXCEPT !.in = r.in - 1]
<1>1. /\ \A r \in releases : r.in > 0
      /\ releases' = {sooner(r) : r \in releases}
      /\ voices' = [voices EXCEPT !.lastOn = Aged(voices.lastOn, MinInterval),
                                  !.onTime = Aged(voices.onTime, MinDuration)]
      /\ struck' = Aged(struck, MinDuration)
      /\ UNCHANGED <<held, sounding, muted, tampered>>
  BY DEF Elapse, IInv, ChannelType, Trackings
<1>2. ChannelType /\ StrikesAreTimed /\ SoundingIsAccounted
  BY DEF IInv
<1>3. /\ voices \in Trackings /\ voices.lastOn \in [Keys -> 0 .. MinInterval]
      /\ voices.onTime \in [Notes -> 0 .. MinDuration] /\ struck \in [Notes -> 0 .. MinDuration]
      /\ MinDuration \in Nat /\ MinInterval \in Nat
  BY <1>2, VoiceAssumption DEF ChannelType, Trackings
<1>4. /\ Aged(voices.lastOn, MinInterval) \in [Keys -> 0 .. MinInterval]
      /\ Aged(voices.onTime, MinDuration) \in [Notes -> 0 .. MinDuration]
      /\ struck' \in [Notes -> 0 .. MinDuration]
  BY <1>1, <1>3, AgedFacts
<1>5. /\ voices' \in Trackings
      /\ voices'.active = voices.active /\ voices'.dropped = voices.dropped
      /\ voices'.onTime = Aged(voices.onTime, MinDuration)
  BY <1>1, <1>3, <1>4 DEF Trackings
<1>6. \A n \in Notes :
        /\ struck'[n] = IF struck[n] < MinDuration THEN struck[n] + 1 ELSE MinDuration
        /\ voices'.onTime[n] = IF voices.onTime[n] < MinDuration THEN voices.onTime[n] + 1
                                                                 ELSE MinDuration
  BY <1>1, <1>3, <1>5, AgedFacts
<1>7. ASSUME NEW r \in releases
      PROVE  /\ sooner(r) \in Releases
             /\ sooner(r).note = r.note /\ sooner(r).current = r.current
             /\ sooner(r).in = r.in - 1 /\ r.in \in Nat /\ r.note \in Notes
  <2>1. r \in Releases /\ r.in > 0
    BY <1>1, <1>2 DEF ChannelType
  <2>2. r.in - 1 \in 0 .. MinDuration
    BY <1>3, <2>1 DEF Releases
  <2> QED
    BY <2>1, <2>2 DEF Releases
<1> HIDE DEF sooner
<1>8. ChannelType'
  <2>1. releases' \in SUBSET Releases
    BY <1>1, <1>7
  <2> QED
    BY <1>1, <1>2, <1>4, <1>5, <2>1 DEF ChannelType
<1>9. SoundingIsAccounted'
  <2>1. ASSUME NEW n, NEW r \in releases, r.note = n /\ r.current
        PROVE  \E s \in releases' : s.note = n /\ s.current
    <3>1. sooner(r) \in releases'
      BY <1>1
    <3> QED
      BY <1>7, <2>1, <3>1
  <2> QED
    BY <1>1, <1>2, <1>5, <2>1 DEF SoundingIsAccounted
<1>10. StrikesAreTimed'
  <2>1. ASSUME NEW n \in Notes PROVE struck'[n] >= voices'.onTime[n]
    <3>1. struck[n] >= voices.onTime[n]
      BY <1>2 DEF StrikesAreTimed
    <3>2. struck[n] \in 0 .. MinDuration /\ voices.onTime[n] \in 0 .. MinDuration
      BY <1>3
    <3> QED
      BY <1>3, <1>6, <3>1, <3>2
  <2>2. ASSUME NEW s \in releases', s.current PROVE struck'[s.note] + s.in >= MinDuration
    <3>1. PICK r \in releases : s = sooner(r)
      BY <1>1
    <3>2. /\ s.note = r.note /\ s.in = r.in - 1 /\ r.in \in Nat /\ r.note \in Notes
          /\ r.current
      BY <1>7, <2>2, <3>1
    <3>3. struck[r.note] + r.in >= MinDuration
      BY <1>2, <3>2 DEF StrikesAreTimed
    <3>4. r.in > 0
      BY <1>1
    <3>5. struck[r.note] \in 0 .. MinDuration
      BY <1>3, <3>2
    <3> QED
      BY <1>3, <1>6, <3>2, <3>3, <3>4, <3>5
  <2> QED
    BY <2>1, <2>2 DEF StrikesAreTimed
<1>11. Lasted
  BY <1>1 DEF Lasted
<1> QED
  BY <1>1, <1>8, <1>9, <1>10, <1>11 DEF IInv

LEMMA InitIInv == Init => IInv
<1> SUFFICES ASSUME Init PROVE IInv
  OBVIOUS
<1>1. /\ held = [n \in Notes |-> 0] /\ voices = NoTracking /\ releases = {} /\ sounding = {}
      /\ struck = [n \in Notes |-> MinDuration] /\ muted = FALSE /\ tampered = FALSE
  BY DEF Init
<1>2. /\ MinDuration \in Nat /\ MinDuration \in 0 .. MinDuration
      /\ MaxHeld \in Nat /\ Polyphony \in Nat
  BY VoiceAssumption
<1>3. held \in Tallies
  BY <1>1 DEF Tallies
<1>4. Count(held) = 0
  BY <1>1, <1>3, CountZero
<1>5. ChannelType
  <2>1. struck \in [Notes -> 0 .. MinDuration] /\ Count(held) <= MaxHeld
    BY <1>1, <1>2, <1>4
  <2>2. /\ voices \in Trackings
        /\ Count(voices.active) <= Polyphony /\ Count(voices.dropped) <= MaxHeld
    BY <1>1, <1>2, NoTrackingFacts
  <2>3. /\ releases \in SUBSET Releases /\ sounding \in SUBSET Notes
        /\ muted \in BOOLEAN /\ tampered \in BOOLEAN
    BY <1>1
  <2> QED
    BY <1>3, <2>1, <2>2, <2>3 DEF ChannelType
<1>6. SoundingIsAccounted /\ StrikesAreTimed
  BY <1>1, <1>2, NoTrackingFacts DEF SoundingIsAccounted, StrikesAreTimed
<1> QED
  BY <1>1, <1>5, <1>6 DEF IInv

LEMMA StepIInv ==
  ASSUME IInv, [Next]_vars
  PROVE  IInv' /\ (Lasted \/ Mute \/ PauseOrSeek \/ UNCHANGED vars)
<1>1. ASSUME NEW n \in Notes, NoteOnPlays(n) PROVE IInv' /\ Lasted
  BY <1>1, NoteOnPlaysKeeps
<1>2. ASSUME NEW n \in Notes, NoteOnGated(n) PROVE IInv' /\ Lasted
  BY <1>2, NoteOnGatedKeeps
<1>3. ASSUME NEW n \in Notes, NoteOff(n) PROVE IInv' /\ Lasted
  BY <1>3, NoteOffKeeps
<1>4. ASSUME NEW n \in Notes, MutedEvent(n) PROVE IInv' /\ Lasted
  BY <1>4, MutedEventKeeps
<1>5. ASSUME NEW r \in releases, ReleaseFires(r) PROVE IInv' /\ Lasted
  BY <1>5, ReleaseFiresKeeps
<1>6. CASE Mute
  BY <1>6, MuteKeeps
<1>7. CASE Unmute
  BY <1>7 DEF Unmute, IInv, ChannelType, SoundingIsAccounted, StrikesAreTimed, Lasted
<1>8. CASE PauseOrSeek
  BY <1>8, PauseOrSeekKeeps
<1>9. CASE Elapse
  BY <1>9, ElapseKeeps
<1>10. CASE UNCHANGED vars
  BY <1>10 DEF vars, IInv, ChannelType, SoundingIsAccounted, StrikesAreTimed, Lasted
<1> QED
  BY <1>1, <1>2, <1>3, <1>4, <1>5, <1>6, <1>7, <1>8, <1>9, <1>10 DEF Next

LEMMA Inductive == Spec => []IInv
<1>1. IInv /\ [Next]_vars => IInv'
  BY StepIInv
<1> QED
  BY InitIInv, <1>1, PTL DEF Spec

-----------------------------------------------------------------------------
(* Counters and ages stay in their ranges: no more voices than the polyph- *)
(* ony are counted on any pitch, and no more gates than the file may leave *)
(* open (_activeNotes and _droppedNoteOns of _shouldGateNote).             *)
THEOREM TypeCorrect == Spec => []TypeOK
<1>1. ASSUME IInv PROVE TypeOK
  <2>1. /\ held \in Tallies /\ Count(held) <= MaxHeld
        /\ voices.active \in Tallies /\ voices.dropped \in Tallies
        /\ Count(voices.active) <= Polyphony /\ Count(voices.dropped) <= MaxHeld
        /\ Count(held) \in Nat /\ Count(voices.active) \in Nat /\ Count(voices.dropped) \in Nat
        /\ MaxHeld \in Nat /\ Polyphony \in Nat
    BY <1>1, CountType, VoiceAssumption DEF IInv, ChannelType, Trackings
  <2>2. ASSUME NEW n \in Notes
        PROVE  /\ held[n] \in 0 .. MaxHeld
               /\ voices.active[n] <= Polyphony /\ voices.dropped[n] <= MaxHeld
    <3>1. /\ held[n] <= Count(held) /\ voices.active[n] <= Count(voices.active)
          /\ voices.dropped[n] <= Count(voices.dropped)
      BY <2>1, CountHolds
    <3>2. held[n] \in Nat /\ voices.active[n] \in Nat /\ voices.dropped[n] \in Nat
      BY <2>1 DEF Tallies
    <3> QED
      BY <2>1, <3>1, <3>2
  <2>3. held \in [Notes -> 0 .. MaxHeld]
    BY <2>1, <2>2 DEF Tallies
  <2>4. voices \in [active : [Notes -> Nat], dropped : [Notes -> Nat],
                    lastOn : [Keys -> 0 .. MinInterval], onTime : [Notes -> 0 .. MinDuration]]
    BY <1>1 DEF IInv, ChannelType, Trackings, Tallies
  <2>5. releases \subseteq [note : Notes, in : 0 .. MinDuration, current : BOOLEAN]
    BY <1>1 DEF IInv, ChannelType, Releases
  <2> QED
    BY <1>1, <2>2, <2>3, <2>4, <2>5 DEF IInv, ChannelType, TypeOK
<1> QED
  BY <1>1, Inductive, PTL

(* Whatever is gated, evicted, struck again and deferred, every pitch that *)
(* sounds has a voice that the scheduler counts or a deferred note-off     *)
(* that still counts, and every voice has a note of the file to end it.    *)
THEOREM SoundingAccounted == Spec => []SoundingIsAccounted
<1>1. IInv => SoundingIsAccounted
  BY DEF IInv
<1> QED
  BY <1>1, Inductive, PTL

(* So nothing hangs: when the file has released its notes and the timers   *)
(* of _sendNoteOff have fired the instrument is silent.                    *)
THEOREM NothingSticks == Spec => []NoStuckNote
<1>1. ASSUME IInv PROVE NoStuckNote
  <2> SUFFICES ASSUME AtRest, ~tampered, NEW n \in sounding PROVE FALSE
    BY DEF NoStuckNote
  <2>1. n \in Notes /\ releases = {} /\ held[n] = 0
    BY <1>1 DEF AtRest, IInv, ChannelType
  <2>2. voices.active[n] > 0 /\ voices.active[n] + voices.dropped[n] <= 0
    BY <1>1, <2>1 DEF IInv, SoundingIsAccounted
  <2>3. voices.active[n] \in Nat /\ voices.dropped[n] \in Nat
    BY <1>1, <2>1 DEF IInv, ChannelType, Trackings, Tallies
  <2> QED
    BY <2>2, <2>3
<1> QED
  BY <1>1, Inductive, PTL

LEMMA FewReleases == IsFiniteSet(Releases)
<1> DEFINE D == Notes \X ((0 .. MinDuration) \X BOOLEAN)
           f == [d \in D |-> [note |-> d[1], in |-> d[2][1], current |-> d[2][2]]]
<1>1. IsFiniteSet(BOOLEAN)
  <2>1. BOOLEAN = {TRUE} \cup {FALSE}
    OBVIOUS
  <2>2. IsFiniteSet({TRUE})
    BY FS_Singleton
  <2> QED
    BY <2>1, <2>2, FS_AddElement
<1>2. 0 \in Int /\ MinDuration \in Int /\ IsFiniteSet(Notes)
  BY VoiceAssumption
<1>3. IsFiniteSet(0 .. MinDuration)
  BY <1>2, FS_Interval
<1>4. IsFiniteSet((0 .. MinDuration) \X BOOLEAN)
  BY <1>1, <1>3, FS_Product
<1>5. IsFiniteSet(D)
  BY <1>2, <1>4, FS_Product
<1>6. f \in Surjection(D, Releases)
  <2>1. f \in [D -> Releases]
    BY DEF Releases
  <2>2. ASSUME NEW r \in Releases PROVE \E d \in D : f[d] = r
    <3> DEFINE d == <<r.note, <<r.in, r.current>>>>
    <3>1. d \in D
      BY DEF Releases
    <3>2. f[d] = [note |-> r.note, in |-> r.in, current |-> r.current]
      BY <3>1
    <3>3. r = [note |-> r.note, in |-> r.in, current |-> r.current]
      BY DEF Releases
    <3> HIDE DEF d, f, D
    <3> QED
      BY <3>1, <3>2, <3>3
  <2> HIDE DEF f, D
  <2> QED
    BY <2>1, <2>2 DEF Surjection
<1> HIDE DEF f, D
<1> QED
  BY <1>5, <1>6, FS_Surjection

(* The gate keeps to the polyphony, and what sounds beyond it sounds only  *)
(* because a note-off is held back for min_note_duration.                  *)
THEOREM PolyphonyKept == Spec => []PolyphonyHolds
<1>1. ASSUME IInv PROVE PolyphonyHolds
  <2> SUFFICES ASSUME ~tampered
               PROVE  Cardinality(sounding) <=
                         Polyphony + Cardinality({r \in releases : r.current})
    BY <1>1 DEF PolyphonyHolds, IInv, ChannelType
  <2> DEFINE P == {n \in Notes : voices.active[n] > 0}
             R == {r \in releases : r.current}
             Q == {r.note : r \in R}
             f == [r \in R |-> r.note]
  <2>1. voices.active \in Tallies /\ Count(voices.active) <= Polyphony /\ sounding \subseteq Notes
    BY <1>1 DEF IInv, ChannelType, Trackings
  <2>2. IsFiniteSet(P) /\ Cardinality(P) <= Count(voices.active)
    BY <2>1, CountPitches
  <2>3. IsFiniteSet(R)
    <3>1. R \in SUBSET Releases
      BY <1>1 DEF IInv, ChannelType
    <3> HIDE DEF R
    <3> QED
      BY <3>1, FewReleases, FS_Subset
  <2>4. IsFiniteSet(Q) /\ Cardinality(Q) <= Cardinality(R)
    <3>1. f \in Surjection(R, Q)
      BY DEF Surjection
    <3> HIDE DEF f, Q, R
    <3> QED
      BY <2>3, <3>1, FS_Surjection
  <2>5. sounding \in SUBSET (P \cup Q)
    BY <1>1, <2>1 DEF IInv, SoundingIsAccounted
  <2> HIDE DEF P, Q, R
  <2>6. /\ IsFiniteSet(P \cup Q) /\ IsFiniteSet(P \cap Q)
        /\ Cardinality(P \cup Q) = Cardinality(P) + Cardinality(Q) - Cardinality(P \cap Q)
    BY <2>2, <2>4, FS_Union, FS_Intersection
  <2>7. Cardinality(sounding) <= Cardinality(P \cup Q) /\ IsFiniteSet(sounding)
    BY <2>5, <2>6, FS_Subset
  <2>8. /\ Cardinality(P) \in Nat /\ Cardinality(Q) \in Nat /\ Cardinality(R) \in Nat
        /\ Cardinality(P \cap Q) \in Nat /\ Cardinality(sounding) \in Nat
        /\ Cardinality(P \cup Q) \in Nat /\ Count(voices.active) \in Nat /\ Polyphony \in Nat
    BY <2>1, <2>2, <2>3, <2>4, <2>6, <2>7, FS_CardinalityType, CountType, VoiceAssumption
  <2>9. Cardinality(sounding) <= Polyphony + Cardinality(R)
    BY <2>1, <2>2, <2>4, <2>6, <2>7, <2>8
  <2> QED
    BY <2>9 DEF R
<1> QED
  BY <1>1, Inductive, PTL

(* A strike lasts: a note-off, an eviction and the timer of a deferral all *)
(* leave a pitch its min_note_duration, to within the emit-ahead window,   *)
(* and only the steps Mute and PauseOrSeek are exempt.                     *)
THEOREM StrikesLast == Spec => StrikeLasts
<1>1. IInv /\ [Next]_vars =>
        [\/ \A n \in sounding \ sounding' : struck[n] >= MinDuration - EmitAhead
         \/ Mute
         \/ PauseOrSeek]_vars
  BY StepIInv DEF Lasted
<1> QED
  BY <1>1, Inductive, PTL DEF Spec, StrikeLasts

\* An eviction takes the median voice of those with the new one.
LEMMA EvictionIsInside ==
  ASSUME IInv, NEW m \in Notes, NoteOnPlays(m), NEW n \in Notes,
         voices'.active[n] < voices.active[n], Count(voices.active) >= 2
  PROVE  \E l, h \in Notes : /\ l <= n /\ n <= h
                             /\ voices'.active[l] > 0 /\ voices'.active[h] > 0
<1> DEFINE f == voices.active
           g == [f EXCEPT ![m] = f[m] + 1]
           victim == Victim(g)
           v == IF Full(voices) THEN Evicted(voices, victim) ELSE voices
<1>1. f \in Tallies /\ voices \in Trackings
  BY DEF IInv, ChannelType, Trackings
<1>2. voices' = Accept(v, m) /\ (Full(voices) => victim # m)
  BY DEF NoteOnPlays
<1>3. g \in Tallies /\ Count(g) = Count(f) + 1
  BY <1>1, CountMore
<1>4. victim \in Notes /\ (victim # m => f[victim] > 0)
  BY <1>1, VictimOfMore
<1> HIDE DEF victim
<1>5. ASSUME NEW t \in Trackings, voices' = Accept(t, m)
      PROVE  voices'.active = [t.active EXCEPT ![m] = t.active[m] + 1]
  BY <1>5, AcceptFacts
<1>6. Full(voices)
  <2> SUFFICES ASSUME ~Full(voices) PROVE FALSE
    OBVIOUS
  <2>1. voices'.active = g
    BY <1>1, <1>2, <1>5
  <2>2. f[n] \in Nat /\ g[n] \in {f[n], f[n] + 1}
    BY <1>1 DEF Tallies
  <2> QED
    BY <2>1, <2>2
<1>7. victim # m /\ f[victim] > 0 /\ v = Evicted(voices, victim)
  BY <1>2, <1>4, <1>6
<1>8. v \in Trackings /\ v.active = [f EXCEPT ![victim] = f[victim] - 1]
  <2> HIDE DEF v, g
  <2>1. victim \in Notes /\ voices.active[victim] > 0
    BY <1>4, <1>7
  <2>2. /\ Evicted(voices, victim) \in Trackings
        /\ Evicted(voices, victim).active =
             [voices.active EXCEPT ![victim] = voices.active[victim] - 1]
    BY <1>1, <2>1, EvictedFacts
  <2> QED
    BY <1>7, <2>2
<1>9. voices'.active = [v.active EXCEPT ![m] = v.active[m] + 1]
  BY <1>2, <1>5, <1>8
<1>10. voices'.active = [g EXCEPT ![victim] = g[victim] - 1]
  <2> DEFINE a == [v.active EXCEPT ![m] = v.active[m] + 1]
             b == [g EXCEPT ![victim] = g[victim] - 1]
  <2>1. b \in Tallies
    BY <1>1, <1>3, <1>4, <1>7, CountLess DEF Tallies
  <2>2. a \in Tallies
    BY <1>8 DEF Trackings, Tallies
  <2>3. \A x \in Notes : a[x] = b[x]
    BY <1>1, <1>4, <1>7, <1>8 DEF Tallies
  <2> HIDE DEF a, b
  <2>4. a = b
    BY <2>1, <2>2, <2>3, SameTally
  <2> QED
    BY <1>9, <2>4 DEF a, b
<1>11. n = victim
  <2>1. n # m /\ n # victim => voices'.active[n] = f[n]
    BY <1>1, <1>10 DEF Tallies
  <2>2. n = m => voices'.active[n] = f[n] + 1
    BY <1>1, <1>7, <1>10 DEF Tallies
  <2>3. f[n] \in Nat
    BY <1>1 DEF Tallies
  <2> QED
    BY <2>1, <2>2, <2>3
<1>12. Count(g) >= 3
  BY <1>1, <1>3, CountType
<1> HIDE DEF f, g, v
<1> QED
  BY <1>3, <1>10, <1>11, <1>12, VictimIsInside DEF victim

(* The outer voices survive: for any polyphony and any pitches, the median *)
(* that selectPolyphonyVictim evicts lies between two voices that go on.   *)
THEOREM OuterVoicesSurvive == Spec => KeepsOuterVoices
<1>1. ASSUME IInv, [Next]_vars PROVE OuterVoicesStay \/ UNCHANGED vars
  <2>0. /\ voices \in Trackings
        /\ \A n \in Notes : voices.active[n] \in Nat /\ voices.dropped[n] \in Nat
    BY <1>1 DEF IInv, ChannelType, Trackings, Tallies
  <2>1. ASSUME NEW m \in Notes, NoteOnPlays(m) PROVE OuterVoicesStay
    BY <1>1, <2>1, EvictionIsInside DEF OuterVoicesStay
  <2>2. ASSUME NEW m \in Notes, NoteOnGated(m) PROVE OuterVoicesStay
    <3>1. voices'.active = voices.active
      BY <2>0, <2>2, DropFacts DEF NoteOnGated
    <3> QED
      BY <2>0, <3>1 DEF OuterVoicesStay
  <2>3. ASSUME NEW m \in Notes, NoteOff(m) PROVE OuterVoicesStay
    <3>1. CASE Swallows(voices, m)
      <4>1. voices' = [voices EXCEPT !.dropped[m] = voices.dropped[m] - 1]
        BY <2>3, <3>1 DEF NoteOff
      <4>2. voices'.active = voices.active
        BY <2>0, <4>1 DEF Trackings
      <4> QED
        BY <2>0, <4>2 DEF OuterVoicesStay
    <3>2. CASE ~Swallows(voices, m)
      <4>1. voices' = [voices EXCEPT !.active[m] = Max({0, voices.active[m] - 1})]
        BY <2>3, <3>2 DEF NoteOff
      <4>2. voices'.dropped = voices.dropped
        BY <2>0, <4>1 DEF Trackings
      <4> QED
        BY <2>0, <4>2 DEF OuterVoicesStay
    <3> QED
      BY <3>1, <3>2
  <2>4. ASSUME voices' = voices PROVE OuterVoicesStay
    BY <2>0, <2>4 DEF OuterVoicesStay
  <2>5. CASE PauseOrSeek
    <3>1. \A n \in Notes : voices'.dropped[n] = 0
      BY <2>5, NoTrackingFacts DEF PauseOrSeek
    <3> QED
      BY <2>0, <3>1 DEF OuterVoicesStay
  <2>6. CASE Elapse
    <3>1. voices'.active = voices.active
      BY <2>0, <2>6 DEF Elapse, Trackings
    <3> QED
      BY <2>0, <3>1 DEF OuterVoicesStay
  <2>7. (\E m \in Notes : MutedEvent(m)) \/ (\E r \in releases : ReleaseFires(r)) \/ Mute \/ Unmute
          => voices' = voices
    BY DEF MutedEvent, ReleaseFires, Mute, Unmute
  <2> QED
    BY <1>1, <2>1, <2>2, <2>3, <2>4, <2>5, <2>6, <2>7 DEF Next
<1>2. IInv /\ [Next]_vars => [OuterVoicesStay]_vars
  BY <1>1
<1> QED
  BY <1>2, Inductive, PTL DEF Spec, KeepsOuterVoices
=============================================================================
