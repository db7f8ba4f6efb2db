------------------------ MODULE PlaybackTimelineProofs ------------------------
(***************************************************************************)
(* Proofs about PlaybackTimeline, for every file, every compensation and   *)
(* every look-ahead.                                                       *)
(***************************************************************************)
EXTENDS PlaybackTimeline, FiniteSetTheorems, WellFoundedInduction, TLAPS

-----------------------------------------------------------------------------
(* The data: least elements, prefixes of the event list, the compensation. *)

\* A nonempty set of naturals has a least element.
LEMMA LeastNat ==
    ASSUME NEW T \in SUBSET Nat, T # {}
    PROVE  \E x \in T : \A y \in T : x <= y
  <1> DEFINE Less == {ss \in Nat \X Nat : ss[1] < ss[2]}
  <1>1. IsWellFoundedOn(Less, Nat)
    BY NatLessThanWellFounded DEF OpToRel
  <1>2. PICK x \in T : \A y \in T : ~ (<<y, x>> \in Less)
    <2> HIDE DEF Less
    <2> QED BY <1>1, WFMin
  <1>3. ASSUME NEW y \in T PROVE x <= y
    <2>1. ~(<<y, x>> \in Less) BY <1>2
    <2>2. x \in Nat /\ y \in Nat OBVIOUS
    <2>3. ~(y < x) BY <2>1, <2>2
    <2> QED BY <2>2, <2>3
  <1> QED BY <1>3

\* The event list of a file: sorted, and no event after the end.
LEMMA EventList ==
    /\ Len(Times) \in Nat \ {0} /\ Events = 1..Len(Times)
    /\ Times \in [Events -> Nat] /\ Comp \in [Events -> Nat]
    /\ Duration \in Nat
    /\ \A e \in Events : Times[e] <= Duration
    /\ \A e, f \in Events : e <= f => Times[e] <= Times[f]
    /\ \A e, f \in Events : Times[e] < Times[f] => e < f
  <1>1. Len(Times) \in Nat \ {0} /\ Events = 1..Len(Times) /\ Times \in [Events -> Nat]
    BY TimesAssumption DEF Events
  <1>2. Duration \in Nat /\ \A e \in Events : Times[e] <= Duration
    BY <1>1, TimesAssumption DEF Duration
  <1>3. \A e, f \in Events : Times[e] < Times[f] => e < f
    BY <1>1, TimesAssumption
  <1> QED BY <1>1, <1>2, <1>3, TimesAssumption

\* A set of events closed downward is a prefix of the list.
LEMMA PrefixIsInterval ==
    ASSUME NEW D \in SUBSET Events,
           \A e \in D : \A f \in Events : f <= e => f \in D
    PROVE  /\ Cardinality(D) \in 0..Len(Times)
           /\ D = 1..Cardinality(D)
  <1> DEFINE n == Len(Times)
             T == {i \in 1..(n + 1) : i \notin D}
  <1>0. n \in Nat /\ Events = 1..n BY EventList
  <1>1. n + 1 \in T /\ T \in SUBSET Nat BY <1>0
  <1>2. PICK m \in T : \A y \in T : m <= y BY <1>1, LeastNat
  <1>3. m \in 1..(n + 1) /\ m \notin D BY <1>2
  <1> HIDE DEF n
  <1>4. D = 1..(m - 1)
    <2>1. ASSUME NEW i \in 1..(m - 1) PROVE i \in D
      <3>1. i \in 1..(n + 1) /\ ~(m <= i) BY <1>0, <1>3
      <3> QED BY <3>1, <1>2
    <2>2. ASSUME NEW i \in D PROVE i \in 1..(m - 1)
      <3>1. i \in 1..n BY <1>0
      <3>2. CASE m <= i
        BY <3>1, <3>2, <1>0, <1>3
      <3>3. CASE i < m
        BY <3>1, <3>3, <1>0, <1>3
      <3> QED BY <3>1, <3>2, <3>3, <1>0, <1>3
    <2> QED BY <2>1, <2>2
  <1>5. Cardinality(D) = m - 1
    BY <1>0, <1>3, <1>4, FS_Interval
  <1> QED BY <1>0, <1>3, <1>4, <1>5 DEF n

\* IndexAt and IndexAfter split the list at a position.
LEMMA IndexSplits ==
    ASSUME NEW p \in Int
    PROVE  /\ IndexAt(p) \in 1..(Len(Times) + 1)
           /\ IndexAfter(p) \in 1..(Len(Times) + 1)
           /\ \A e \in Events : e < IndexAt(p) <=> Times[e] < p
           /\ \A e \in Events : e < IndexAfter(p) <=> Times[e] <= p
  <1> DEFINE D == {e \in Events : Times[e] < p}
             B == {e \in Events : Times[e] <= p}
  <1>1. Len(Times) \in Nat /\ Events = 1..Len(Times) /\ Times \in [Events -> Nat]
    BY EventList
  <1>2. \A e \in D : \A f \in Events : f <= e => f \in D
    BY <1>1, EventList
  <1>3. \A e \in B : \A f \in Events : f <= e => f \in B
    BY <1>1, EventList
  <1>4. Cardinality(D) \in 0..Len(Times) /\ D = 1..Cardinality(D)
    <2> HIDE DEF D
    <2> QED BY <1>2, PrefixIsInterval DEF D
  <1>5. Cardinality(B) \in 0..Len(Times) /\ B = 1..Cardinality(B)
    <2> HIDE DEF B
    <2> QED BY <1>3, PrefixIsInterval DEF B
  <1>6. IndexAt(p) = 1 + Cardinality(D) /\ IndexAfter(p) = 1 + Cardinality(B)
    BY DEF IndexAt, IndexAfter
  <1>7. /\ \A e \in Events : e \in D <=> Times[e] < p
        /\ \A e \in Events : e \in B <=> Times[e] <= p
    OBVIOUS
  <1> HIDE DEF D, B
  <1>8. \A e \in Events : e < IndexAt(p) <=> Times[e] < p
    <2> SUFFICES ASSUME NEW e \in Events PROVE e < IndexAt(p) <=> e \in D
      BY <1>7
    <2> QED BY <1>1, <1>4, <1>6
  <1>9. \A e \in Events : e < IndexAfter(p) <=> Times[e] <= p
    <2> SUFFICES ASSUME NEW e \in Events PROVE e < IndexAfter(p) <=> e \in B
      BY <1>7
    <2> QED BY <1>1, <1>5, <1>6
  <1> QED BY <1>1, <1>4, <1>5, <1>6, <1>8, <1>9

\* The events from a cursor to a position are an interval.
LEMMA WindowIsInterval ==
    ASSUME NEW c \in 1..(Len(Times) + 1), NEW x \in Int,
           NEW W, W = {e \in Events : e >= c /\ Times[e] <= x}
    PROVE  /\ Cardinality(W) \in Nat
           /\ c + Cardinality(W) \in 1..(Len(Times) + 1)
           /\ \A e \in Events : e \in W <=> c <= e /\ e < c + Cardinality(W)
  <1> DEFINE i == IndexAfter(x)
             n == Len(Times)
  <1>1. n \in Nat /\ Events = 1..n BY EventList
  <1>2. i \in 1..(n + 1) /\ \A e \in Events : e < i <=> Times[e] <= x
    BY IndexSplits
  <1>3. c \in 1..(n + 1) OBVIOUS
  <1> HIDE DEF i, n
  <1>4. W = c..(i - 1) BY <1>1, <1>2, <1>3
  <1>5. Cardinality(W) = IF c > i - 1 THEN 0 ELSE i - c
    <2>1. i - 1 \in Int /\ c \in Int BY <1>1, <1>2, <1>3
    <2>2. Cardinality(c..(i - 1)) = IF c > i - 1 THEN 0 ELSE (i - 1) - c + 1
      BY <2>1, FS_Interval
    <2>3. (i - 1) - c + 1 = i - c BY <2>1, <1>2
    <2> QED BY <1>4, <2>2, <2>3
  <1>6. Cardinality(W) \in Nat /\ c + Cardinality(W) \in 1..(n + 1)
    BY <1>1, <1>2, <1>3, <1>5
  <1>7. \A e \in Events : e \in W <=> c <= e /\ e < c + Cardinality(W)
    BY <1>1, <1>2, <1>3, <1>4, <1>5
  <1> QED BY <1>6, <1>7 DEF n

MaxComp == Max(Range(Comp))

\* The largest compensation exists and bounds every other.
LEMMA MaxCompBounds ==
    /\ MaxComp \in Nat
    /\ \A e \in Events : Comp[e] <= MaxComp
  <1> DEFINE n == Len(Times)
             Bound(b, k) == \A e \in 1..k : Comp[e] <= b
             T == {k \in 1..n : ~\E b \in Nat : Bound(b, k)}
  <1>1. n \in Nat \ {0} /\ Events = 1..n /\ Comp \in [Events -> Nat]
    BY EventList
  <1> HIDE DEF n
  <1>2. T = {}
    <2> SUFFICES ASSUME T # {} PROVE FALSE OBVIOUS
    <2>1. PICK m \in T : \A y \in T : m <= y
      <3>1. T \in SUBSET Nat BY <1>1
      <3> HIDE DEF T
      <3> QED BY <3>1, LeastNat
    <2>2. m \in 1..n /\ ~\E b \in Nat : Bound(b, m) BY <2>1
    <2>3. m # 1
      <3>1. 1 \in Events /\ Comp[1] \in Nat BY <1>1
      <3>2. \A e \in 1..1 : e = 1 OBVIOUS
      <3>3. Bound(Comp[1], 1) BY <3>1, <3>2
      <3> QED BY <2>2, <3>1, <3>3
    <2>4. PICK b \in Nat : Bound(b, m - 1)
      <3>1. m - 1 \in 1..n /\ ~(m <= m - 1) BY <1>1, <2>2, <2>3
      <3>2. m - 1 \notin T BY <3>1, <2>1
      <3> QED BY <3>1, <3>2
    <2>5. Comp[m] \in Nat BY <1>1, <2>2
    <2>6. ASSUME NEW e \in 1..m PROVE Comp[e] <= b + Comp[m]
      <3>0. e \in 1..n /\ m \in Nat BY <1>1, <2>2
      <3>1. Comp[e] \in Nat BY <1>1, <3>0
      <3>2. CASE e = m BY <3>2, <2>5
      <3>3. CASE e # m
        <4>1. e \in 1..(m - 1) BY <3>0, <3>3
        <4>2. Comp[e] <= b BY <4>1, <2>4
        <4> QED BY <4>2, <3>1, <2>5
      <3> QED BY <3>2, <3>3
    <2>7. b + Comp[m] \in Nat /\ Bound(b + Comp[m], m) BY <2>5, <2>6
    <2> QED BY <2>2, <2>7
  <1> DEFINE U == {b \in Nat : Bound(b, n)}
  <1>3. PICK b \in U : \A y \in U : b <= y
    <2>0. n \in 1..n BY <1>1
    <2>1. U # {} BY <2>0, <1>2
    <2>2. U \in SUBSET Nat OBVIOUS
    <2> HIDE DEF U
    <2> QED BY <2>1, <2>2, LeastNat
  <1>4. \E e \in Events : Comp[e] = b
    <2> SUFFICES ASSUME \A e \in Events : Comp[e] # b PROVE FALSE OBVIOUS
    <2>1. \A e \in Events : Comp[e] <= b - 1 /\ Comp[e] \in Nat BY <1>1, <1>3
    <2>2. b - 1 \in U
      <3>1. 1 \in Events BY <1>1
      <3>2. b - 1 \in Nat BY <2>1, <3>1, <1>3
      <3> QED BY <1>1, <2>1, <3>2
    <2> QED BY <1>3, <2>2
  <1>5. b \in Range(Comp) /\ \A y \in Range(Comp) : b >= y
    BY <1>1, <1>3, <1>4 DEF Range
  <1>6. MaxComp \in Range(Comp) /\ \A y \in Range(Comp) : MaxComp >= y
    BY <1>5 DEF MaxComp, Max
  <1> QED BY <1>1, <1>6 DEF Range

\* The position a pause keeps.
LEMMA MinOfTwo ==
    ASSUME NEW a \in Nat, NEW b \in Nat
    PROVE  Min({a, b}) = IF a <= b THEN a ELSE b
  <1> DEFINE m == IF a <= b THEN a ELSE b
  <1>1. m \in {a, b} /\ \A y \in {a, b} : m <= y OBVIOUS
  <1>2. \A x \in {a, b} : (\A y \in {a, b} : x <= y) => x = m OBVIOUS
  <1> HIDE DEF m
  <1>3. Min({a, b}) \in {a, b} /\ \A y \in {a, b} : Min({a, b}) <= y
    BY <1>1 DEF Min
  <1>4. Min({a, b}) = m BY <1>2, <1>3
  <1> QED BY <1>4 DEF m

-----------------------------------------------------------------------------
(* The delays.                                                             *)

\* The constants, in the sets the assumptions put them in.
LEMMA Parameters ==
    /\ Grain \in Nat \ {0} /\ TickPeriod \in Nat \ {0}
    /\ EmitAhead \in Nat /\ Lag \in Nat
    /\ Rates \subseteq Nat \ {0} /\ 1 \in Rates
    /\ Targets \subseteq 0..Duration /\ Lookaheads \subseteq Nat
  BY ParametersAssumption

\* Every rate divides a unit of time evenly.
LEMMA RateDivides ==
    ASSUME NEW r \in Rates
    PROVE  /\ r \in Nat \ {0} /\ Grain \div r \in Nat \ {0}
           /\ r * (Grain \div r) = Grain
  <1>1. Grain \in Nat \ {0} /\ r \in Nat \ {0} /\ Grain % r = 0
    BY ParametersAssumption
  <1>2. Grain = r * (Grain \div r) + (Grain % r)
    BY <1>1
  <1>3. Grain \div r \in Int BY <1>1
  <1>4. r * (Grain \div r) = Grain BY <1>1, <1>2, <1>3
  <1> DEFINE q == Grain \div r
  <1> HIDE DEF q
  <1>5. q \in Int /\ r * q = Grain /\ Grain > 0 /\ r > 0 BY <1>1, <1>3, <1>4 DEF q
  <1>6. q > 0 BY <1>5, <1>1
  <1> QED BY <1>1, <1>4, <1>5, <1>6 DEF q

\* The part of a player the delays depend on.
LEMMA DelayFacts ==
    ASSUME NEW s, s.rate \in Rates, s.anchor \in Nat, NEW e \in Events
    PROVE  /\ Delay(s, e) \in Nat
           /\ Delay(s, e) > 0 =>
                 s.rate * Delay(s, e)
                    = Grain * (Times[e] - s.anchor) - Grain * (s.rate * Comp[e])
           /\ Delay(s, e) <= Grain * EmitAhead =>
                 Times[e] - s.anchor <= (EmitAhead + Comp[e]) * s.rate
           /\ Times[e] - s.anchor > EmitAhead * s.rate + MaxComp
                 /\ (Comp[e] = 0 \/ s.rate = 1)
                 => Delay(s, e) > Grain * EmitAhead
  <1> DEFINE r == s.rate
             q == Grain \div s.rate
             a == s.anchor
             t == Times[e]
             c == Comp[e]
  <1>1. /\ r \in Nat \ {0} /\ q \in Nat \ {0} /\ Grain \in Nat \ {0} /\ EmitAhead \in Nat
        /\ r * q = Grain
    BY RateDivides, Parameters
  <1>2. a \in Nat /\ t \in Nat /\ c \in Nat /\ MaxComp \in Nat /\ c <= MaxComp
    BY EventList, MaxCompBounds
  <1>3. Delay(s, e) = Floor0(q * Floor0(t - a) - Grain * c)
    BY DEF Delay
  <1> DEFINE d == Delay(s, e)
  <1> HIDE DEF r, q, a, t, c
  <1>4. Floor0(t - a) \in Nat /\ (t >= a => Floor0(t - a) = t - a)
          /\ (t < a => Floor0(t - a) = 0)
    BY <1>1, <1>2 DEF Floor0
  <1> DEFINE z == Floor0(t - a)
             x == q * z - Grain * c
  <1>5. z \in Nat /\ x \in Int /\ d = IF x < 0 THEN 0 ELSE x
    BY <1>1, <1>2, <1>3, <1>4 DEF Floor0
  <1>6. r * x = Grain * z - Grain * (r * c)
    <2> HIDE DEF z
    <2>1. r * x = (r * q) * z - Grain * (r * c) BY <1>1, <1>2, <1>5
    <2> QED BY <1>1, <2>1
  <1> HIDE DEF z, x, d
  <1>7. d \in Nat BY <1>5
  <1>8. d > 0 => r * d = Grain * (t - a) - Grain * (r * c)
    <2> SUFFICES ASSUME d > 0 PROVE r * d = Grain * (t - a) - Grain * (r * c)
      OBVIOUS
    <2>1. d = x BY <1>5
    <2>2. z = t - a
      <3> SUFFICES ASSUME t < a PROVE FALSE BY <1>2, <1>4 DEF z
      <3>1. z = 0 BY <1>4 DEF z
      <3>2. x <= 0 BY <1>1, <1>2, <3>1 DEF x
      <3> QED BY <2>1, <3>2, <1>5
    <2> QED BY <2>1, <2>2, <1>6
  <1>9. d <= Grain * EmitAhead => t - a <= (EmitAhead + c) * r
    <2> SUFFICES ASSUME d <= Grain * EmitAhead PROVE t - a <= (EmitAhead + c) * r
      OBVIOUS
    <2>1. x <= Grain * EmitAhead BY <1>1, <1>5, <1>7
    <2>2. q * z <= q * (r * EmitAhead + r * c)
      <3>1. q * z - Grain * c <= Grain * EmitAhead BY <2>1 DEF x
      <3>2. Grain * c = q * (r * c) /\ Grain * EmitAhead = q * (r * EmitAhead)
        BY <1>1, <1>2
      <3> QED BY <3>1, <3>2, <1>1, <1>2, <1>5
    <2>3. z <= r * EmitAhead + r * c BY <2>2, <1>1, <1>2, <1>5
    <2>4. t - a <= z BY <1>2, <1>4, <1>5 DEF z
    <2>5. t - a <= r * EmitAhead + r * c BY <2>3, <2>4, <1>1, <1>2, <1>5
    <2>6. (EmitAhead + c) * r = r * EmitAhead + r * c BY <1>1, <1>2
    <2> QED BY <2>5, <2>6
  <1>10. t - a > EmitAhead * r + MaxComp /\ (c = 0 \/ r = 1) => d > Grain * EmitAhead
    <2> SUFFICES ASSUME t - a > EmitAhead * r + MaxComp, c = 0 \/ r = 1
                 PROVE  d > Grain * EmitAhead
      OBVIOUS
    <2>1. z = t - a
      <3>1. EmitAhead * r \in Nat BY <1>1
      <3> QED BY <3>1, <1>2, <1>4 DEF z
    <2>2. z > EmitAhead * r + r * c
      <3>1. r * c <= MaxComp BY <1>1, <1>2
      <3>2. EmitAhead * r \in Nat /\ r * c \in Nat BY <1>1, <1>2
      <3> QED BY <2>1, <3>1, <3>2, <1>2
    <2>3. q * z > q * (EmitAhead * r + r * c) BY <2>2, <1>1, <1>2, <1>5
    <2>4. q * (EmitAhead * r + r * c) = Grain * EmitAhead + Grain * c
      BY <1>1, <1>2
    <2>5. x > Grain * EmitAhead
      BY <2>3, <2>4, <1>1, <1>2, <1>5 DEF x
    <2>6. Grain * EmitAhead \in Nat BY <1>1
    <2> QED BY <2>5, <2>6, <1>5
  <1> QED BY <1>7, <1>8, <1>9, <1>10 DEF d, r, a, t, c

\* Of two events on devices of one compensation the earlier waits no longer.
LEMMA DelayMonotone ==
    ASSUME NEW s, s.rate \in Rates, s.anchor \in Nat,
           NEW e \in Events, NEW f \in Events,
           Times[e] <= Times[f], Comp[e] = Comp[f]
    PROVE  Delay(s, e) <= Delay(s, f)
  <1> DEFINE q == Grain \div s.rate
  <1>1. q \in Nat \ {0} /\ Grain \in Nat BY RateDivides, Parameters
  <1>2. Times[e] \in Nat /\ Times[f] \in Nat /\ Comp[e] \in Nat BY EventList
  <1> DEFINE y == Floor0(Times[e] - s.anchor)
             z == Floor0(Times[f] - s.anchor)
  <1>3. y \in Nat /\ z \in Nat /\ y <= z BY <1>2 DEF Floor0
  <1>4. Delay(s, e) = Floor0(q * y - Grain * Comp[e]) BY DEF Delay
  <1>5. Delay(s, f) = Floor0(q * z - Grain * Comp[e]) BY DEF Delay
  <1> HIDE DEF q, y, z
  <1>6. q * y <= q * z BY <1>1, <1>3
  <1>7. q * y \in Int /\ q * z \in Int /\ Grain * Comp[e] \in Int BY <1>1, <1>2, <1>3
  <1> QED BY <1>4, <1>5, <1>6, <1>7 DEF Floor0

-----------------------------------------------------------------------------
(* The inductive invariant, in named parts.                                *)

Active(s) == s.playing /\ ~s.paused
Waits(s, e) == \E a \in s.armed : a.event = e

Typed(s) ==
    /\ s \in PlayerType
    /\ s.paused => s.playing
    /\ \A a \in s.armed : a.due >= -(Grain * Lag)

\* A timer is exact; a player that does not run has none.
Exact(s) ==
    \A a \in s.armed :
        s.rate * a.due = Grain * (Times[a.event] - s.anchor) - Grain * (s.rate * Comp[a.event])
Timers(s) == ~s.disturbed => Exact(s) /\ (~Active(s) => s.armed = {})

\* No event is forgotten, or only by a pause, until the resume forgives it.
Accounted(s) ==
    \A e \in s.from..(s.cursor - 1) :
        \/ s.sent[e] > 0 \/ Waits(s, e) \/ e \in s.forgiven
        \/ ~Active(s) /\ (s.disturbed \/ s.position - Lag * s.rate <= Times[e])

\* What the cursor has not passed is out of reach until the next tick.
OutOfReach(s, e) ==
    Times[e] > s.anchor + (s.tickIn + EmitAhead + Lag) * s.rate + MaxComp
Beyond(s) ==
    ~s.disturbed => \A e \in Events : e >= s.cursor =>
        /\ Active(s) => OutOfReach(s, e)
        /\ s.paused => Times[e] >= s.anchor

\* A pause keeps the position.
Kept(s) ==
    s.paused /\ ~s.disturbed => s.position = IF s.anchor <= Duration THEN s.anchor ELSE Duration

\* An uncompensated event that was sent is not to come.
OnceOnly(s, e) ==
    /\ s.sent[e] <= 1
    /\ s.sent[e] > 0 =>
          Times[e] <= (IF Active(s) THEN s.anchor ELSE s.position) + EmitAhead
    /\ Waits(s, e) => s.sent[e] = 0
    /\ ~Active(s) /\ e >= s.cursor => s.sent[e] = 0
Once(s) ==
    s.rate = 1 /\ ~s.disturbed => \A e \in Events : Comp[e] = 0 => OnceOnly(s, e)

Comparable(s, e, f) ==
    /\ s.from <= e /\ Times[e] < Times[f]
    /\ Comp[e] = Comp[f] /\ (Comp[e] = 0 \/ s.rate = 1)
Ordered(s) ==
    ~s.disturbed => \A e, f \in Events :
        Comparable(s, e, f) /\ s.sent[f] > 0 /\ s.sent[e] = 0 => e \in s.forgiven

Sound(s) ==
    /\ Typed(s)
    /\ Timers(s)
    /\ Accounted(s)
    /\ Beyond(s)
    /\ Kept(s)
    /\ Once(s)
    /\ Ordered(s)
    /\ s.cut = {}

Inv == Sound(player)

-----------------------------------------------------------------------------
(* What each method does to the fields of a player.                        *)

\* A pause cancels the timers, sets the position and keeps the rest.
LEMMA PauseFields ==
    ASSUME NEW s \in PlayerType, NEW t, t = Pause(s)
    PROVE  /\ t \in PlayerType
           /\ t.playing = s.playing /\ t.paused /\ t.rate = s.rate /\ t.anchor = s.anchor
           /\ t.position = IF s.anchor <= Duration THEN s.anchor ELSE Duration
           /\ t.cursor = s.cursor /\ t.tickIn = s.tickIn /\ t.armed = {}
           /\ t.sent = s.sent /\ t.from = s.from /\ t.cut = s.cut
           /\ t.forgiven = s.forgiven /\ t.disturbed = s.disturbed
  <1> DEFINE pos == IF s.anchor <= Duration THEN s.anchor ELSE Duration
  <1>1. s.anchor \in Nat /\ Duration \in Nat BY EventList DEF PlayerType
  <1>2. Min({Duration, s.anchor}) = pos BY <1>1, MinOfTwo
  <1>3. pos \in 0..Duration BY <1>1
  <1> HIDE DEF pos
  <1>4. Pause(s) = [s EXCEPT !.armed = {}, !.paused = TRUE, !.position = pos]
    BY <1>2 DEF Pause, StopScheduler, PlayerType
  <1>5. t \in PlayerType BY <1>3, <1>4 DEF PlayerType
  <1> QED BY <1>4, <1>5 DEF PlayerType, pos

\* A move to a position forgets what was sent, armed, cut and forgiven.
LEMMA RelocateFields ==
    ASSUME NEW s \in PlayerType, NEW p \in 0..Duration, NEW t, t = Relocate(s, p)
    PROVE  /\ t \in PlayerType
           /\ t.playing = s.playing /\ t.paused = s.paused /\ t.rate = s.rate
           /\ t.anchor = p /\ t.position = p
           /\ t.cursor = IndexAt(p) /\ t.from = IndexAt(p)
           /\ t.tickIn = TickPeriod /\ t.armed = {} /\ t.sent = [e \in Events |-> 0]
           /\ t.cut = {} /\ ~t.late /\ t.forgiven = {} /\ ~t.disturbed
  <1>1. p \in Nat BY EventList
  <1>2. IndexAt(p) \in 1..(Len(Times) + 1) BY <1>1, IndexSplits
  <1>3. TickPeriod \in (-Lag)..TickPeriod BY Parameters
  <1>4. [e \in Events |-> 0] \in [Events -> 0..2] OBVIOUS
  <1> DEFINE none == [e \in Events |-> 0]
             i == IndexAt(p)
  <1>5. t = [s EXCEPT !.armed = {},
                !.position = p, !.cursor = i, !.anchor = p, !.tickIn = TickPeriod,
                !.sent = none, !.from = i,
                !.disturbed = FALSE, !.forgiven = {}, !.cut = {}, !.late = FALSE]
    BY DEF Relocate, StopScheduler
  <1>6. none \in [Events -> 0..2] /\ i \in 1..(Len(Times) + 1) BY <1>2, <1>4
  <1> HIDE DEF none, i
  <1>7. t \in PlayerType BY <1>1, <1>3, <1>5, <1>6, ZenonT(30) DEF PlayerType
  <1>8. /\ t.playing = s.playing /\ t.paused = s.paused /\ t.rate = s.rate
        /\ t.anchor = p /\ t.position = p /\ t.cursor = i /\ t.from = i
    BY <1>5 DEF PlayerType
  <1>9. /\ t.tickIn = TickPeriod /\ t.armed = {} /\ t.sent = none
        /\ t.cut = {} /\ ~t.late /\ t.forgiven = {} /\ ~t.disturbed
    BY <1>5 DEF PlayerType
  <1> QED BY <1>7, <1>8, <1>9 DEF none, i

\* A send counts, to two, the sends of its events.
LEMMA SendFields ==
    ASSUME NEW s \in PlayerType, NEW E \in SUBSET Events, NEW t, t = Send(s, E)
    PROVE  /\ t \in PlayerType
           /\ t = [s EXCEPT !.sent = t.sent]
           /\ \A e \in Events : t.sent[e] =
                 IF e \in E /\ s.sent[e] < 2 THEN s.sent[e] + 1 ELSE s.sent[e]
  <1> DEFINE new == [e \in Events |-> IF e \in E /\ s.sent[e] < 2 THEN s.sent[e] + 1
                                                               ELSE s.sent[e]]
  <1>1. s.sent \in [Events -> 0..2] BY DEF PlayerType
  <1>2. new \in [Events -> 0..2] BY <1>1
  <1>3. t = [s EXCEPT !.sent = new] BY DEF Send, PlayerType
  <1>4. \A e \in Events : new[e] =
          IF e \in E /\ s.sent[e] < 2 THEN s.sent[e] + 1 ELSE s.sent[e]
    OBVIOUS
  <1> HIDE DEF new
  <1>5. t \in PlayerType /\ t.sent = new BY <1>2, <1>3 DEF PlayerType
  <1> QED BY <1>3, <1>4, <1>5

\* Arming adds timers of the given events only.
LEMMA ArmFields ==
    ASSUME NEW s \in PlayerType, NEW E \in SUBSET Events, NEW t, t = Arm(s, E)
    PROVE  /\ t \in PlayerType
           /\ t = [s EXCEPT !.armed = t.armed]
           /\ t.armed = s.armed \cup {[event |-> e, due |-> Delay(s, e)] : e \in E}
  <1> DEFINE new == s.armed \cup {[event |-> e, due |-> Delay(s, e)] : e \in E}
  <1>1. s.armed \in SUBSET [event : Events, due : Int] /\ s.rate \in Rates /\ s.anchor \in Nat
    BY DEF PlayerType
  <1>2. \A e \in E : Delay(s, e) \in Int BY <1>1, DelayFacts
  <1>3. new \in SUBSET [event : Events, due : Int] BY <1>1, <1>2
  <1>4. t = [s EXCEPT !.armed = new] BY DEF Arm
  <1> HIDE DEF new
  <1>5. t \in PlayerType /\ t.armed = new BY <1>3, <1>4 DEF PlayerType
  <1> QED BY <1>4, <1>5 DEF new

\* A pass before the end of the file leaves the player t.
Timer(s, e) == [event |-> e, due |-> Delay(s, e)]
Dispatched(s, look, t) ==
    /\ t \in PlayerType
    /\ t.playing = s.playing /\ t.rate = s.rate
    /\ t.anchor = s.anchor /\ t.position = s.anchor
    /\ t.cursor = s.cursor + Cardinality(Window(s, look))
    /\ t.tickIn = s.tickIn /\ t.from = s.from /\ t.cut = s.cut /\ t.forgiven = s.forgiven
    /\ \A e \in Events : t.sent[e] =
          IF e \in Near(s, look) /\ s.sent[e] < 2 THEN s.sent[e] + 1 ELSE s.sent[e]
    /\ \/ /\ t.paused = s.paused /\ t.disturbed = s.disturbed
          /\ t.armed = s.armed \cup {Timer(s, e) : e \in Window(s, look) \ Near(s, look)}
       \/ /\ t.paused /\ t.disturbed
          /\ \A a \in t.armed : a.due >= 0

\* What a pass takes, and the part of it that is sent at once.
LEMMA WindowFacts ==
    ASSUME NEW s \in PlayerType, NEW look \in Lookaheads
    PROVE  /\ Window(s, look) \in SUBSET Events /\ Near(s, look) \in SUBSET Window(s, look)
           /\ Cardinality(Window(s, look)) \in Nat
           /\ s.cursor + Cardinality(Window(s, look)) \in 1..(Len(Times) + 1)
           /\ \A e \in Events : e \in Window(s, look) <=>
                 s.cursor <= e /\ e < s.cursor + Cardinality(Window(s, look))
           /\ \A e \in Events : e \in Window(s, look) <=>
                 s.cursor <= e /\ Times[e] <= s.anchor + look + MaxComp
  <1> DEFINE W == Window(s, look)
             x == s.anchor + look + MaxComp
  <1>1. s.cursor \in 1..(Len(Times) + 1) /\ s.anchor \in Nat BY DEF PlayerType
  <1>2. x \in Int BY <1>1, MaxCompBounds, Parameters
  <1>3. Len(Times) \in Nat /\ Events = 1..Len(Times) BY EventList
  <1>4. W = {e \in Events : e >= s.cursor /\ Times[e] <= x} BY DEF Window, MaxComp
  <1>5. Near(s, look) \in SUBSET W BY DEF Near
  <1> HIDE DEF W, x
  <1>6. /\ Cardinality(W) \in Nat
        /\ s.cursor + Cardinality(W) \in 1..(Len(Times) + 1)
        /\ \A e \in Events : e \in W <=> s.cursor <= e /\ e < s.cursor + Cardinality(W)
    BY <1>1, <1>2, <1>4, WindowIsInterval
  <1>7. \A e \in Events : e \in W <=> s.cursor <= e /\ Times[e] <= x BY <1>1, <1>3, <1>4
  <1> QED BY <1>4, <1>5, <1>6, <1>7 DEF W, x

\* A pass inside the file moves the cursor and adds sends and timers.
LEMMA DispatchFields ==
    ASSUME NEW s \in PlayerType, NEW look \in Lookaheads, ~PastEnd(s),
           NEW t \in Dispatch(s, look)
    PROVE  Dispatched(s, look, t)
  <1> DEFINE W == Window(s, look)
             N == Near(s, look)
             n == Cardinality(W)
             sent == Send(s, N)
             done == [sent EXCEPT !.position = s.anchor, !.cursor = @ + n]
  <1>1. /\ W \in SUBSET Events /\ N \in SUBSET W /\ n \in Nat
        /\ s.cursor + n \in 1..(Len(Times) + 1)
    BY WindowFacts
  <1>2. \/ t = Arm(done, W \ N)
        \/ \E k \in N : t = Arm([Pause(done) EXCEPT !.disturbed = TRUE], {e \in W \ N : e > k})
    BY DEF Dispatch
  <1>3. s.anchor \in 0..Duration /\ Duration \in Nat
    BY EventList DEF PlayerType, PastEnd
  <1> HIDE DEF W, N, n
  <1>4. /\ sent \in PlayerType /\ sent = [s EXCEPT !.sent = sent.sent]
        /\ \A e \in Events : sent.sent[e] =
              IF e \in N /\ s.sent[e] < 2 THEN s.sent[e] + 1 ELSE s.sent[e]
    BY <1>1, SendFields
  <1> HIDE DEF sent
  <1>5. /\ done \in PlayerType
        /\ done.playing = s.playing /\ done.paused = s.paused /\ done.rate = s.rate
        /\ done.anchor = s.anchor /\ done.position = s.anchor /\ done.cursor = s.cursor + n
        /\ done.tickIn = s.tickIn /\ done.armed = s.armed /\ done.sent = sent.sent
        /\ done.from = s.from /\ done.cut = s.cut /\ done.forgiven = s.forgiven
        /\ done.disturbed = s.disturbed
    <2>1. sent.cursor = s.cursor BY <1>4 DEF PlayerType
    <2>2. done \in PlayerType BY <1>1, <1>3, <1>4, <2>1 DEF PlayerType
    <2> QED BY <1>4, <2>2 DEF PlayerType
  <1> HIDE DEF done
  <1>6. CASE t = Arm(done, W \ N)
    <2> DEFINE E == W \ N
    <2>0. E \in SUBSET Events /\ t = Arm(done, E) BY <1>1, <1>6
    <2> HIDE DEF E
    <2>1. /\ t \in PlayerType /\ t = [done EXCEPT !.armed = t.armed]
          /\ t.armed = done.armed \cup {[event |-> e, due |-> Delay(done, e)] : e \in E}
      BY <2>0, <1>5, ArmFields
    <2>2. \A e : Delay(done, e) = Delay(s, e) BY <1>5 DEF Delay
    <2>3. t.armed = s.armed \cup {Timer(s, e) : e \in E}
      BY <1>5, <2>1, <2>2 DEF Timer
    <2>4. /\ t.playing = done.playing /\ t.paused = done.paused /\ t.rate = done.rate
          /\ t.anchor = done.anchor /\ t.position = done.position /\ t.cursor = done.cursor
          /\ t.tickIn = done.tickIn /\ t.sent = done.sent /\ t.from = done.from
          /\ t.cut = done.cut /\ t.forgiven = done.forgiven /\ t.disturbed = done.disturbed
      BY <1>5, <2>1 DEF PlayerType
    <2> QED BY <1>4, <1>5, <2>1, <2>3, <2>4 DEF Dispatched, W, N, n, E
  <1>7. ASSUME NEW k \in N,
               t = Arm([Pause(done) EXCEPT !.disturbed = TRUE], {e \in W \ N : e > k})
        PROVE  Dispatched(s, look, t)
    <2> DEFINE p == Pause(done)
               u == [p EXCEPT !.disturbed = TRUE]
               E == {e \in W \ N : e > k}
    <2>1. /\ p \in PlayerType
          /\ p.playing = done.playing /\ p.paused /\ p.rate = done.rate
          /\ p.anchor = done.anchor /\ p.position = done.anchor
          /\ p.cursor = done.cursor /\ p.tickIn = done.tickIn /\ p.armed = {}
          /\ p.sent = done.sent /\ p.from = done.from /\ p.cut = done.cut
          /\ p.forgiven = done.forgiven
      <3>1. done.anchor <= Duration BY <1>3, <1>5
      <3> QED BY <1>5, <3>1, PauseFields
    <2> HIDE DEF p
    <2>2. /\ u \in PlayerType
          /\ u.playing = done.playing /\ u.paused /\ u.rate = done.rate
          /\ u.anchor = done.anchor /\ u.position = done.anchor
          /\ u.cursor = done.cursor /\ u.tickIn = done.tickIn /\ u.armed = {}
          /\ u.sent = done.sent /\ u.from = done.from /\ u.cut = done.cut
          /\ u.forgiven = done.forgiven /\ u.disturbed
      BY <2>1 DEF PlayerType
    <2>3. t = Arm(u, E) BY <1>7 DEF p
    <2> HIDE DEF u
    <2>4. E \in SUBSET Events BY <1>1
    <2> HIDE DEF E
    <2>5. /\ t \in PlayerType /\ t = [u EXCEPT !.armed = t.armed]
          /\ t.armed = u.armed \cup {[event |-> e, due |-> Delay(u, e)] : e \in E}
      BY <2>2, <2>3, <2>4, ArmFields
    <2>6. /\ t.playing = u.playing /\ t.paused = u.paused /\ t.rate = u.rate
          /\ t.anchor = u.anchor /\ t.position = u.position /\ t.cursor = u.cursor
          /\ t.tickIn = u.tickIn /\ t.sent = u.sent /\ t.from = u.from
          /\ t.cut = u.cut /\ t.forgiven = u.forgiven /\ t.disturbed = u.disturbed
      BY <2>2, <2>5 DEF PlayerType
    <2>7. \A a \in t.armed : a.due >= 0
      <3>1. \A e \in E : Delay(u, e) \in Nat
        BY <2>2, <2>4, DelayFacts DEF PlayerType
      <3>2. \A a \in t.armed : \E e \in E : a = [event |-> e, due |-> Delay(u, e)]
        BY <2>2, <2>5
      <3> QED BY <3>1, <3>2
    <2>8. /\ t.playing = s.playing /\ t.paused /\ t.rate = s.rate
          /\ t.anchor = s.anchor /\ t.position = s.anchor /\ t.cursor = s.cursor + n
          /\ t.tickIn = s.tickIn /\ t.from = s.from
          /\ t.cut = s.cut /\ t.forgiven = s.forgiven /\ t.disturbed
      BY <1>5, <2>2, <2>6
    <2>9. \A e \in Events : t.sent[e] =
            IF e \in N /\ s.sent[e] < 2 THEN s.sent[e] + 1 ELSE s.sent[e]
      BY <1>4, <1>5, <2>2, <2>6
    <2> QED BY <2>5, <2>7, <2>8, <2>9 DEF Dispatched, W, N, n
  <1> QED BY <1>2, <1>6, <1>7

-----------------------------------------------------------------------------
(* A pass.                                                                 *)

\* How a pass finds the player: after a start, a seek, a resume or a wait for
\* the tick.
Reached(s) ==
    ~s.disturbed => \/ s.armed = {}
                    \/ \A e \in Events : e >= s.cursor =>
                          Times[e] - s.anchor > EmitAhead * s.rate + MaxComp
OnceBefore(s, e) ==
    /\ s.sent[e] <= 1
    /\ s.sent[e] > 0 => Times[e] <= s.anchor + EmitAhead
    /\ Waits(s, e) => s.sent[e] = 0
    /\ e >= s.cursor => s.sent[e] = 0
Entry(s) ==
    /\ Typed(s) /\ Active(s) /\ s.cut = {} /\ s.tickIn = TickPeriod
    /\ ~s.disturbed => Exact(s)
    /\ \A e \in s.from..(s.cursor - 1) : s.sent[e] > 0 \/ Waits(s, e) \/ e \in s.forgiven
    /\ ~s.disturbed /\ ~PastEnd(s) => \A e \in Events : e >= s.cursor => Times[e] >= s.anchor
    /\ s.rate = 1 /\ ~s.disturbed => \A e \in Events : Comp[e] = 0 => OnceBefore(s, e)
    /\ Ordered(s)
    /\ Reached(s)
    /\ ~s.disturbed /\ ~s.late /\ PastEnd(s) => s.armed = {}

\* A send in time for its compensated instant, not later than its notated one.
Punctual(s, e) ==
    /\ Times[e] - s.anchor <= (EmitAhead + Comp[e]) * s.rate
    /\ Times[e] - s.anchor >= -(Lag * s.rate)

\* A pass before the end leaves a sound player, and sends in time.
LEMMA DispatchSound ==
    ASSUME NEW s, Entry(s), ~PastEnd(s), NEW look \in Lookaheads,
           NEW t \in Dispatch(s, look)
    PROVE  /\ Sound(t)
           /\ \A e \in Events : t.sent[e] > s.sent[e] /\ ~t.disturbed => Punctual(t, e)
  <1> DEFINE W == Window(s, look)
             N == Near(s, look)
  <1>1. s \in PlayerType /\ Typed(s) /\ Active(s) BY DEF Entry, Typed
  <1>2. Dispatched(s, look, t) BY <1>1, DispatchFields
  <1>3. /\ W \in SUBSET Events /\ N \in SUBSET W
        /\ t.cursor \in 1..(Len(Times) + 1) /\ t.cursor = s.cursor + Cardinality(W)
        /\ Cardinality(W) \in Nat
        /\ \A e \in Events : e \in W <=> s.cursor <= e /\ e < t.cursor
        /\ \A e \in Events : e \in W <=> s.cursor <= e /\ Times[e] <= s.anchor + look + MaxComp
    BY <1>1, <1>2, WindowFacts DEF Dispatched
  <1>4. \A e \in W : e \in N <=> Delay(s, e) <= Grain * EmitAhead BY DEF Near
  <1>5. /\ s.rate \in Rates /\ s.rate \in Nat \ {0} /\ s.anchor \in Nat
        /\ s.cursor \in 1..(Len(Times) + 1) /\ s.from \in 1..(Len(Times) + 1)
        /\ s.sent \in [Events -> 0..2] /\ s.tickIn = TickPeriod
        /\ s.armed \in SUBSET [event : Events, due : Int]
        /\ s.disturbed \in BOOLEAN /\ s.paused = FALSE /\ s.playing = TRUE
    BY <1>1, Parameters DEF Entry, Active, PlayerType
  <1>6. /\ Len(Times) \in Nat /\ Events = 1..Len(Times) /\ Times \in [Events -> Nat]
        /\ Comp \in [Events -> Nat] /\ MaxComp \in Nat
    BY EventList, MaxCompBounds
  <1>7. look \in Nat /\ look >= (TickPeriod + EmitAhead + Lag) * s.rate
    BY <1>5, Parameters, WindowAssumption
  <1>8. TickPeriod \in Nat /\ EmitAhead \in Nat /\ Lag \in Nat /\ Grain \in Nat \ {0}
    BY Parameters
  <1>9. \A e \in Events : e >= t.cursor =>
           Times[e] > s.anchor + (TickPeriod + EmitAhead + Lag) * s.rate + MaxComp
    <2> SUFFICES ASSUME NEW e \in Events, e >= t.cursor
                 PROVE  Times[e] > s.anchor + (TickPeriod + EmitAhead + Lag) * s.rate + MaxComp
      OBVIOUS
    <2>1. e \notin W BY <1>3, <1>6
    <2>2. s.cursor <= e
      <3> HIDE DEF W
      <3> QED BY <1>3, <1>5, <1>6
    <2>3. ~(Times[e] <= s.anchor + look + MaxComp)
      <3> HIDE DEF W
      <3> QED BY <2>1, <2>2, <1>3
    <2>5. Times[e] \in Nat /\ s.anchor + look + MaxComp \in Nat
      <3>1. s.anchor \in Nat /\ look \in Nat /\ MaxComp \in Nat BY <1>5, <1>6, <1>7
      <3> QED BY <3>1, <1>6
    <2>4. (TickPeriod + EmitAhead + Lag) * s.rate \in Nat BY <1>5, <1>8
    <2> QED BY <2>3, <2>4, <2>5, <1>5, <1>6, <1>7
  <1>10. \A e \in Events : Delay(s, e) \in Nat BY <1>5, DelayFacts
  <1>11. /\ t \in PlayerType /\ t.playing /\ t.rate = s.rate /\ t.anchor = s.anchor
         /\ t.position = s.anchor /\ t.tickIn = TickPeriod /\ t.from = s.from
         /\ t.cut = {} /\ t.forgiven = s.forgiven
         /\ \A e \in Events : t.sent[e] =
               IF e \in N /\ s.sent[e] < 2 THEN s.sent[e] + 1 ELSE s.sent[e]
    BY <1>2, <1>5 DEF Dispatched, Entry
  <1>12. \/ /\ t.paused = s.paused /\ t.disturbed = s.disturbed
            /\ t.armed = s.armed \cup {Timer(s, e) : e \in W \ N}
         \/ /\ t.paused /\ t.disturbed
            /\ \A a \in t.armed : a.due >= 0
    BY <1>2 DEF Dispatched
  <1> HIDE DEF W, N
  <1>13. CASE t.paused /\ t.disturbed /\ \A a \in t.armed : a.due >= 0
    <2>1. Typed(t)
      <3>1. \A a \in t.armed : a.due \in Int BY <1>11 DEF PlayerType
      <3> QED BY <3>1, <1>8, <1>11, <1>13 DEF Typed
    <2>2. Timers(t) /\ Accounted(t) /\ Beyond(t) /\ Kept(t) /\ Once(t) /\ Ordered(t)
      BY <1>13 DEF Timers, Accounted, Beyond, Kept, Once, Ordered, Active
    <2> QED BY <1>11, <1>13, <2>1, <2>2 DEF Sound
  <1>14. CASE /\ t.paused = s.paused /\ t.disturbed = s.disturbed
              /\ t.armed = s.armed \cup {Timer(s, e) : e \in W \ N}
    <2>1. Active(t) /\ ~t.paused BY <1>5, <1>11, <1>14 DEF Active
    <2>2. \A e \in W \ N : Timer(s, e).event = e /\ Timer(s, e).due = Delay(s, e)
      BY DEF Timer
    <2>3. \A a \in t.armed : a \in s.armed \/ (a.event \in W \ N /\ a.due = Delay(s, a.event))
      BY <1>14, <2>2
    <2>4. \A e \in Events : Waits(t, e) <=> Waits(s, e) \/ e \in W \ N
      BY <1>14, <2>2 DEF Waits
    <2>5. \A e \in W \ N : Delay(s, e) > Grain * EmitAhead
      BY <1>3, <1>4, <1>8, <1>10
    <2>6. Typed(t)
      <3>1. \A a \in t.armed : a.due >= -(Grain * Lag)
        BY <2>3, <1>1, <1>3, <1>8, <1>10 DEF Typed
      <3> QED BY <3>1, <1>11, <2>1 DEF Typed
    <2>7. Timers(t)
      <3> SUFFICES ASSUME ~t.disturbed, NEW a \in t.armed
                   PROVE  t.rate * a.due =
                            Grain * (Times[a.event] - t.anchor) - Grain * (t.rate * Comp[a.event])
        BY <2>1 DEF Timers, Exact
      <3>1. CASE a \in s.armed
        BY <3>1, <1>11, <1>14 DEF Entry, Exact
      <3>2. CASE a.event \in W \ N /\ a.due = Delay(s, a.event)
        <4>1. a.due > 0 BY <3>2, <2>5, <1>3, <1>8, <1>10
        <4> QED BY <3>2, <4>1, <1>3, <1>5, <1>11, DelayFacts
      <3> QED BY <2>3, <3>1, <3>2
    <2>8. Accounted(t)
      <3> SUFFICES ASSUME NEW e \in t.from..(t.cursor - 1)
                   PROVE  t.sent[e] > 0 \/ Waits(t, e) \/ e \in t.forgiven
        BY DEF Accounted
      <3>1. e \in Events BY <1>3, <1>5, <1>6, <1>11
      <3>2. CASE e < s.cursor
        <4>1. e \in s.from..(s.cursor - 1) BY <3>2, <1>5, <1>3, <1>11
        <4>2. s.sent[e] > 0 \/ Waits(s, e) \/ e \in s.forgiven BY <4>1 DEF Entry
        <4>3. s.sent[e] > 0 => t.sent[e] > 0 BY <3>1, <1>5, <1>11
        <4> QED BY <3>1, <4>2, <4>3, <2>4, <1>11
      <3>3. CASE e >= s.cursor
        <4>1. e \in W BY <3>1, <3>3, <1>3, <1>6
        <4>2. CASE e \in N BY <3>1, <4>2, <1>5, <1>11
        <4>3. CASE e \notin N BY <3>1, <4>1, <4>3, <2>4
        <4> QED BY <4>2, <4>3
      <3> QED BY <3>1, <3>2, <3>3, <1>5, <1>6
    <2>9. Beyond(t) /\ Kept(t)
      BY <1>9, <1>11, <2>1 DEF Beyond, Kept, OutOfReach
    <2>10. Once(t)
      <3> SUFFICES ASSUME t.rate = 1, ~t.disturbed, NEW e \in Events, Comp[e] = 0
                   PROVE  OnceOnly(t, e)
        BY DEF Once
      <3>1. OnceBefore(s, e) BY <1>11, <1>14 DEF Entry
      <3>2. CASE e \in N
        <4>1. e \in W /\ s.sent[e] = 0 BY <3>1, <3>2, <1>3, <1>5 DEF OnceBefore
        <4>2. t.sent[e] = 1 BY <3>2, <4>1, <1>11
        <4>3. Times[e] <= t.anchor + EmitAhead
          <5>1. Times[e] - s.anchor <= (EmitAhead + Comp[e]) * s.rate
            BY <3>2, <4>1, <1>4, <1>5, DelayFacts
          <5>2. s.rate = 1 /\ Times[e] \in Nat BY <1>6, <1>11
          <5> QED BY <5>1, <5>2, <1>5, <1>8, <1>11
        <4>4. ~Waits(t, e)
          <5> SUFFICES ASSUME Waits(s, e) PROVE FALSE BY <3>2, <2>4
          <5>1. s.armed # {} BY DEF Waits
          <5>2. Times[e] - s.anchor > EmitAhead * s.rate + MaxComp
            BY <5>1, <4>1, <1>3, <1>14 DEF Entry, Reached
          <5>3. Delay(s, e) > Grain * EmitAhead BY <5>2, <1>5, DelayFacts
          <5>4. Delay(s, e) <= Grain * EmitAhead BY <3>2, <4>1, <1>4
          <5> QED BY <5>3, <5>4, <1>8, <1>10
        <4> QED BY <4>2, <4>3, <4>4, <2>1 DEF OnceOnly
      <3>3. CASE e \notin N
        <4>1. t.sent[e] = s.sent[e] BY <3>3, <1>11
        <4>2. Waits(t, e) => s.sent[e] = 0
          BY <3>1, <2>4, <1>3 DEF OnceBefore
        <4> QED BY <3>1, <4>1, <4>2, <1>11, <2>1 DEF OnceOnly, OnceBefore
      <3> QED BY <3>2, <3>3
    <2>11. Ordered(t)
      <3> SUFFICES ASSUME ~t.disturbed, NEW e \in Events, NEW f \in Events,
                          Comparable(t, e, f), t.sent[f] > 0, t.sent[e] = 0
                   PROVE  e \in t.forgiven
        BY DEF Ordered
      <3>1. Comparable(s, e, f) BY <1>11 DEF Comparable
      <3>2. s.sent[e] = 0 /\ e \notin N BY <1>5, <1>11
      <3>3. CASE s.sent[f] > 0
        BY <3>1, <3>2, <3>3, <1>11, <1>14 DEF Entry, Ordered
      <3>4. CASE ~(s.sent[f] > 0)
        <4>1. f \in N /\ f \in W /\ Delay(s, f) <= Grain * EmitAhead
          BY <3>4, <1>3, <1>4, <1>11
        <4>2. Delay(s, e) <= Delay(s, f)
          <5>1. Times[e] <= Times[f] /\ Comp[e] = Comp[f]
            BY <3>1, <1>6 DEF Comparable
          <5> QED BY <5>1, <1>5, DelayMonotone
        <4>3. e \notin W BY <3>2, <4>1, <4>2, <1>4, <1>8, <1>10
        <4>4. e < f BY <3>1, EventList DEF Comparable
        <4>5. e < s.cursor
          <5>0. /\ e \in 1..Len(Times) /\ f \in 1..Len(Times) /\ Len(Times) \in Nat
                /\ s.cursor \in 1..(Len(Times) + 1) /\ t.cursor \in 1..(Len(Times) + 1)
            BY <1>3, <1>5, <1>6
          <5>1. e \in Nat /\ f \in Nat /\ s.cursor \in Nat /\ t.cursor \in Nat
            BY ONLY <5>0
          <5>2. f < t.cursor BY <4>1, <1>3
          <5>3. e < t.cursor BY <4>4, <5>1, <5>2
          <5>4. ~(s.cursor <= e) BY <4>3, <5>3, <1>3
          <5> QED BY <5>1, <5>4
        <4>6. e \in s.from..(s.cursor - 1) BY <4>5, <3>1, <1>5, <1>6 DEF Comparable
        <4>7. Waits(s, e) \/ e \in s.forgiven BY <4>6, <3>2 DEF Entry
        <4>8. ~Waits(s, e)
          <5> SUFFICES ASSUME Waits(s, e) PROVE FALSE OBVIOUS
          <5>1. s.armed # {} BY DEF Waits
          <5>2. Times[f] - s.anchor > EmitAhead * s.rate + MaxComp
            BY <5>1, <4>1, <1>3, <1>14 DEF Entry, Reached
          <5>3. Comp[f] = 0 \/ s.rate = 1 BY <3>1 DEF Comparable
          <5>4. Delay(s, f) > Grain * EmitAhead BY <5>2, <5>3, <1>5, DelayFacts
          <5> QED BY <5>4, <4>1, <1>8, <1>10
        <4> QED BY <4>7, <4>8, <1>11
      <3> QED BY <3>3, <3>4
    <2>12. ASSUME NEW e \in Events, t.sent[e] > s.sent[e], ~t.disturbed PROVE Punctual(t, e)
      <3>1. e \in N /\ e \in W BY <2>12, <1>3, <1>5, <1>11
      <3>2. Times[e] - s.anchor <= (EmitAhead + Comp[e]) * s.rate
        BY <3>1, <1>4, <1>5, DelayFacts
      <3>3. Times[e] >= s.anchor BY <2>12, <3>1, <1>3, <1>14 DEF Entry
      <3>4. Lag * s.rate \in Nat /\ Times[e] \in Nat BY <1>5, <1>6, <1>8
      <3>5. Times[e] - s.anchor >= -(Lag * s.rate) BY <3>3, <3>4, <1>5
      <3> QED BY <3>2, <3>5, <1>11 DEF Punctual
    <2> QED BY <1>11, <2>6, <2>7, <2>8, <2>9, <2>10, <2>11, <2>12 DEF Sound
  <1> QED BY <1>12, <1>13, <1>14

-----------------------------------------------------------------------------
(* The methods: from a sound player to a pass, or to a sound player.       *)

\* A start and a seek begin a new history.
LEMMA StartEntry ==
    ASSUME NEW s \in PlayerType, NEW p \in 0..Duration, NEW t, t = StartAt(s, p)
    PROVE  Entry(t) /\ ~PastEnd(t) /\ \A e \in Events : t.sent[e] = 0
  <1> DEFINE r == Relocate(s, p)
  <1>1. /\ r \in PlayerType
        /\ r.rate = s.rate /\ r.anchor = p /\ r.position = p
        /\ r.cursor = IndexAt(p) /\ r.from = IndexAt(p)
        /\ r.tickIn = TickPeriod /\ r.armed = {} /\ r.sent = [e \in Events |-> 0]
        /\ r.cut = {} /\ ~r.late /\ r.forgiven = {} /\ ~r.disturbed
    BY RelocateFields
  <1> HIDE DEF r
  <1>2. t = [r EXCEPT !.playing = TRUE, !.paused = FALSE] BY DEF StartAt, r
  <1>3. /\ t \in PlayerType /\ t.playing /\ ~t.paused
        /\ t.rate = s.rate /\ t.anchor = p /\ t.position = p
        /\ t.cursor = IndexAt(p) /\ t.from = IndexAt(p)
        /\ t.tickIn = TickPeriod /\ t.armed = {} /\ t.sent = [e \in Events |-> 0]
        /\ t.cut = {} /\ ~t.late /\ t.forgiven = {} /\ ~t.disturbed
    BY <1>1, <1>2 DEF PlayerType
  <1>4. p \in Nat /\ p <= Duration BY EventList
  <1>5. IndexAt(p) \in 1..(Len(Times) + 1) /\ \A e \in Events : e < IndexAt(p) <=> Times[e] < p
    BY <1>4, IndexSplits, EventList
  <1>6. \A e \in Events : t.sent[e] = 0 BY <1>3
  <1>7. \A e \in Events : e \in Nat /\ Times[e] \in Nat BY EventList
  <1>8. ~PastEnd(t) BY <1>3, <1>4, EventList DEF PastEnd
  <1>9. Typed(t) /\ Active(t) BY <1>3 DEF Typed, Active
  <1>10. \A e \in Events : e >= t.cursor => Times[e] >= t.anchor
    BY <1>3, <1>4, <1>5, <1>7
  <1>11. t.from..(t.cursor - 1) = {} BY <1>3, <1>5
  <1>12. \A e \in Events : OnceBefore(t, e)
    BY <1>3, <1>6 DEF OnceBefore, Waits
  <1>13. Ordered(t) /\ Reached(t) BY <1>3, <1>6 DEF Ordered, Reached
  <1>14. Exact(t) BY <1>3 DEF Exact
  <1> QED BY <1>3, <1>6, <1>8, <1>9, <1>10, <1>11, <1>12, <1>13, <1>14 DEF Entry

\* A player that a stop or a seek leaves without timers.
LEMMA AtRestSound ==
    ASSUME NEW t \in PlayerType, t.paused => t.playing, ~Active(t),
           NEW p \in 0..Duration, t.anchor = p, t.position = p,
           t.cursor = IndexAt(p), t.from = IndexAt(p), t.armed = {},
           t.sent = [e \in Events |-> 0], t.cut = {}
    PROVE  Sound(t)
  <1>1. p \in Nat /\ p <= Duration BY EventList
  <1>2. IndexAt(p) \in 1..(Len(Times) + 1) /\ \A e \in Events : e < IndexAt(p) <=> Times[e] < p
    BY <1>1, IndexSplits
  <1>3. \A e \in Events : e \in Nat /\ Times[e] \in Nat /\ t.sent[e] = 0 BY EventList
  <1>4. Typed(t) /\ Timers(t) BY DEF Typed, Timers, Exact
  <1>5. t.from..(t.cursor - 1) = {} BY <1>2
  <1>6. Accounted(t) BY <1>5 DEF Accounted
  <1>7. Beyond(t) /\ Kept(t) BY <1>1, <1>2, <1>3 DEF Beyond, Kept
  <1>8. Once(t) BY <1>3 DEF Once, OnceOnly, Waits
  <1>9. Ordered(t) BY <1>3 DEF Ordered
  <1> QED BY <1>4, <1>6, <1>7, <1>8, <1>9 DEF Sound

\* A stop leaves the player at the start of the file, with nothing sent.
LEMMA StopSound ==
    ASSUME NEW s \in PlayerType, NEW t, t = Stop(s)
    PROVE  Sound(t) /\ \A e \in Events : t.sent[e] = 0
  <1> DEFINE r == Relocate(s, 0)
  <1>1. 0 \in 0..Duration BY EventList
  <1>2. /\ r \in PlayerType /\ r.anchor = 0 /\ r.position = 0
        /\ r.cursor = IndexAt(0) /\ r.from = IndexAt(0)
        /\ r.armed = {} /\ r.sent = [e \in Events |-> 0] /\ r.cut = {}
    BY <1>1, RelocateFields
  <1> HIDE DEF r
  <1>3. t = [r EXCEPT !.playing = FALSE, !.paused = FALSE] BY DEF Stop, r
  <1>4. /\ t \in PlayerType /\ ~t.playing /\ ~t.paused /\ t.anchor = 0 /\ t.position = 0
        /\ t.cursor = IndexAt(0) /\ t.from = IndexAt(0)
        /\ t.armed = {} /\ t.sent = [e \in Events |-> 0] /\ t.cut = {}
    BY <1>2, <1>3 DEF PlayerType
  <1>5. Sound(t) BY <1>1, <1>4, AtRestSound DEF Active
  <1> QED BY <1>4, <1>5

\* A seek of a paused player leaves it paused, at the target.
LEMMA PausedSeekSound ==
    ASSUME NEW s \in PlayerType, s.playing, s.paused, NEW p \in 0..Duration,
           NEW t, t = Relocate(s, p)
    PROVE  Sound(t) /\ \A e \in Events : t.sent[e] = 0
  <1>1. /\ t \in PlayerType /\ t.playing /\ t.paused /\ t.anchor = p /\ t.position = p
        /\ t.cursor = IndexAt(p) /\ t.from = IndexAt(p)
        /\ t.armed = {} /\ t.sent = [e \in Events |-> 0] /\ t.cut = {}
    BY RelocateFields
  <1>2. Sound(t) BY <1>1, AtRestSound DEF Active
  <1> QED BY <1>1, <1>2

\* A pass, the end of the file included.
LEMMA PassSound ==
    ASSUME NEW s, Entry(s), NEW look \in Lookaheads, NEW t \in Pass(s, look)
    PROVE  /\ Sound(t)
           /\ \A e \in Events : t.sent[e] > s.sent[e] /\ ~t.disturbed => Punctual(t, e)
  <1>1. s \in PlayerType /\ \A e \in Events : s.sent[e] \in 0..2
    BY DEF Entry, Typed, PlayerType
  <1>2. CASE ~PastEnd(s)
    <2>1. t \in Dispatch(s, look) BY <1>2 DEF Pass
    <2> QED BY <1>2, <2>1, DispatchSound
  <1>3. CASE PastEnd(s)
    <2> DEFINE cut == IF s.disturbed \/ s.late THEN {} ELSE {a.event : a \in s.armed}
    <2>1. cut = {} BY <1>3 DEF Entry
    <2>2. \/ t = [Stop(s) EXCEPT !.cut = cut]
          \/ \E r \in Dispatch(StartAt(s, 0), look) : t = [r EXCEPT !.cut = cut]
      BY <1>3, Zenon DEF Pass, FileEnd
    <2> HIDE DEF cut
    <2>3. ASSUME NEW r \in PlayerType, r.cut = {} PROVE [r EXCEPT !.cut = {}] = r
      BY <2>3 DEF PlayerType
    <2>4. CASE t = [Stop(s) EXCEPT !.cut = cut]
      <3>1. /\ Sound(Stop(s)) /\ \A e \in Events : Stop(s).sent[e] = 0
        BY <1>1, StopSound
      <3>2. t = Stop(s) BY <2>1, <2>3, <2>4, <3>1 DEF Sound, Typed
      <3> QED BY <1>1, <3>1, <3>2
    <2>5. ASSUME NEW r \in Dispatch(StartAt(s, 0), look), t = [r EXCEPT !.cut = cut]
          PROVE  /\ Sound(t)
                 /\ \A e \in Events : t.sent[e] > s.sent[e] /\ ~t.disturbed => Punctual(t, e)
      <3>1. 0 \in 0..Duration BY EventList
      <3>2. /\ Entry(StartAt(s, 0)) /\ ~PastEnd(StartAt(s, 0))
            /\ \A e \in Events : StartAt(s, 0).sent[e] = 0
        BY <1>1, <3>1, StartEntry
      <3>3. /\ Sound(r)
            /\ \A e \in Events : r.sent[e] > 0 /\ ~r.disturbed => Punctual(r, e)
        BY <3>2, DispatchSound
      <3>4. t = r BY <2>1, <2>3, <2>5, <3>3 DEF Sound, Typed
      <3>5. \A e \in Events : r.sent[e] \in 0..2 BY <3>3 DEF Sound, Typed, PlayerType
      <3> QED BY <1>1, <3>3, <3>4, <3>5
    <2> QED BY <2>2, <2>4, <2>5
  <1> QED BY <1>2, <1>3

\* The fields of a player, and the constants, in the sets they belong to.
Fields(s) ==
    /\ s.playing \in BOOLEAN /\ s.paused \in BOOLEAN /\ s.disturbed \in BOOLEAN
    /\ s.rate \in Rates /\ s.rate \in Nat \ {0} /\ s.anchor \in Nat
    /\ s.position \in 0..Duration /\ s.tickIn \in (-Lag)..TickPeriod
    /\ s.cursor \in 1..(Len(Times) + 1) /\ s.from \in 1..(Len(Times) + 1)
    /\ s.armed \in SUBSET [event : Events, due : Int]
    /\ s.sent \in [Events -> 0..2] /\ s.forgiven \in SUBSET Events
Constants ==
    /\ Grain \in Nat \ {0} /\ TickPeriod \in Nat \ {0} /\ EmitAhead \in Nat /\ Lag \in Nat
    /\ Len(Times) \in Nat /\ Duration \in Nat /\ MaxComp \in Nat
    /\ \A e \in Events : /\ e \in 1..Len(Times) /\ Times[e] \in Nat /\ Times[e] <= Duration
                         /\ Comp[e] \in Nat /\ Comp[e] <= MaxComp
    /\ \A e, f \in Events : Times[e] < Times[f] => e < f

\* The fields of a player and the constants, from the type.
LEMMA Facts ==
    ASSUME NEW s \in PlayerType
    PROVE  Fields(s) /\ Constants
  <1>1. Fields(s) BY Parameters DEF Fields, PlayerType
  <1>2. Constants BY Parameters, EventList, MaxCompBounds DEF Constants
  <1> QED BY <1>1, <1>2

\* The numbers a step about one event compares.
LEMMA Magnitudes ==
    ASSUME NEW s \in PlayerType, NEW e \in Events
    PROVE  /\ e \in Nat /\ Times[e] \in Nat /\ Times[e] <= Duration
           /\ Comp[e] \in Nat /\ Comp[e] <= MaxComp
           /\ s.rate \in Nat \ {0} /\ s.anchor \in Nat
           /\ s.position \in Nat /\ s.position <= Duration
           /\ s.tickIn \in Int /\ s.tickIn >= -Lag /\ s.cursor \in Nat /\ s.from \in Nat
           /\ Grain \in Nat \ {0} /\ TickPeriod \in Nat /\ EmitAhead \in Nat
           /\ Lag \in Nat /\ MaxComp \in Nat /\ Duration \in Nat
  <1>1. Fields(s) /\ Constants BY Facts
  <1>2. e \in 1..Len(Times) /\ Len(Times) \in Nat BY <1>1 DEF Constants
  <1>3. /\ Grain \in Nat \ {0} /\ TickPeriod \in Nat /\ EmitAhead \in Nat
        /\ Lag \in Nat /\ MaxComp \in Nat /\ Duration \in Nat
    BY <1>1 DEF Constants
  <1>4. /\ Times[e] \in Nat /\ Times[e] <= Duration
        /\ Comp[e] \in Nat /\ Comp[e] <= MaxComp
    BY <1>1 DEF Constants
  <1>5. /\ s.rate \in Nat \ {0} /\ s.anchor \in Nat /\ s.position \in 0..Duration
        /\ s.tickIn \in (-Lag)..TickPeriod
        /\ s.cursor \in 1..(Len(Times) + 1) /\ s.from \in 1..(Len(Times) + 1)
    BY <1>1 DEF Fields
  <1>6. e \in Nat /\ s.cursor \in Nat /\ s.from \in Nat BY <1>2, <1>5
  <1>7. /\ s.position \in Nat /\ s.position <= Duration
        /\ s.tickIn \in Int /\ s.tickIn >= -Lag
    <2>1. s.position \in 0..Duration /\ s.tickIn \in (-Lag)..TickPeriod BY <1>5
    <2> QED BY <2>1, <1>3
  <1>8. s.rate \in Nat \ {0} /\ s.anchor \in Nat BY <1>5
  <1> QED BY <1>3, <1>4, <1>6, <1>7, <1>8

\* No timer is behind its notated instant by more than the lag, and one that
\* fires is past its compensated instant.
LEMMA LateIsBounded ==
    ASSUME NEW s, Typed(s), Exact(s), NEW a \in s.armed
    PROVE  /\ Times[a.event] - s.anchor >= -(Lag * s.rate)
           /\ a.due <= 0 => Times[a.event] - s.anchor <= s.rate * Comp[a.event]
  <1> DEFINE r == s.rate
             d == a.due
             x == Times[a.event] - s.anchor
             c == Comp[a.event]
  <1>1. Fields(s) /\ Constants BY Facts DEF Typed
  <1>2. a.event \in Events /\ d \in Int /\ d >= -(Grain * Lag) BY <1>1 DEF Fields, Typed
  <1>3. r \in Nat \ {0} /\ x \in Int /\ c \in Nat
    <2>1. /\ s.rate \in Nat \ {0} /\ Times[a.event] \in Nat /\ s.anchor \in Nat
          /\ Comp[a.event] \in Nat
      BY <1>2, Magnitudes DEF Typed
    <2> QED BY <2>1
  <1>4. r * d = Grain * x - Grain * (r * c) BY DEF Exact
  <1>5. Grain \in Nat \ {0} /\ Lag \in Nat BY <1>1 DEF Constants
  <1> HIDE DEF r, d, x, c
  <1>6. x >= -(Lag * r)
    <2>1. r * d >= r * (-(Grain * Lag)) BY <1>2, <1>3, <1>5
    <2>2. r * (-(Grain * Lag)) = Grain * (-(Lag * r)) BY <1>3, <1>5
    <2>3. Grain * (r * c) >= 0 BY <1>3, <1>5
    <2>4. Grain * x \in Int /\ Grain * (r * c) \in Int /\ r * d \in Int
      BY <1>2, <1>3, <1>5
    <2>5. Grain * x >= Grain * (-(Lag * r)) BY <2>1, <2>2, <2>3, <2>4, <1>4, <1>3, <1>5
    <2> QED BY <2>5, <1>3, <1>5
  <1>7. d <= 0 => x <= r * c
    <2> SUFFICES ASSUME d <= 0 PROVE x <= r * c OBVIOUS
    <2>1. r * d <= 0 BY <1>2, <1>3
    <2>2. Grain * x <= Grain * (r * c) BY <2>1, <1>2, <1>3, <1>4, <1>5
    <2> QED BY <2>2, <1>3, <1>5
  <1> QED BY <1>6, <1>7 DEF r, d, x, c

\* What the cursor of a running player has not passed is to come.
LEMMA ToCome ==
    ASSUME NEW s, Typed(s), NEW e \in Events, OutOfReach(s, e)
    PROVE  /\ Times[e] >= s.anchor
           /\ Times[e] - s.anchor > MaxComp
           /\ s.rate = 1 => Times[e] > s.anchor + EmitAhead
           /\ Times[e] - s.anchor > EmitAhead * s.rate + MaxComp
  <1>1. /\ Times[e] \in Nat /\ s.rate \in Nat \ {0} /\ s.anchor \in Nat
        /\ s.tickIn \in Int /\ s.tickIn >= -Lag
        /\ EmitAhead \in Nat /\ Lag \in Nat /\ MaxComp \in Nat
    BY Magnitudes DEF Typed
  <1> DEFINE x == s.tickIn + Lag
             r == s.rate
             d == Times[e] - s.anchor
  <1>2. x \in Nat /\ r \in Nat \ {0} /\ d \in Int /\ EmitAhead \in Nat /\ MaxComp \in Nat
    <2>1. /\ s.tickIn \in Int /\ s.tickIn >= -Lag /\ Lag \in Nat /\ s.rate \in Nat \ {0}
          /\ Times[e] \in Nat /\ s.anchor \in Nat /\ EmitAhead \in Nat /\ MaxComp \in Nat
      BY <1>1
    <2> QED BY <2>1
  <1>3. d > (s.tickIn + EmitAhead + Lag) * r + MaxComp
    <2> DEFINE w == (s.tickIn + EmitAhead + Lag) * r
    <2>1. w \in Int /\ Times[e] \in Nat /\ s.anchor \in Nat /\ MaxComp \in Nat
      BY <1>1
    <2>2. Times[e] > s.anchor + w + MaxComp BY DEF OutOfReach
    <2> HIDE DEF w
    <2>3. Times[e] - s.anchor > w + MaxComp BY <2>1, <2>2
    <2> QED BY <2>3 DEF w
  <1>4. (s.tickIn + EmitAhead + Lag) * r = x * r + EmitAhead * r
    <2>1. s.tickIn + EmitAhead + Lag = x + EmitAhead BY <1>1
    <2> HIDE DEF x, r
    <2>2. (x + EmitAhead) * r = x * r + EmitAhead * r BY <1>2
    <2> QED BY <2>1, <2>2
  <1> HIDE DEF x, r, d
  <1>5. x * r \in Nat /\ EmitAhead * r \in Nat BY <1>2
  <1>6. d > EmitAhead * r + MaxComp BY <1>2, <1>3, <1>4, <1>5
  <1>7. d >= 0 /\ d > MaxComp BY <1>2, <1>5, <1>6
  <1>8. r = 1 => d > EmitAhead BY <1>2, <1>6
  <1> QED BY <1>1, <1>6, <1>7, <1>8 DEF r, d

\* A pause keeps the invariant: the timers it cancels are of events at or after the
\* position, less what the lag takes.
LEMMA PauseSound ==
    ASSUME NEW s, Sound(s), Active(s), NEW t, t = Pause(s)
    PROVE  Sound(t) /\ t.sent = s.sent /\ t.anchor = s.anchor /\ t.rate = s.rate
                    /\ t.disturbed = s.disturbed
  <1>1. Typed(s) /\ s \in PlayerType BY DEF Sound, Typed
  <1>2. Fields(s) /\ Constants BY <1>1, Facts
  <1>3. /\ t \in PlayerType
        /\ t.playing = s.playing /\ t.paused /\ t.rate = s.rate /\ t.anchor = s.anchor
        /\ t.position = IF s.anchor <= Duration THEN s.anchor ELSE Duration
        /\ t.cursor = s.cursor /\ t.tickIn = s.tickIn /\ t.armed = {}
        /\ t.sent = s.sent /\ t.from = s.from /\ t.cut = s.cut
        /\ t.forgiven = s.forgiven /\ t.disturbed = s.disturbed
    BY <1>1, PauseFields
  <1>4. t.playing /\ ~Active(t) BY <1>3 DEF Active
  <1>5. t.position <= s.anchor /\ t.position \in Nat /\ s.anchor \in Nat
    BY <1>2, <1>3 DEF Fields, Constants
  <1>6. ~s.disturbed => \A e \in Events : e >= s.cursor => OutOfReach(s, e)
    BY DEF Sound, Beyond
  <1>7. Typed(t) /\ Timers(t) BY <1>3, <1>4 DEF Typed, Timers, Exact
  <1>8. Accounted(t)
    <2> SUFFICES ASSUME NEW e \in t.from..(t.cursor - 1),
                        t.sent[e] = 0, e \notin t.forgiven, ~t.disturbed
                 PROVE  t.position - Lag * t.rate <= Times[e]
      <3>1. \A e \in t.from..(t.cursor - 1) : t.sent[e] \in Nat
        <4>1. t.from..(t.cursor - 1) \subseteq Events
          <5>1. /\ Events = 1..Len(Times) /\ Len(Times) \in Nat
                /\ t.from \in 1..(Len(Times) + 1) /\ t.cursor \in 1..(Len(Times) + 1)
            BY <1>2, <1>3, EventList DEF Fields
          <5> QED BY ONLY <5>1
        <4> QED BY <4>1, <1>2, <1>3 DEF Fields
      <3> QED BY <3>1, <1>4 DEF Accounted
    <2>1. e \in s.from..(s.cursor - 1) /\ s.sent[e] = 0 /\ e \notin s.forgiven BY <1>3
    <2>2. Waits(s, e) BY <2>1 DEF Sound, Accounted
    <2>3. PICK a \in s.armed : a.event = e BY <2>2 DEF Waits
    <2>4. Exact(s) BY <1>3 DEF Sound, Timers
    <2>5. Times[e] - s.anchor >= -(Lag * s.rate) BY <1>1, <2>3, <2>4, LateIsBounded
    <2>6. e \in Events BY <2>3, <1>2 DEF Fields
    <2>7. /\ Times[e] \in Nat /\ Lag \in Nat /\ s.rate \in Nat
      BY <2>6, <1>1, Magnitudes
    <2>8. Lag * s.rate \in Nat BY <2>7
    <2> QED BY <2>5, <2>7, <2>8, <1>3, <1>5
  <1>9. Beyond(t)
    <2> SUFFICES ASSUME ~t.disturbed, NEW e \in Events, e >= t.cursor
                 PROVE  Times[e] >= t.anchor
      BY <1>4 DEF Beyond
    <2> QED BY <1>1, <1>3, <1>6, ToCome
  <1>10. Kept(t) BY <1>3 DEF Kept
  <1>11. Once(t)
    <2> SUFFICES ASSUME t.rate = 1, ~t.disturbed, NEW e \in Events, Comp[e] = 0
                 PROVE  OnceOnly(t, e)
      BY DEF Once
    <2>1. OnceOnly(s, e) BY <1>3 DEF Sound, Once
    <2>2. s.sent[e] > 0 => Times[e] <= s.anchor + EmitAhead BY <2>1 DEF OnceOnly
    <2>3. s.sent[e] > 0 => Times[e] <= t.position + EmitAhead
      <3>1. /\ Times[e] \in Nat /\ s.anchor \in Nat /\ Duration \in Nat
            /\ Times[e] <= Duration /\ EmitAhead \in Nat
        BY <1>1, Magnitudes
      <3> QED BY <3>1, <2>2, <1>3
    <2>4. e >= s.cursor => s.sent[e] = 0
      <3> SUFFICES ASSUME e >= s.cursor PROVE ~(s.sent[e] > 0)
        BY <1>2 DEF Fields
      <3>1. Times[e] > s.anchor + EmitAhead BY <1>1, <1>3, <1>6, ToCome
      <3>2. Times[e] \in Nat /\ s.anchor \in Nat /\ EmitAhead \in Nat BY <1>1, Magnitudes
      <3> QED BY <3>1, <3>2, <2>2
    <2> QED BY <2>1, <2>3, <2>4, <1>3, <1>4 DEF OnceOnly, Waits
  <1>12. Ordered(t) BY <1>3 DEF Sound, Ordered, Comparable
  <1>13. t.cut = {} BY <1>3 DEF Sound
  <1> QED BY <1>3, <1>7, <1>8, <1>9, <1>10, <1>11, <1>12, <1>13 DEF Sound

\* A resume forgives what its rewind steps over, and reaches the rest again.
Forgives(s) ==
    {e \in Events : /\ Times[e] <= s.position + EmitAhead
                    /\ s.disturbed \/ s.position - Lag * s.rate <= Times[e]}

\* A resumed player may enter its first pass.
LEMMA ResumeEntry ==
    ASSUME NEW s, Sound(s), s.playing, s.paused,
           NEW t, t = [s EXCEPT !.paused = FALSE, !.tickIn = TickPeriod, !.cursor = Rewound(s),
                                !.forgiven = @ \cup Forgives(s)]
    PROVE  Entry(t) /\ t.sent = s.sent
  <1>1. Typed(s) /\ s \in PlayerType /\ ~Active(s) BY DEF Sound, Typed, Active
  <1>2. Fields(s) /\ Constants BY <1>1, Facts
  <1> DEFINE i == IndexAfter(s.position + EmitAhead)
             c == Rewound(s)
             F == Forgives(s)
  <1>3. /\ i \in 1..(Len(Times) + 1)
        /\ \A e \in Events : e < i <=> Times[e] <= s.position + EmitAhead
    <2>1. s.position + EmitAhead \in Int BY <1>2 DEF Fields, Constants
    <2> QED BY <2>1, IndexSplits
  <1>4. c = IF s.cursor <= i THEN s.cursor ELSE i
    <2>1. s.cursor \in Nat /\ i \in Nat BY <1>2, <1>3 DEF Fields
    <2> HIDE DEF i
    <2>2. Min({s.cursor, i}) = IF s.cursor <= i THEN s.cursor ELSE i BY <2>1, MinOfTwo
    <2> QED BY <2>2 DEF Rewound, i
  <1>5. F \in SUBSET Events BY DEF Forgives
  <1>6. c \in 1..(Len(Times) + 1) BY <1>2, <1>3, <1>4 DEF Fields
  <1>7. TickPeriod \in (-Lag)..TickPeriod BY <1>2 DEF Constants
  <1> HIDE DEF c, F, i
  <1>8. /\ t \in PlayerType /\ t.playing /\ ~t.paused /\ t.rate = s.rate /\ t.anchor = s.anchor
        /\ t.cursor = c /\ t.tickIn = TickPeriod /\ t.armed = s.armed /\ t.sent = s.sent
        /\ t.from = s.from /\ t.cut = s.cut /\ t.forgiven = s.forgiven \cup F
        /\ t.disturbed = s.disturbed
    <2>1. t = [s EXCEPT !.paused = FALSE, !.tickIn = TickPeriod, !.cursor = c,
                        !.forgiven = s.forgiven \cup F]
      BY DEF c, F
    <2>2. s.forgiven \cup F \in SUBSET Events BY <1>2, <1>5 DEF Fields
    <2>3. t \in PlayerType BY <1>1, <1>6, <1>7, <2>1, <2>2 DEF PlayerType
    <2> QED BY <1>1, <2>1, <2>3 DEF PlayerType
  <1>9. Active(t) /\ Typed(t) BY <1>1, <1>8 DEF Active, Typed
  <1>10. ~s.disturbed => s.armed = {} BY <1>1 DEF Sound, Timers
  <1>11. s.position <= s.anchor \/ s.disturbed
    BY <1>2 DEF Sound, Kept, Fields, Constants
  <1>12. ASSUME NEW e \in t.from..(t.cursor - 1)
         PROVE  t.sent[e] > 0 \/ Waits(t, e) \/ e \in t.forgiven
    <2>1. e \in s.from..(s.cursor - 1) /\ e < i
      <3>1. s.from \in Nat /\ s.cursor \in Nat /\ i \in Nat /\ c \in Nat
        BY <1>2, <1>3, <1>6 DEF Fields
      <3> QED BY <3>1, <1>4, <1>8
    <2>2. e \in Events
      <3>1. /\ Events = 1..Len(Times) /\ Len(Times) \in Nat
            /\ s.from \in 1..(Len(Times) + 1) /\ s.cursor \in 1..(Len(Times) + 1)
        BY <1>2, EventList DEF Fields
      <3> QED BY <2>1, <3>1
    <2>3. Times[e] <= s.position + EmitAhead BY <2>1, <2>2, <1>3
    <2>4. \/ s.sent[e] > 0 \/ Waits(s, e) \/ e \in s.forgiven
          \/ s.disturbed \/ s.position - Lag * s.rate <= Times[e]
      BY <2>1 DEF Sound, Accounted
    <2>5. s.disturbed \/ s.position - Lag * s.rate <= Times[e] => e \in F
      BY <2>2, <2>3 DEF F, Forgives
    <2>6. Waits(s, e) => Waits(t, e) BY <1>8 DEF Waits
    <2> QED BY <2>4, <2>5, <2>6, <1>8
  <1>13. ASSUME ~t.disturbed, ~PastEnd(t), NEW e \in Events, e >= t.cursor
         PROVE  Times[e] >= t.anchor
    <2>1. s.position = s.anchor
      BY <1>2, <1>8, <1>13 DEF Sound, Kept, PastEnd, Fields, Constants
    <2>2. CASE e >= s.cursor BY <2>2, <1>8, <1>13 DEF Sound, Beyond
    <2>3. CASE e >= i
      <3>1. /\ Times[e] \in Nat /\ s.anchor \in Nat /\ s.position \in Nat
            /\ EmitAhead \in Nat /\ e \in Nat
        BY <1>1, Magnitudes
      <3>2. ~(e < i) BY <2>3, <3>1, <1>3
      <3>3. ~(Times[e] <= s.position + EmitAhead) BY <3>2, <1>3
      <3> QED BY <2>1, <3>1, <3>3, <1>8
    <2> QED BY <2>2, <2>3, <1>4, <1>8, <1>13
  <1>14. ASSUME t.rate = 1, ~t.disturbed, NEW e \in Events, Comp[e] = 0
         PROVE  OnceBefore(t, e)
    <2>1. OnceOnly(s, e) BY <1>8, <1>14 DEF Sound, Once
    <2>2. s.sent[e] > 0 => Times[e] <= s.position + EmitAhead BY <2>1, <1>1 DEF OnceOnly
    <2>3. s.sent[e] > 0 => Times[e] <= s.anchor + EmitAhead
      <3>1. s.position <= s.anchor BY <1>8, <1>11, <1>14
      <3>2. s.position \in Nat /\ s.anchor \in Nat /\ EmitAhead \in Nat /\ Times[e] \in Nat
        BY <1>2 DEF Fields, Constants
      <3> QED BY <2>2, <3>1, <3>2
    <2>4. e >= t.cursor => s.sent[e] = 0
      <3> SUFFICES ASSUME e >= t.cursor PROVE s.sent[e] = 0 OBVIOUS
      <3>1. CASE e >= s.cursor BY <3>1, <2>1, <1>1 DEF OnceOnly
      <3>2. CASE e >= i
        <4>1. ~(s.sent[e] > 0) BY <3>2, <2>2, <1>2, <1>3 DEF Constants
        <4> QED BY <4>1, <1>2 DEF Fields
      <3> QED BY <3>1, <3>2, <1>4, <1>8
    <2> QED BY <2>1, <2>3, <2>4, <1>8 DEF OnceOnly, OnceBefore, Waits
  <1>15. Ordered(t) BY <1>8 DEF Sound, Ordered, Comparable
  <1>16. Reached(t) BY <1>8, <1>10 DEF Reached
  <1>17. ~t.disturbed => Exact(t) /\ t.armed = {} BY <1>8, <1>10 DEF Exact
  <1>18. t.cut = {} BY <1>8 DEF Sound
  <1> QED BY <1>8, <1>9, <1>12, <1>13, <1>14, <1>15, <1>16, <1>17, <1>18 DEF Entry

\* A punctual tick past the end finds every timer run.
LEMMA TickEntry ==
    ASSUME NEW s, Sound(s), Active(s), s.tickIn <= 0,
           \A a \in s.armed : a.due >= Grain * s.tickIn,
           NEW t, t = [s EXCEPT !.tickIn = TickPeriod, !.late = s.tickIn < 0]
    PROVE  Entry(t) /\ t.sent = s.sent
  <1>1. Typed(s) /\ s \in PlayerType BY DEF Sound, Typed
  <1>2. Fields(s) /\ Constants BY <1>1, Facts
  <1>3. TickPeriod \in (-Lag)..TickPeriod BY <1>2 DEF Constants
  <1>4. /\ t \in PlayerType /\ t.playing = s.playing /\ t.paused = s.paused
        /\ t.rate = s.rate /\ t.anchor = s.anchor
        /\ t.cursor = s.cursor /\ t.tickIn = TickPeriod /\ t.armed = s.armed
        /\ t.sent = s.sent /\ t.from = s.from /\ t.cut = s.cut /\ t.forgiven = s.forgiven
        /\ t.disturbed = s.disturbed /\ t.late = (s.tickIn < 0)
    <2>1. (s.tickIn < 0) \in BOOLEAN OBVIOUS
    <2>2. t \in PlayerType BY <1>1, <1>3, <2>1 DEF PlayerType
    <2> QED BY <1>1, <2>2 DEF PlayerType
  <1>5. Active(t) /\ Typed(t) BY <1>1, <1>4 DEF Active, Typed
  <1>6. ~s.disturbed => Exact(s) BY DEF Sound, Timers
  <1>7. ~s.disturbed => \A e \in Events : e >= s.cursor => OutOfReach(s, e)
    BY DEF Sound, Beyond
  <1>8. \A e \in t.from..(t.cursor - 1) : t.sent[e] > 0 \/ Waits(t, e) \/ e \in t.forgiven
    BY <1>4 DEF Sound, Accounted, Waits
  <1>9. ~t.disturbed => \A e \in Events : e >= t.cursor => Times[e] >= t.anchor
    BY <1>1, <1>4, <1>7, ToCome
  <1>10. Reached(t) BY <1>1, <1>4, <1>7, ToCome DEF Reached
  <1>11. ASSUME t.rate = 1, ~t.disturbed, NEW e \in Events, Comp[e] = 0
         PROVE  OnceBefore(t, e)
    <2>1. OnceOnly(s, e) BY <1>4, <1>11 DEF Sound, Once
    <2>2. s.sent[e] > 0 => Times[e] <= s.anchor + EmitAhead BY <2>1 DEF OnceOnly
    <2>3. e >= s.cursor => s.sent[e] = 0
      <3> SUFFICES ASSUME e >= s.cursor PROVE ~(s.sent[e] > 0) BY <1>2 DEF Fields
      <3>1. Times[e] > s.anchor + EmitAhead BY <1>1, <1>4, <1>7, <1>11, ToCome
      <3>2. Times[e] \in Nat /\ s.anchor \in Nat /\ EmitAhead \in Nat BY <1>1, Magnitudes
      <3> QED BY <3>1, <3>2, <2>2
    <2> QED BY <2>1, <2>2, <2>3, <1>4 DEF OnceOnly, OnceBefore, Waits
  <1>12. Ordered(t) BY <1>4 DEF Sound, Ordered, Comparable
  <1>13. ASSUME ~t.disturbed, ~t.late, PastEnd(t) PROVE t.armed = {}
    <2> SUFFICES ASSUME NEW a \in s.armed PROVE FALSE BY <1>4
    <2> DEFINE x == Times[a.event] - s.anchor
               k == s.rate * Comp[a.event]
    <2>1. a.event \in Events /\ a.due \in Int BY <1>2 DEF Fields
    <2>2. x \in Int /\ x < 0
      <3>1. s.anchor > Duration BY <1>4, <1>13 DEF PastEnd
      <3>2. Times[a.event] \in Nat /\ Times[a.event] <= Duration
        BY <2>1, <1>2 DEF Constants
      <3>3. s.anchor \in Nat /\ Duration \in Nat BY <1>2 DEF Fields, Constants
      <3> QED BY <3>1, <3>2, <3>3
    <2>3. k \in Nat
      <3>1. Comp[a.event] \in Nat BY <2>1, <1>2 DEF Constants
      <3>2. s.rate \in Nat BY <1>2 DEF Fields
      <3> QED BY <3>1, <3>2
    <2>4. s.rate * a.due = Grain * x - Grain * k BY <1>4, <1>6, <1>13 DEF Exact
    <2> HIDE DEF x, k
    <2>5. Grain * x < 0 /\ Grain * k >= 0 BY <2>2, <2>3, <1>2 DEF Constants
    <2>6. s.rate * a.due < 0 BY <2>2, <2>3, <2>4, <2>5, <1>2 DEF Constants
    <2>7. a.due >= 0
      <3>1. s.tickIn = 0
        <4>1. ~(s.tickIn < 0) BY <1>4, <1>13
        <4>2. s.tickIn \in Int BY <1>2 DEF Fields, Constants
        <4> QED BY <4>1, <4>2
      <3>2. a.due >= Grain * 0 BY <3>1
      <3> QED BY <3>2, <1>2 DEF Constants
    <2>8. s.rate * a.due >= 0 BY <2>1, <2>7, <1>2 DEF Fields
    <2> QED BY <2>1, <2>6, <2>8, <1>2 DEF Fields
  <1>14. t.cut = {} BY <1>4 DEF Sound
  <1>15. ~t.disturbed => Exact(t) BY <1>4, <1>6 DEF Exact
  <1> QED BY <1>4, <1>5, <1>8, <1>9, <1>10, <1>11, <1>12, <1>13, <1>14, <1>15 DEF Entry

\* The guard of a timer: none expires before it, nor the tick.
Expired(s, a) ==
    /\ a.due <= 0
    /\ \A b \in s.armed : b.due >= a.due

\* A timer sends in time, and none that should have run first is left.
LEMMA FireSound ==
    ASSUME NEW s, Sound(s), NEW a \in s.armed, Expired(s, a),
           NEW u, u = [s EXCEPT !.armed = @ \ {a}], NEW t, t = Send(u, {a.event})
    PROVE  /\ Sound(t) /\ t.playing = s.playing /\ t.paused = s.paused
           /\ \A e \in Events : t.sent[e] > s.sent[e] /\ ~t.disturbed => Punctual(t, e)
  <1>1. Typed(s) /\ s \in PlayerType BY DEF Sound, Typed
  <1>2. Fields(s) /\ Constants BY <1>1, Facts
  <1>3. a.event \in Events /\ a.due \in Int BY <1>2 DEF Fields
  <1>4. u \in PlayerType BY <1>1 DEF PlayerType
  <1>5. /\ t \in PlayerType /\ t = [u EXCEPT !.sent = t.sent]
        /\ \A e \in Events : t.sent[e] =
              IF e \in {a.event} /\ u.sent[e] < 2 THEN u.sent[e] + 1 ELSE u.sent[e]
    <2> DEFINE E == {a.event}
    <2>1. E \in SUBSET Events BY <1>3
    <2>2. t = Send(u, E) OBVIOUS
    <2> HIDE DEF E
    <2>3. /\ t \in PlayerType /\ t = [u EXCEPT !.sent = t.sent]
          /\ \A e \in Events : t.sent[e] =
                IF e \in E /\ u.sent[e] < 2 THEN u.sent[e] + 1 ELSE u.sent[e]
      BY ONLY <1>4, <2>1, <2>2, SendFields
    <2> QED BY <2>3 DEF E
  <1>6. /\ t.playing = s.playing /\ t.paused = s.paused /\ t.rate = s.rate
        /\ t.anchor = s.anchor /\ t.position = s.position
        /\ t.cursor = s.cursor /\ t.tickIn = s.tickIn /\ t.armed = s.armed \ {a}
        /\ t.from = s.from /\ t.cut = s.cut /\ t.forgiven = s.forgiven
        /\ t.disturbed = s.disturbed /\ u.sent = s.sent
    <2>1. /\ u.playing = s.playing /\ u.paused = s.paused /\ u.rate = s.rate
          /\ u.anchor = s.anchor /\ u.position = s.position
          /\ u.cursor = s.cursor /\ u.tickIn = s.tickIn /\ u.armed = s.armed \ {a}
          /\ u.from = s.from /\ u.cut = s.cut /\ u.forgiven = s.forgiven
          /\ u.disturbed = s.disturbed /\ u.sent = s.sent
      BY <1>1 DEF PlayerType
    <2>2. /\ t.playing = u.playing /\ t.paused = u.paused /\ t.rate = u.rate
          /\ t.anchor = u.anchor /\ t.position = u.position
          /\ t.cursor = u.cursor /\ t.tickIn = u.tickIn /\ t.armed = u.armed
          /\ t.from = u.from /\ t.cut = u.cut /\ t.forgiven = u.forgiven
          /\ t.disturbed = u.disturbed
      BY ONLY <1>4, <1>5 DEF PlayerType
    <2> QED BY ONLY <2>1, <2>2
  <1>7. \A e \in Events : t.sent[e] =
          IF e = a.event /\ s.sent[e] < 2 THEN s.sent[e] + 1 ELSE s.sent[e]
    <2>1. /\ u.sent = s.sent
          /\ \A e \in Events : t.sent[e] =
                IF e \in {a.event} /\ u.sent[e] < 2 THEN u.sent[e] + 1 ELSE u.sent[e]
      BY <1>5, <1>6
    <2> QED BY ONLY <2>1
  <1>8. Typed(t) BY <1>1, <1>5, <1>6 DEF Typed
  <1>9. ~s.disturbed => Exact(s) /\ Active(s) BY DEF Sound, Timers
  <1>10. ~s.disturbed => /\ Times[a.event] - s.anchor >= -(Lag * s.rate)
                         /\ Times[a.event] - s.anchor <= s.rate * Comp[a.event]
    BY <1>1, <1>9, LateIsBounded DEF Expired
  <1>11. Timers(t) BY <1>6, <1>9 DEF Timers, Exact, Active
  <1>12. \A e \in Events : s.sent[e] \in 0..2 /\ (s.sent[e] > 0 => t.sent[e] > 0)
                          /\ (e = a.event => t.sent[e] > 0)
    <2> TAKE e \in Events
    <2>1. s.sent[e] \in 0..2 BY <1>2 DEF Fields
    <2>2. t.sent[e] = IF e = a.event /\ s.sent[e] < 2 THEN s.sent[e] + 1 ELSE s.sent[e]
      BY <1>7
    <2> QED BY <2>1, <2>2
  <1>13. \A e : Waits(s, e) => Waits(t, e) \/ e = a.event BY <1>6 DEF Waits
  <1>14. \A e : Waits(t, e) => Waits(s, e) BY <1>6 DEF Waits
  <1>15. Accounted(t)
    <2> SUFFICES ASSUME NEW e \in t.from..(t.cursor - 1)
                 PROVE  \/ t.sent[e] > 0 \/ Waits(t, e) \/ e \in t.forgiven
                        \/ ~Active(t) /\ (t.disturbed \/ t.position - Lag * t.rate <= Times[e])
      BY DEF Accounted
    <2>1. e \in s.from..(s.cursor - 1) BY <1>6
    <2>2. e \in Events
      <3>1. Len(Times) \in Nat /\ Events = 1..Len(Times) BY EventList
      <3> QED BY <2>1, <3>1, <1>2 DEF Fields
    <2>3. \/ s.sent[e] > 0 \/ Waits(s, e) \/ e \in s.forgiven
          \/ ~Active(s) /\ (s.disturbed \/ s.position - Lag * s.rate <= Times[e])
      BY <2>1 DEF Sound, Accounted
    <2> QED BY <2>2, <2>3, <1>6, <1>12, <1>13 DEF Active
  <1>16. Beyond(t) /\ Kept(t)
    BY <1>6 DEF Sound, Beyond, Kept, OutOfReach, Active
  <1>17. Once(t)
    <2> SUFFICES ASSUME t.rate = 1, ~t.disturbed, NEW e \in Events, Comp[e] = 0
                 PROVE  OnceOnly(t, e)
      BY DEF Once
    <2>1. OnceOnly(s, e) BY <1>6 DEF Sound, Once
    <2>2. CASE e # a.event
      BY <2>1, <2>2, <1>6, <1>7, <1>14 DEF OnceOnly, Active
    <2>3. CASE e = a.event
      <3>1. Waits(s, e) BY <2>3 DEF Waits
      <3>2. s.sent[e] = 0 /\ t.sent[e] = 1
        <4>1. s.sent[e] = 0 BY <2>1, <3>1 DEF OnceOnly
        <4>2. t.sent[e] = IF e = a.event /\ s.sent[e] < 2 THEN s.sent[e] + 1 ELSE s.sent[e]
          BY <1>7
        <4> QED BY <2>3, <4>1, <4>2
      <3>3. Active(s) /\ Active(t) /\ Exact(s) BY <1>6, <1>9 DEF Active
      <3>4. Times[e] <= t.anchor + EmitAhead
        <4>1. s.rate = 1 /\ s.rate * Comp[e] = 0 BY <1>6
        <4>2. Times[e] - s.anchor <= 0 BY <2>3, <4>1, <1>6, <1>10
        <4>3. Times[e] \in Nat /\ s.anchor \in Nat /\ EmitAhead \in Nat
          BY <1>2 DEF Fields, Constants
        <4> QED BY <4>2, <4>3, <1>6
      <3>5. ~Waits(t, e)
        <4> SUFFICES ASSUME NEW b \in s.armed, b # a, b.event = e PROVE FALSE
          BY <1>6 DEF Waits
        <4>1. s.rate = 1 BY <1>6
        <4>2. a.due \in Int /\ b.due \in Int BY <1>2 DEF Fields
        <4>3. 1 * a.due = 1 * b.due
          BY <2>3, <3>3, <4>1 DEF Exact
        <4>4. a.due = b.due BY <4>2, <4>3
        <4>5. a \in [event : Events, due : Int] /\ b \in [event : Events, due : Int]
          BY <1>2 DEF Fields
        <4>6. a = b BY <2>3, <4>4, <4>5
        <4> QED BY <4>6
      <3> QED BY <3>2, <3>3, <3>4, <3>5 DEF OnceOnly
    <2> QED BY <2>2, <2>3
  <1>18. Ordered(t)
    <2> SUFFICES ASSUME ~t.disturbed, NEW e \in Events, NEW f \in Events,
                        Comparable(t, e, f), t.sent[f] > 0, t.sent[e] = 0
                 PROVE  e \in t.forgiven
      BY DEF Ordered
    <2>1. Comparable(s, e, f) BY <1>6 DEF Comparable
    <2>2. s.sent[e] = 0 /\ e # a.event
      <3>1. s.sent[e] \in 0..2 /\ (s.sent[e] > 0 => t.sent[e] > 0)
              /\ (e = a.event => t.sent[e] > 0)
        BY <1>12
      <3>2. ~(t.sent[e] > 0) OBVIOUS
      <3> QED BY <3>1, <3>2
    <2>3. CASE s.sent[f] > 0
      BY <2>1, <2>2, <2>3, <1>6 DEF Sound, Ordered
    <2>4. CASE ~(s.sent[f] > 0)
      <3>1. f = a.event BY <2>4, <1>7
      <3>2. s.from <= e /\ Times[e] < Times[f] /\ Comp[e] = Comp[f]
              /\ (Comp[e] = 0 \/ s.rate = 1)
        BY <2>1 DEF Comparable
      <3>3. /\ Times[e] \in Nat /\ Times[f] \in Nat /\ Comp[e] \in Nat
            /\ s.anchor \in Nat /\ s.rate \in Nat \ {0} /\ Grain \in Nat \ {0}
            /\ MaxComp \in Nat /\ Comp[e] <= MaxComp
        BY <1>2 DEF Fields, Constants
      <3>4. e < s.cursor
        <4> SUFFICES ASSUME e >= s.cursor PROVE FALSE BY <1>2 DEF Fields, Constants
        <4>1. Times[e] - s.anchor > MaxComp
          BY <1>1, <1>6, <1>9, ToCome DEF Sound, Beyond
        <4>2. s.rate * Comp[e] <= MaxComp BY <3>2, <3>3
        <4>3. Times[f] - s.anchor <= s.rate * Comp[e] BY <3>1, <3>2, <1>6, <1>10
        <4>4. s.rate * Comp[e] \in Nat BY <3>3
        <4> QED BY <3>2, <3>3, <4>1, <4>2, <4>3, <4>4
      <3>5. e \in s.from..(s.cursor - 1)
        BY <3>2, <3>4, <1>2 DEF Fields, Constants
      <3>6. Waits(s, e) \/ e \in s.forgiven
        <4>1. ~s.disturbed /\ Active(s) BY <1>6, <1>9
        <4>2. Accounted(s) BY DEF Sound
        <4>3. ~(s.sent[e] > 0) BY <2>2
        <4> QED BY <3>5, <4>1, <4>2, <4>3 DEF Accounted
      <3>7. ~Waits(s, e)
        <4> SUFFICES ASSUME NEW b \in s.armed, b.event = e PROVE FALSE BY DEF Waits
        <4> DEFINE x == Times[e] - s.anchor
                   y == Times[f] - s.anchor
                   k == s.rate * Comp[e]
        <4>1. b.due \in Int /\ b.due >= a.due BY <1>2 DEF Fields, Expired
        <4>2. s.rate * b.due = Grain * x - Grain * k BY <1>6, <1>9 DEF Exact
        <4>3. s.rate * a.due = Grain * y - Grain * k BY <3>1, <3>2, <1>6, <1>9 DEF Exact
        <4>4. x \in Int /\ y \in Int /\ k \in Nat /\ x < y BY <3>2, <3>3
        <4> HIDE DEF x, y, k
        <4>5. Grain * x < Grain * y BY <4>4, <3>3
        <4>6. s.rate * b.due < s.rate * a.due
          BY <4>2, <4>3, <4>4, <4>5, <3>3
        <4>7. s.rate * b.due >= s.rate * a.due BY <4>1, <3>3, <1>3
        <4>8. s.rate * b.due \in Int /\ s.rate * a.due \in Int BY <4>1, <1>3, <3>3
        <4> QED BY <4>6, <4>7, <4>8
      <3> QED BY <3>6, <3>7, <1>6
    <2> QED BY <2>3, <2>4
  <1>19. ASSUME NEW e \in Events, t.sent[e] > s.sent[e], ~t.disturbed PROVE Punctual(t, e)
    <2>1. e = a.event
      <3> SUFFICES ASSUME e # a.event PROVE FALSE OBVIOUS
      <3>1. t.sent[e] = s.sent[e] /\ s.sent[e] \in 0..2 BY <1>7, <1>12
      <3> QED BY <3>1, <1>19
    <2> DEFINE d == Times[e] - s.anchor
               r == s.rate
               c == Comp[e]
    <2>2. d >= -(Lag * r) /\ d <= r * c BY <2>1, <1>6, <1>10, <1>19
    <2>3. d \in Int /\ r \in Nat /\ c \in Nat /\ EmitAhead \in Nat
      <3>1. Times[e] \in Nat /\ Comp[e] \in Nat /\ EmitAhead \in Nat BY <1>2 DEF Constants
      <3>2. s.anchor \in Nat /\ s.rate \in Nat BY <1>2 DEF Fields
      <3> QED BY <3>1, <3>2
    <2> HIDE DEF d, r, c
    <2>4. (EmitAhead + c) * r = EmitAhead * r + r * c BY <2>3
    <2>5. EmitAhead * r \in Nat /\ r * c \in Nat BY <2>3
    <2>6. d <= (EmitAhead + c) * r BY <2>2, <2>3, <2>4, <2>5
    <2> QED BY <2>2, <2>6, <1>6 DEF Punctual, d, r, c
  <1>20. t.cut = {} BY <1>6 DEF Sound
  <1> QED BY <1>6, <1>8, <1>11, <1>15, <1>16, <1>17, <1>18, <1>19, <1>20 DEF Sound

\* Time passes for the position, the tick and the timers alike.
LEMMA ElapseSound ==
    ASSUME NEW s, Sound(s), s.playing, Active(s) => s.tickIn > -Lag,
           \A a \in s.armed : a.due - Grain >= -(Grain * Lag),
           Active(s) \/ s.armed # {},
           NEW t, t = [s EXCEPT
              !.anchor = IF Active(s) THEN @ + s.rate ELSE @,
              !.tickIn = IF Active(s) THEN @ - 1 ELSE @,
              !.armed  = {[a EXCEPT !.due = @ - Grain] : a \in @}]
    PROVE  Sound(t) /\ t.sent = s.sent
  <1>1. Typed(s) /\ s \in PlayerType BY DEF Sound, Typed
  <1>2. Fields(s) /\ Constants BY <1>1, Facts
  <1> DEFINE anchor == IF Active(s) THEN s.anchor + s.rate ELSE s.anchor
             tick   == IF Active(s) THEN s.tickIn - 1 ELSE s.tickIn
             armed  == {[a EXCEPT !.due = @ - Grain] : a \in s.armed}
  <1>0. /\ s.anchor \in Nat /\ s.rate \in Nat /\ s.tickIn \in (-Lag)..TickPeriod
        /\ Lag \in Nat /\ TickPeriod \in Nat /\ Grain \in Nat
    BY <1>2 DEF Fields, Constants
  <1>3. anchor \in Nat /\ tick \in (-Lag)..TickPeriod BY <1>0
  <1>4. \A a \in s.armed : /\ a.event \in Events /\ a.due \in Int
                           /\ [a EXCEPT !.due = @ - Grain] \in [event : Events, due : Int]
                           /\ [a EXCEPT !.due = @ - Grain].event = a.event
                           /\ [a EXCEPT !.due = @ - Grain].due = a.due - Grain
    <2>1. \A a \in s.armed : a \in [event : Events, due : Int] BY <1>2 DEF Fields
    <2> QED BY <1>0, <2>1
  <1>5. armed \in SUBSET [event : Events, due : Int] BY <1>4
  <1>6. \A b \in armed : \E a \in s.armed : b.event = a.event /\ b.due = a.due - Grain
    BY <1>4
  <1>7. \A a \in s.armed : \E b \in armed : b.event = a.event
    BY <1>4
  <1>8. t = [s EXCEPT !.anchor = anchor, !.tickIn = tick, !.armed = armed]
    OBVIOUS
  <1>9. s.armed = {} => armed = {} OBVIOUS
  <1> HIDE DEF anchor, tick, armed
  <1>10. /\ t \in PlayerType /\ t.playing = s.playing /\ t.paused = s.paused /\ t.rate = s.rate
         /\ t.anchor = anchor /\ t.position = s.position
         /\ t.cursor = s.cursor /\ t.tickIn = tick /\ t.armed = armed /\ t.sent = s.sent
         /\ t.from = s.from /\ t.cut = s.cut /\ t.forgiven = s.forgiven
         /\ t.disturbed = s.disturbed
    <2>1. t \in PlayerType BY <1>1, <1>3, <1>5, <1>8, ZenonT(30) DEF PlayerType
    <2> QED BY <1>1, <1>8, <2>1 DEF PlayerType
  <1>11. Typed(t) BY <1>1, <1>6, <1>10 DEF Typed
  <1>12. Active(t) = Active(s) BY <1>10 DEF Active
  <1>13. \A e : Waits(t, e) <=> Waits(s, e)
    <2>1. t.armed = armed BY <1>10
    <2>2. \A b \in armed : \E a \in s.armed : b.event = a.event BY <1>6
    <2> QED BY ONLY <1>7, <2>1, <2>2 DEF Waits
  <1>14. ~s.disturbed => Active(s) BY DEF Sound, Timers
  <1>15. Active(s) => anchor = s.anchor + s.rate /\ tick = s.tickIn - 1 BY DEF anchor, tick
  <1>16. Timers(t)
    <2> SUFFICES ASSUME ~s.disturbed, NEW b \in armed
                 PROVE  s.rate * b.due =
                          Grain * (Times[b.event] - anchor) - Grain * (s.rate * Comp[b.event])
      BY <1>10, <1>12, <1>14 DEF Timers, Exact
    <2>1. PICK a \in s.armed : b.event = a.event /\ b.due = a.due - Grain BY <1>6
    <2> DEFINE x == Times[a.event]
               k == s.rate * Comp[a.event]
    <2>2. s.rate * a.due = Grain * (x - s.anchor) - Grain * k BY DEF Sound, Timers, Exact
    <2>3. /\ x \in Nat /\ k \in Nat /\ s.rate \in Nat /\ s.anchor \in Nat /\ Grain \in Nat
          /\ a.due \in Int
      <3>1. a.event \in Events /\ a.due \in Int BY <1>4
      <3>2. Times[a.event] \in Nat /\ Comp[a.event] \in Nat BY <3>1, <1>2 DEF Constants
      <3>3. s.rate \in Nat /\ s.anchor \in Nat BY <1>2 DEF Fields
      <3> QED BY <3>1, <3>2, <3>3, <1>0
    <2> HIDE DEF x, k
    <2>4. s.rate * (a.due - Grain) = s.rate * a.due - Grain * s.rate BY <2>3
    <2>5. Grain * (x - (s.anchor + s.rate)) = Grain * (x - s.anchor) - Grain * s.rate BY <2>3
    <2>6. s.rate * (a.due - Grain) = Grain * (x - (s.anchor + s.rate)) - Grain * k
      BY <2>2, <2>3, <2>4, <2>5
    <2> QED BY <2>1, <2>6, <1>14, <1>15 DEF x, k
  <1>17. Accounted(t) BY <1>10, <1>12, <1>13 DEF Sound, Accounted
  <1>18. Beyond(t)
    <2> SUFFICES ASSUME ~s.disturbed, NEW e \in Events, e >= s.cursor
                 PROVE  Times[e] > anchor + (tick + EmitAhead + Lag) * s.rate + MaxComp
      BY <1>10, <1>12, <1>14 DEF Beyond, OutOfReach, Active
    <2>1. Times[e] > s.anchor + (s.tickIn + EmitAhead + Lag) * s.rate + MaxComp
      BY <1>14 DEF Sound, Beyond, OutOfReach
    <2>2. /\ s.tickIn \in Int /\ s.rate \in Nat /\ EmitAhead \in Nat /\ Lag \in Nat
          /\ s.anchor \in Nat
      BY <1>1, Magnitudes
    <2>3. (s.tickIn - 1 + EmitAhead + Lag) * s.rate
            = (s.tickIn + EmitAhead + Lag) * s.rate - s.rate
      BY <2>2
    <2>4. (s.anchor + s.rate) + (s.tickIn - 1 + EmitAhead + Lag) * s.rate
            = s.anchor + (s.tickIn + EmitAhead + Lag) * s.rate
      <3>1. (s.tickIn + EmitAhead + Lag) * s.rate \in Int BY <2>2
      <3> QED BY <2>2, <2>3, <3>1
    <2> QED BY <2>1, <2>4, <1>14, <1>15
  <1>19. Kept(t) BY <1>10, <1>14 DEF Kept, Active
  <1>20. Once(t)
    <2> SUFFICES ASSUME s.rate = 1, ~s.disturbed, NEW e \in Events, Comp[e] = 0
                 PROVE  OnceOnly(t, e)
      BY <1>10 DEF Once
    <2>1. OnceOnly(s, e) /\ Active(s) /\ Active(t) BY <1>12, <1>14 DEF Sound, Once
    <2>2. s.sent[e] > 0 => Times[e] <= s.anchor + EmitAhead BY <2>1 DEF OnceOnly
    <2>3. s.sent[e] > 0 => Times[e] <= t.anchor + EmitAhead
      <3>1. t.anchor = s.anchor + s.rate BY <2>1, <1>10, <1>15
      <3>2. Times[e] \in Nat /\ s.anchor \in Nat /\ s.rate \in Nat /\ EmitAhead \in Nat
        BY <1>2 DEF Fields, Constants
      <3> QED BY <2>2, <3>1, <3>2
    <2> QED BY <2>1, <2>3, <1>10, <1>13 DEF OnceOnly
  <1>21. Ordered(t) BY <1>10 DEF Sound, Ordered, Comparable
  <1>22. t.cut = {} BY <1>10 DEF Sound
  <1> QED BY <1>10, <1>11, <1>16, <1>17, <1>18, <1>19, <1>20, <1>21, <1>22 DEF Sound

\* After a tempo change only the bookkeeping of the events is claimed.
LEMMA SetTempoSound ==
    ASSUME NEW s, Sound(s), NEW r \in Rates, NEW t, t = SetTempo(s, r)
    PROVE  Sound(t) /\ t.sent = s.sent /\ t.disturbed
  <1>1. Typed(s) /\ s \in PlayerType BY DEF Sound, Typed
  <1>2. Fields(s) /\ Constants BY <1>1, Facts
  <1> DEFINE anchor == CASE s.playing /\ ~s.paused -> s.position
                         [] s.playing /\ s.paused  -> (s.anchor * r) \div s.rate
                         [] OTHER                  -> s.anchor
  <1>3. anchor \in Nat
    <2>1. r \in Nat /\ s.anchor \in Nat /\ s.rate \in Nat \ {0} /\ s.position \in Nat
      BY <1>2, Parameters DEF Fields, Constants
    <2>2. s.anchor * r \in Nat BY <2>1
    <2>3. (s.anchor * r) \div s.rate \in Nat BY <2>1, <2>2
    <2> HIDE <2>2
    <2> QED BY <2>1, <2>3
  <1>4. t = [s EXCEPT !.rate = r, !.disturbed = TRUE, !.anchor = anchor] BY DEF SetTempo
  <1> HIDE DEF anchor
  <1>5. /\ t \in PlayerType /\ t.playing = s.playing /\ t.paused = s.paused
        /\ t.cursor = s.cursor /\ t.armed = s.armed /\ t.sent = s.sent
        /\ t.from = s.from /\ t.cut = s.cut /\ t.forgiven = s.forgiven /\ t.disturbed
    <2>1. t \in PlayerType BY <1>1, <1>3, <1>4 DEF PlayerType
    <2> QED BY <1>1, <1>4, <2>1 DEF PlayerType
  <1>6. Typed(t) BY <1>1, <1>5 DEF Typed
  <1>7. Accounted(t) BY <1>5 DEF Sound, Accounted, Waits, Active
  <1>8. Timers(t) /\ Beyond(t) /\ Kept(t) /\ Once(t) /\ Ordered(t)
    BY <1>5 DEF Timers, Beyond, Kept, Once, Ordered
  <1> QED BY <1>5, <1>6, <1>7, <1>8 DEF Sound

-----------------------------------------------------------------------------
(* The theorems.                                                           *)

\* The invariant holds of a player with a file loaded.
LEMMA InitSound == Init => Inv
  <1> SUFFICES ASSUME Init PROVE Sound(player) BY DEF Inv
  <1>1. Constants /\ Len(Times) \in Nat \ {0} /\ Events = 1..Len(Times)
    BY Parameters, EventList, MaxCompBounds DEF Constants
  <1>2. /\ 0 \in 0..Duration /\ 1 \in 1..(Len(Times) + 1) /\ 1 \in Rates
        /\ TickPeriod \in (-Lag)..TickPeriod
        /\ [e \in Events |-> 0] \in [Events -> 0..2]
    BY <1>1, Parameters DEF Constants
  <1>3. player \in PlayerType
    <2> DEFINE none == [e \in Events |-> 0]
    <2>1. none \in [Events -> 0..2] BY <1>2
    <2>2. player = [playing |-> FALSE, paused |-> FALSE, rate |-> 1, anchor |-> 0,
              position |-> 0, cursor |-> 1, tickIn |-> TickPeriod, armed |-> {},
              sent |-> none, from |-> 1, cut |-> {}, late |-> FALSE,
              forgiven |-> {}, disturbed |-> FALSE]
      BY DEF Init
    <2> HIDE DEF none
    <2> QED BY <1>2, <2>1, <2>2 DEF PlayerType
  <1>4. /\ ~player.playing /\ ~player.paused /\ player.anchor = 0 /\ player.position = 0
        /\ player.cursor = 1 /\ player.from = 1 /\ player.armed = {}
        /\ player.sent = [e \in Events |-> 0] /\ player.cut = {}
    BY DEF Init
  <1>5. IndexAt(0) = 1
    <2>1. {e \in Events : Times[e] < 0} = {} BY <1>1 DEF Constants
    <2> QED BY <2>1, FS_EmptySet DEF IndexAt
  <1> QED BY <1>2, <1>3, <1>4, <1>5, AtRestSound DEF Active

\* What every step keeps, and when a step sends.
LEMMA StepSound ==
    ASSUME Inv, [Next]_vars
    PROVE  /\ Inv'
           /\ \A e \in Events :
                 player'.sent[e] > player.sent[e] /\ ~player'.disturbed => Punctual(player', e)
  <1> DEFINE Sends(s, t) ==
               \A e \in Events : t.sent[e] > s.sent[e] /\ ~t.disturbed => Punctual(t, e)
  <1> SUFFICES Sound(player') /\ Sends(player, player') BY DEF Inv
  <1>1. Sound(player) /\ Typed(player) /\ player \in PlayerType BY DEF Inv, Sound, Typed
  <1>2. \A e \in Events : player.sent[e] \in 0..2 BY <1>1 DEF PlayerType
  <1>3. \A t : Sound(t) => \A e \in Events : t.sent[e] \in 0..2
    BY DEF Sound, Typed, PlayerType
  <1>4. ASSUME NEW t, t.sent = player.sent PROVE Sends(player, t)
    <2>1. \A e \in Events : ~(t.sent[e] > player.sent[e]) BY <1>2, <1>4
    <2> QED BY <2>1
  <1>5. ASSUME NEW t, \A e \in Events : t.sent[e] = 0 PROVE Sends(player, t)
    <2>1. \A e \in Events : ~(t.sent[e] > player.sent[e]) BY <1>2, <1>5
    <2> QED BY <2>1
  <1>6. ASSUME NEW p \in 0..Duration, NEW l \in Lookaheads, NEW t \in Pass(StartAt(player, p), l)
        PROVE  Sound(t) /\ Sends(player, t)
    <2> DEFINE s == StartAt(player, p)
    <2>1. Entry(s) /\ \A e \in Events : s.sent[e] = 0 BY <1>1, StartEntry
    <2> HIDE DEF s
    <2>2. Sound(t) /\ Sends(s, t) BY <2>1, <1>6, PassSound DEF s
    <2>3. \A e \in Events : t.sent[e] > player.sent[e] => t.sent[e] > s.sent[e]
      BY <1>2, <1>3, <2>1, <2>2
    <2> QED BY <2>2, <2>3
  <1>7. CASE PlaybackStart
    <2>1. 0 \in 0..Duration BY EventList
    <2> QED BY <1>6, <1>7, <2>1 DEF PlaybackStart
  <1>8. CASE PlaybackPause
    <2>1. Active(player) /\ player' = Pause(player) BY <1>8 DEF PlaybackPause, Running, Active
    <2>2. Sound(player') /\ player'.sent = player.sent BY <1>1, <2>1, PauseSound
    <2> QED BY <2>2, <1>4
  <1>9. CASE PlaybackResume
    <2>1. PICK l \in Lookaheads : player' \in Resume(player, l) BY <1>9 DEF PlaybackResume
    <2> DEFINE s == [player EXCEPT !.paused = FALSE, !.tickIn = TickPeriod,
                         !.cursor = Rewound(player), !.forgiven = @ \cup Forgives(player)]
    <2>2. player' \in Pass(s, l) BY <2>1 DEF Resume, Forgives
    <2>3. player.playing /\ player.paused BY <1>9 DEF PlaybackResume
    <2>4. Entry(s) /\ s.sent = player.sent BY <1>1, <2>3, ResumeEntry
    <2> HIDE DEF s
    <2>5. Sound(player') /\ Sends(s, player') BY <2>2, <2>4, PassSound
    <2> QED BY <2>4, <2>5
  <1>10. CASE PlaybackStop
    <2>1. Sound(player') /\ \A e \in Events : player'.sent[e] = 0
      BY <1>1, <1>10, StopSound DEF PlaybackStop
    <2> QED BY <2>1, <1>5
  <1>11. CASE PlaybackSeek
    <2>1. PICK p \in Targets :
             \/ \E l \in Lookaheads : player' \in Pass(StartAt(player, p), l)
             \/ player.playing /\ player.paused /\ player' = Relocate(player, p)
      BY <1>11 DEF PlaybackSeek
    <2>2. p \in 0..Duration BY Parameters
    <2>3. CASE \E l \in Lookaheads : player' \in Pass(StartAt(player, p), l)
      BY <1>6, <2>2, <2>3
    <2>4. CASE player.playing /\ player.paused /\ player' = Relocate(player, p)
      <3>1. Sound(player') /\ \A e \in Events : player'.sent[e] = 0
        BY <1>1, <2>2, <2>4, PausedSeekSound
      <3> QED BY <1>5, <3>1
    <2> QED BY <2>1, <2>3, <2>4
  <1>12. CASE PlaybackSetTempo
    <2>1. Sound(player') /\ player'.sent = player.sent
      BY <1>1, <1>12, SetTempoSound DEF PlaybackSetTempo
    <2> QED BY <2>1, <1>4
  <1>13. CASE Tick
    <2> DEFINE s == [player EXCEPT !.tickIn = TickPeriod, !.late = player.tickIn < 0]
    <2>1. PICK l \in Lookaheads : player' \in Pass(s, l) BY <1>13 DEF Tick
    <2>2. /\ Active(player) /\ player.tickIn <= 0
          /\ \A a \in player.armed : a.due >= Grain * player.tickIn
      BY <1>13 DEF Tick, Running, Active
    <2>3. Entry(s) /\ s.sent = player.sent BY <1>1, <2>2, TickEntry
    <2> HIDE DEF s
    <2>4. Sound(player') /\ Sends(s, player') BY <2>1, <2>3, PassSound
    <2> QED BY <2>3, <2>4
  <1>14. ASSUME NEW a \in player.armed, TimerFires(a)
         PROVE  Sound(player') /\ Sends(player, player')
    <2> DEFINE u == [player EXCEPT !.armed = @ \ {a}]
               t == Send(u, {a.event})
    <2>1. \A b \in player.armed : b.due \in Int BY <1>1 DEF PlayerType
    <2>2. Expired(player, a)
      <3>1. /\ a.due <= 0 /\ \A b \in player.armed : b.due > a.due \/ b.due = a.due
        BY <1>14 DEF TimerFires
      <3> QED BY <2>1, <3>1 DEF Expired
    <2>3. \/ player' = t
          \/ PausePolicy /\ Running /\ player' = Pause(t)
      BY <1>14 DEF TimerFires
    <2> HIDE DEF t
    <2>4. /\ Sound(t) /\ t.playing = player.playing /\ t.paused = player.paused
          /\ Sends(player, t)
      BY <1>1, <2>2, FireSound DEF t
    <2>5. CASE player' = t BY <2>4, <2>5
    <2>6. CASE Running /\ player' = Pause(t)
      <3>1. Active(t) BY <2>4, <2>6 DEF Running, Active
      <3>2. /\ Sound(player') /\ player'.sent = t.sent /\ player'.anchor = t.anchor
            /\ player'.rate = t.rate /\ player'.disturbed = t.disturbed
        BY <2>4, <2>6, <3>1, PauseSound
      <3> QED BY <2>4, <3>2 DEF Punctual
    <2> QED BY <2>3, <2>5, <2>6
  <1>15. CASE Elapse
    <2>1. /\ player.playing /\ (Active(player) => player.tickIn > -Lag)
          /\ \A a \in player.armed : a.due - Grain >= -(Grain * Lag)
          /\ Active(player) \/ player.armed # {}
      BY <1>15 DEF Elapse, Running, Active
    <2>2. player' = [player EXCEPT
              !.anchor = IF Active(player) THEN @ + player.rate ELSE @,
              !.tickIn = IF Active(player) THEN @ - 1 ELSE @,
              !.armed  = {[a EXCEPT !.due = @ - Grain] : a \in @}]
      BY <1>15 DEF Elapse, Running, Active
    <2>3. Sound(player') /\ player'.sent = player.sent BY <1>1, <2>1, <2>2, ElapseSound
    <2> QED BY <2>3, <1>4
  <1>16. CASE UNCHANGED vars
    <2>1. player' = player BY <1>16 DEF vars
    <2> QED BY <1>1, <1>4, <2>1
  <1> QED
    BY <1>7, <1>8, <1>9, <1>10, <1>11, <1>12, <1>13, <1>14, <1>15, <1>16 DEF Next

\* The invariant of the player holds of every reachable state.
THEOREM InvHolds == Spec => []Inv
  <1>1. Inv /\ [Next]_vars => Inv' BY StepSound
  <1> QED BY InitSound, <1>1, PTL DEF Spec

\* Type correctness, with the bound on how late a timer runs.
THEOREM TypeCorrect == Spec => []TypeOK
  <1>1. Inv => TypeOK BY DEF Inv, Sound, Typed, TypeOK
  <1> QED BY InvHolds, <1>1, PTL

\* Whatever pauses, resumes, seeks, tempo changes and lost devices came before,
\* a running player has sent or armed every event its cursor passed, but for
\* those the rewind of a resume steps over.
THEOREM NothingIsSkipped == Spec => []NothingSkipped
  <1>1. Inv => NothingSkipped
    BY DEF Inv, Sound, Accounted, Waits, Active, NothingSkipped, Running, Taken, IsArmed
  <1> QED BY InvHolds, <1>1, PTL

\* The end of a file found by a punctual tick cancels no send.
THEOREM NothingIsCutAtEnd == Spec => []NothingCutAtEnd
  <1>1. Inv => NothingCutAtEnd BY DEF Inv, Sound, NothingCutAtEnd
  <1> QED BY InvHolds, <1>1, PTL

\* No event of an uncompensated device is sent twice at notated speed.
THEOREM SentOnlyOnce == Spec => []SentOnce
  <1>1. Inv => SentOnce BY DEF Inv, Sound, Once, OnceOnly, SentOnce
  <1> QED BY InvHolds, <1>1, PTL

\* A device without compensation receives its events in the order of the file
\* at any speed, any other at notated speed.
THEOREM OrderIsKept == Spec => []InOrder
  <1>1. Inv => InOrder BY DEF Inv, Sound, Ordered, Comparable, InOrder
  <1> QED BY InvHolds, <1>1, PTL

\* No event leaves before its compensated instant less EMIT_AHEAD_MS, or after
\* its notated one plus the lateness of the event loop.
THEOREM SendsAreOnTime == Spec => OnTime
  <1> DEFINE Sent ==
        \A e \in Events :
           /\ player'.sent[e] > player.sent[e] /\ ~player'.disturbed
           => LET ahead == Times[e] - player'.anchor
              IN  /\ ahead <= (EmitAhead + Comp[e]) * player'.rate
                  /\ ahead >= -(Lag * player'.rate)
  <1>1. Inv /\ [Next]_vars => [Sent]_vars
    BY StepSound DEF Punctual
  <1> QED BY InvHolds, <1>1, PTL DEF Spec, OnTime
=============================================================================
