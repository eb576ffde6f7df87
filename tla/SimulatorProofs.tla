---------------------------- MODULE SimulatorProofs ----------------------------
(***************************************************************************)
(* The simulator: its network and the link its frames leave by.             *)
(*                                                                         *)
(* The publication schedule, for any periods, any fixed step and any word:   *)
(* the due timestamp that the ECUs advance incrementally is                  *)
(* always the next multiple of the period after the clock, cut at the        *)
(* largest word (DueInv), whether a step spans none, one or many periods.   *)
(* A tick therefore publishes a message just when a multiple of its period    *)
(* lies in the step.                                                        *)
(*                                                                         *)
(* The link, for runs of any length: what the client has read is a header    *)
(* and whole records and the bytes of its buffer; what the server has        *)
(* written lies in the record it is sending.                                *)
(***************************************************************************)
EXTENDS VehicleNetwork, GatewayStream, FiniteSetTheorems, SequenceTheorems,
        WellFoundedInduction, TLAPS

-----------------------------------------------------------------------------
\* Division.

LEMMA Quotient ==
  ASSUME NEW a \in Nat, NEW p \in Nat \ {0}
  PROVE  a \div p \in Nat /\ p * (a \div p) <= a /\ a < p * (a \div p + 1)
  OBVIOUS

LEMMA QuotientIs ==
  ASSUME NEW a \in Nat, NEW p \in Nat \ {0}, NEW q \in Nat, p * q <= a, a < p * (q + 1)
  PROVE  a \div p = q
  OBVIOUS

\* The next multiple of p after t, within the word.
NextMultiple(p, t) == p * (t \div p + 1)
NextDue(p, t) == IF NextMultiple(p, t) > MaxWord THEN MaxWord ELSE NextMultiple(p, t)

\* A later time with no multiple between has the same next multiple.
LEMMA SameNext ==
  ASSUME NEW p \in Nat \ {0}, NEW s \in Nat, NEW t \in Nat, s <= t
  PROVE  /\ t < NextMultiple(p, s) => t \div p = s \div p
         /\ t >= NextMultiple(p, s) => t \div p >= s \div p + 1
         /\ NextMultiple(p, s) \in Nat /\ NextMultiple(p, s) > s
<1> DEFINE q == s \div p
           r == t \div p
<1>1. q \in Nat /\ p * q <= s /\ s < p * (q + 1)
  BY Quotient
<1>2. r \in Nat /\ p * r <= t /\ t < p * (r + 1)
  BY Quotient
<1>3. NextMultiple(p, s) = p * (q + 1)
  BY DEF NextMultiple
<1> HIDE DEF q, r
<1>4. p * (q + 1) \in Nat /\ p * q \in Nat
  BY <1>1
<1>5. ASSUME t < p * (q + 1) PROVE r = q
  <2>1. p * q <= t
    BY <1>1, <1>4
  <2>2. QED
    BY <1>1, <1>5, <2>1, QuotientIs DEF r
<1>6. ASSUME t >= p * (q + 1) PROVE r >= q + 1
  <2> SUFFICES ASSUME r <= q PROVE FALSE
    BY <1>1, <1>2
  <2>1. p * (r + 1) <= p * (q + 1)
    BY <1>1, <1>2
  <2>2. QED
    BY <1>1, <1>2, <1>4, <1>6, <2>1
<1>7. QED
  BY <1>1, <1>3, <1>4, <1>5, <1>6 DEF q, r

\* advance_due_timestamp, from the multiple p * k on.
LEMMA AdvanceFromMultiple ==
  ASSUME NEW p \in 1..MaxWord, NEW t \in Word, NEW k \in Nat, p * k <= t
  PROVE  AdvanceDue(p * k, p, t) = NextDue(p, t)
<1> DEFINE r == t \div p
           w == MaxWord \div p
<1>1. p \in Nat \ {0} /\ t \in Nat /\ MaxWord \in Nat /\ t <= MaxWord
  BY NetworkAssumption DEF Word
<1>2. r \in Nat /\ p * r <= t /\ t < p * (r + 1)
  BY <1>1, Quotient
<1>3. w \in Nat /\ p * w <= MaxWord /\ MaxWord < p * (w + 1)
  BY <1>1, Quotient
<1> HIDE DEF r, w
<1>4. p * k \in Nat /\ p * r \in Nat /\ p * w \in Nat
  BY <1>1, <1>2, <1>3
<1>5. k <= r /\ k <= w
  <2>1. ASSUME NEW x \in Nat, p * k < p * (x + 1) PROVE k <= x
    BY <1>1, <2>1
  <2>2. p * k < p * (r + 1) /\ p * k < p * (w + 1)
    BY <1>1, <1>2, <1>3, <1>4
  <2>3. QED
    BY <1>2, <1>3, <2>1, <2>2
<1>6. (t - p * k) \div p = r - k
  <2>1. t - p * k \in Nat /\ r - k \in Nat
    BY <1>1, <1>2, <1>4, <1>5
  <2>2. p * (r - k) = p * r - p * k /\ p * ((r - k) + 1) = p * (r + 1) - p * k
    BY <1>1, <1>2
  <2>3. p * (r - k) <= t - p * k /\ t - p * k < p * ((r - k) + 1)
    BY <1>1, <1>2, <1>4, <2>2
  <2>4. QED
    BY <1>1, <2>1, <2>3, QuotientIs
<1>7. (MaxWord - p * k) \div p = w - k
  <2>1. MaxWord - p * k \in Nat /\ w - k \in Nat
    BY <1>1, <1>3, <1>4, <1>5
  <2>2. p * (w - k) = p * w - p * k /\ p * ((w - k) + 1) = p * (w + 1) - p * k
    BY <1>1, <1>3
  <2>3. p * (w - k) <= MaxWord - p * k /\ MaxWord - p * k < p * ((w - k) + 1)
    BY <1>1, <1>3, <1>4, <2>2
  <2>4. QED
    BY <1>1, <2>1, <2>3, QuotientIs
<1>8. AdvanceDue(p * k, p, t) =
        IF r - k + 1 > w - k THEN MaxWord ELSE p * k + (r - k + 1) * p
  BY <1>6, <1>7 DEF AdvanceDue
<1>9. p * k + (r - k + 1) * p = p * (r + 1)
  BY <1>1, <1>2
<1>10. r - k + 1 > w - k <=> p * (r + 1) > MaxWord
  <2>1. ASSUME r + 1 > w PROVE p * (r + 1) > MaxWord
    <3>1. p * (w + 1) <= p * (r + 1)
      BY <1>1, <1>2, <1>3, <2>1
    <3>2. QED
      BY <1>1, <1>2, <1>3, <3>1
  <2>2. ASSUME r + 1 <= w PROVE p * (r + 1) <= MaxWord
    <3>1. p * (r + 1) <= p * w
      BY <1>1, <1>2, <1>3, <2>2
    <3>2. QED
      BY <1>1, <1>2, <1>3, <1>4, <3>1
  <2>3. QED
    BY <1>1, <1>2, <1>3, <2>1, <2>2
<1>11. QED
  BY <1>8, <1>9, <1>10 DEF NextDue, NextMultiple, r

\* The saturated schedule stays saturated at the largest word.
LEMMA AdvanceSaturated ==
  ASSUME NEW p \in 1..MaxWord
  PROVE  /\ AdvanceDue(MaxWord, p, MaxWord) = MaxWord
         /\ NextDue(p, MaxWord) = MaxWord
<1>1. p \in Nat \ {0} /\ MaxWord \in Nat
  BY NetworkAssumption
<1>2. MaxWord - MaxWord = 0 /\ 0 \div p = 0
  <2>1. p * 0 <= 0 /\ 0 < p * (0 + 1)
    BY <1>1
  <2>2. QED
    BY <1>1, <2>1, QuotientIs
<1>3. AdvanceDue(MaxWord, p, MaxWord) = MaxWord
  BY <1>2 DEF AdvanceDue
<1>4. NextMultiple(p, MaxWord) > MaxWord
  BY <1>1, SameNext
<1>5. QED
  BY <1>3, <1>4 DEF NextDue

-----------------------------------------------------------------------------
\* The due timestamps.

ScheduleTypes ==
  /\ period \in [Enabled -> Periods] /\ Enabled \subseteq Ids
  /\ step \in 1..MaxWord /\ now \in Word
  /\ now % step = 0
  /\ due \in [Enabled -> Word]

\* The schedule names the next multiple of each period after the clock.
DueInv == \A id \in Enabled : due[id] = NextDue(period[id], now)

LEMMA NextDueAhead ==
  ASSUME NEW p \in 1..MaxWord, NEW t \in Word
  PROVE  /\ NextDue(p, t) \in Word
         /\ NextDue(p, t) > t \/ NextDue(p, t) = MaxWord
         /\ NextDue(p, t) <= t + p
<1> DEFINE r == t \div p
<1>1. p \in Nat \ {0} /\ t \in Nat /\ MaxWord \in Nat /\ t <= MaxWord
  BY NetworkAssumption DEF Word
<1>2. r \in Nat /\ p * r <= t /\ t < p * (r + 1)
  BY <1>1, Quotient
<1>3. NextMultiple(p, t) = p * (r + 1)
  BY DEF NextMultiple
<1> HIDE DEF r
<1>4. p * (r + 1) = p * r + p /\ p * r \in Nat
  BY <1>1, <1>2
<1>5. NextMultiple(p, t) \in Nat /\ NextMultiple(p, t) > t /\ NextMultiple(p, t) <= t + p
  BY <1>1, <1>2, <1>3, <1>4
<1>6. QED
  BY <1>1, <1>5 DEF NextDue, Word

\* One tick: from s to t the schedule publishes when t reaches the next due
\* timestamp, and then names the next multiple after t.
LEMMA TickAdvances ==
  ASSUME NEW p \in 1..MaxWord, NEW s \in Word, NEW t \in Word, s < t
  PROVE  /\ (IF t >= NextDue(p, s) THEN AdvanceDue(NextDue(p, s), p, t) ELSE NextDue(p, s))
              = NextDue(p, t)
         /\ t >= NextDue(p, s) <=> (t = MaxWord \/ t \div p # s \div p)
<1>1. p \in Nat \ {0} /\ s \in Nat /\ t \in Nat /\ MaxWord \in Nat /\ t <= MaxWord
  BY NetworkAssumption DEF Word
<1>2. s \div p \in Nat /\ t \div p \in Nat
  BY <1>1, Quotient
<1>3. /\ t < NextMultiple(p, s) => t \div p = s \div p
      /\ t >= NextMultiple(p, s) => t \div p >= s \div p + 1
      /\ NextMultiple(p, s) \in Nat
  <2>1. s <= t
    BY <1>1
  <2>2. QED
    BY <1>1, <2>1, SameNext, Zenon
<1>4. NextDue(p, s) \in Word
  BY NextDueAhead
<1>5. t >= NextDue(p, s) <=> (t = MaxWord \/ t \div p # s \div p)
  BY <1>1, <1>2, <1>3 DEF NextDue
<1>6. CASE t < NextDue(p, s)
  <2>1. t \div p = s \div p
    BY <1>1, <1>2, <1>4, <1>5, <1>6 DEF Word
  <2>2. NextDue(p, t) = NextDue(p, s)
    BY <2>1 DEF NextDue, NextMultiple
  <2>3. QED
    BY <1>1, <1>4, <1>5, <1>6, <2>2 DEF Word
<1>7. CASE t >= NextDue(p, s) /\ NextMultiple(p, s) <= MaxWord
  <2>1. NextDue(p, s) = p * (s \div p + 1) /\ s \div p + 1 \in Nat
    BY <1>1, <1>2, <1>3, <1>7 DEF NextDue, NextMultiple
  <2>2. p * (s \div p + 1) <= t
    BY <1>7, <2>1
  <2>3. AdvanceDue(p * (s \div p + 1), p, t) = NextDue(p, t)
    BY <2>1, <2>2, AdvanceFromMultiple
  <2>4. QED
    BY <1>5, <1>7, <2>1, <2>3
<1>8. CASE t >= NextDue(p, s) /\ NextMultiple(p, s) > MaxWord
  <2>1. NextDue(p, s) = MaxWord
    BY <1>8 DEF NextDue
  <2>2. t = MaxWord
    BY <1>1, <1>8, <2>1
  <2>3. QED
    BY <1>5, <1>8, <2>1, <2>2, AdvanceSaturated
<1>9. QED
  BY <1>1, <1>3, <1>4, <1>6, <1>7, <1>8 DEF Word

\* The publication of the initial state.
LEMMA FirstDue ==
  ASSUME NEW p \in 1..MaxWord
  PROVE  AdvanceDue(0, p, 0) = NextDue(p, 0)
<1>1. p \in Nat /\ p * 0 = 0 /\ 0 \in Word
  BY NetworkAssumption DEF Word
<1>2. QED
  BY <1>1, AdvanceFromMultiple

\* A step later the next multiple of the step is that of the tick.
LEMMA OneMultiplePerStep ==
  ASSUME NEW q \in Nat \ {0}, NEW s \in Nat, s % q = 0, NEW a \in Nat
  PROVE  /\ (s + q) % q = 0
         /\ a % q = 0 /\ s < a /\ a <= s + q => a = s + q
<1>1. s = q * (s \div q) + (s % q) /\ a = q * (a \div q) + (a % q)
  OBVIOUS
<1>2. (s + q) % q = 0
  <2>1. s + q = q * (s \div q + 1)
    BY <1>1, Quotient
  <2>2. (s + q) \div q = s \div q + 1
    <3>1. s \div q + 1 \in Nat /\ s + q \in Nat
      BY Quotient
    <3>2. q * (s \div q + 1) <= s + q /\ s + q < q * (s \div q + 1 + 1)
      BY <2>1, <3>1
    <3>3. QED
      BY <3>1, <3>2, QuotientIs
  <2>3. s + q = q * ((s + q) \div q) + ((s + q) % q)
    OBVIOUS
  <2>4. (s + q) % q \in Nat
    OBVIOUS
  <2>5. QED
    BY <2>1, <2>2, <2>3, <2>4, Quotient
<1>3. ASSUME a % q = 0, s < a, a <= s + q PROVE a = s + q
  <2> DEFINE i == s \div q
             j == a \div q
  <2>1. i \in Nat /\ j \in Nat /\ s = q * i /\ a = q * j
    BY <1>1, <1>3, Quotient
  <2> HIDE DEF i, j
  <2>2. i < j
    <3> SUFFICES ASSUME j <= i PROVE FALSE
      BY <2>1
    <3>1. q * j <= q * i
      BY <2>1
    <3>2. QED
      BY <1>3, <2>1, <3>1
  <2>3. q * (i + 1) <= q * j
    BY <2>1, <2>2
  <2>4. q * (i + 1) = s + q
    BY <2>1
  <2>5. QED
    BY <1>3, <2>1, <2>3, <2>4
<1>4. QED
  BY <1>2, <1>3

-----------------------------------------------------------------------------
\* The combined frames in bus order.

LEMMA LeastOf ==
  ASSUME NEW T \in SUBSET Nat, T # {}
  PROVE  \E m \in T : \A k \in T : m <= k
<1>1. PICK m \in T : \A k \in T : ~ (<<k, m>> \in OpToRel(<, Nat))
  BY WFMin, NatLessThanWellFounded
<1>2. \A k \in T : ~(k < m)
  BY <1>1 DEF OpToRel
<1>3. QED
  BY <1>2

Ascending(s) == \A i, j \in DOMAIN s : i < j => s[i] < s[j]

\* A finite set of numbers can be put in order, the least one first.
LEMMA CanBeOrdered ==
  ASSUME NEW S \in SUBSET Nat, IsFiniteSet(S)
  PROVE  \E s \in [1..Cardinality(S) -> S] : Ascending(s)
<1> DEFINE Ordered(n) == \A U \in SUBSET Nat :
                           IsFiniteSet(U) /\ Cardinality(U) = n
                             => \E s \in [1..n -> U] : Ascending(s)
           Bad == {n \in Nat : ~Ordered(n)}
<1>1. Bad = {}
  <2> SUFFICES ASSUME Bad # {} PROVE FALSE
    OBVIOUS
  <2>1. PICK m \in Bad : \A k \in Bad : m <= k
    <3>1. Bad \in SUBSET Nat
      OBVIOUS
    <3> HIDE DEF Bad
    <3>2. QED
      BY <3>1, LeastOf
  <2>2. PICK U \in SUBSET Nat :
          /\ IsFiniteSet(U) /\ Cardinality(U) = m
          /\ ~ \E s \in [1..m -> U] : Ascending(s)
    BY <2>1
  <2>3. m \in Nat
    BY <2>1
  <2>4. CASE m = 0
    <3> DEFINE e == [i \in 1..m |-> 0]
    <3>1. 1..m = {}
      BY <2>4
    <3>2. e \in [1..m -> U] /\ Ascending(e)
      BY <3>1 DEF Ascending
    <3>3. QED
      BY <2>2, <3>2
  <2>5. CASE m # 0
    <3>1. U # {}
      BY <2>2, <2>5, FS_EmptySet
    <3>2. PICK x \in U : \A k \in U : x <= k
      BY <2>2, <3>1, LeastOf
    <3>3. IsFiniteSet(U \ {x}) /\ Cardinality(U \ {x}) = m - 1
      BY <2>2, FS_RemoveElement
    <3>4. m - 1 \in Nat
      BY <2>3, <2>5
    <3>5. Ordered(m - 1)
      <4> SUFFICES ASSUME ~Ordered(m - 1) PROVE FALSE
        OBVIOUS
      <4> HIDE DEF Ordered
      <4>1. m - 1 \in Bad
        BY <3>4
      <4>2. m <= m - 1
        BY <2>1, <4>1
      <4>3. QED
        BY <2>3, <4>2
    <3>6. PICK s \in [1..(m - 1) -> U \ {x}] : Ascending(s)
      BY <2>2, <3>3, <3>5
    <3> DEFINE u == [i \in 1..m |-> IF i = 1 THEN x ELSE s[i - 1]]
    <3>7. \A i \in 2..m : i - 1 \in 1..(m - 1) /\ s[i - 1] \in U \ {x}
      BY <2>3, <3>6
    <3>8. u \in [1..m -> U]
      BY <2>3, <3>7
    <3>9. Ascending(u)
      <4> SUFFICES ASSUME NEW i \in 1..m, NEW j \in 1..m, i < j PROVE u[i] < u[j]
        BY DEF Ascending
      <4>1. j \in 2..m /\ u[j] = s[j - 1]
        BY <2>3
      <4>2. CASE i = 1
        <5>1. s[j - 1] \in U /\ s[j - 1] # x /\ x <= s[j - 1] /\ x \in Nat /\ s[j - 1] \in Nat
          BY <2>2, <3>2, <3>7, <4>1
        <5>2. QED
          BY <4>1, <4>2, <5>1
      <4>3. CASE i # 1
        <5>1. i - 1 \in DOMAIN s /\ j - 1 \in DOMAIN s /\ i - 1 < j - 1 /\ u[i] = s[i - 1]
          BY <2>3, <3>6, <4>3
        <5>2. QED
          BY <3>6, <4>1, <5>1 DEF Ascending
      <4>4. QED
        BY <4>2, <4>3
    <3>10. QED
      BY <2>2, <3>8, <3>9
  <2>6. QED
    BY <2>4, <2>5
<1>2. Cardinality(S) \in Nat
  BY FS_CardinalityType
<1>3. Ordered(Cardinality(S))
  <2> HIDE DEF Ordered
  <2>1. QED
    BY <1>1, <1>2
<1>4. QED
  BY <1>3

\* Sorting a set of arbitration IDs loses none and adds none.
LEMMA InOrderIs ==
  ASSUME NEW S \in SUBSET Nat, IsFiniteSet(S)
  PROVE  /\ InOrder(S) \in [1..Cardinality(S) -> S]
         /\ Ascending(InOrder(S))
         /\ Cardinality(S) \in Nat
         /\ \A x \in S : \E i \in 1..Cardinality(S) : InOrder(S)[i] = x
<1> DEFINE s == InOrder(S)
           n == Cardinality(S)
<1>1. s \in [1..n -> S] /\ \A i, j \in DOMAIN s : i < j => s[i] < s[j]
  BY CanBeOrdered DEF InOrder, Ascending
<1>2. n \in Nat
  BY FS_CardinalityType
<1> HIDE DEF s, n
<1>3. \A i \in 1..n : s[i] \in Nat
  BY <1>1
<1>4. \A i, j \in 1..n : s[i] = s[j] => i = j
  <2> SUFFICES ASSUME NEW i \in 1..n, NEW j \in 1..n, s[i] = s[j], i # j PROVE FALSE
    OBVIOUS
  <2>1. i < j \/ j < i
    BY <1>2
  <2>2. s[i] < s[j] \/ s[j] < s[i]
    BY <1>1, <2>1
  <2>3. QED
    BY <1>3, <2>2
<1>5. s \in Injection(1..n, S)
  BY <1>1, <1>4 DEF Injection, IsInjective
<1>6. Cardinality(1..n) = n
  BY <1>2, FS_Interval
<1>7. s \in Surjection(1..n, S)
  BY <1>5, <1>6, FS_Injection DEF n
<1>8. QED
  BY <1>1, <1>2, <1>7 DEF Surjection, Ascending, s, n

LEMMA AFunctionIsASequence ==
  ASSUME NEW T, NEW n \in Nat, NEW f \in [1..n -> T]
  PROVE  f \in Seq(T)
  OBVIOUS

LEMMA SequenceOfMore ==
  ASSUME NEW T, NEW U, T \subseteq U, NEW s \in Seq(T)
  PROVE  s \in Seq(U)
<1>1. Len(s) \in Nat /\ s \in [1..Len(s) -> T]
  OBVIOUS
<1>2. s \in [1..Len(s) -> U]
  BY <1>1
<1>3. QED
  BY <1>1, <1>2, AFunctionIsASequence

FramesOf(s) == {s[i] : i \in DOMAIN s}

InBusOrder(s) == \A i, j \in DOMAIN s : i < j => Precedes(s[i], s[j])

LEMMA FramesAre ==
  ASSUME ScheduleTypes, NEW d, NEW t
  PROVE  /\ Frames(d, t) \in Seq([id : DueAt(d, t), at : {t}])
         /\ FramesOf(Frames(d, t)) = [id : DueAt(d, t), at : {t}]
         /\ InBusOrder(Frames(d, t))
<1> DEFINE D == DueAt(d, t)
           n == Cardinality(D)
<1>1. D \in SUBSET Nat /\ IsFiniteSet(D)
  <2>1. D \subseteq Ids
    BY DEF DueAt, ScheduleTypes
  <2>2. QED
    BY <2>1, NetworkAssumption, FS_Subset
<1> HIDE DEF D
<1>2. /\ InOrder(D) \in [1..n -> D]
      /\ Ascending(InOrder(D))
      /\ n \in Nat
      /\ \A x \in D : \E i \in 1..n : InOrder(D)[i] = x
  BY <1>1, InOrderIs
<1> HIDE DEF n
<1>3. Frames(d, t) = [i \in 1..n |-> [id |-> InOrder(D)[i], at |-> t]]
  BY <1>2 DEF Frames, D
<1>4. Frames(d, t) \in [1..n -> [id : D, at : {t}]]
  BY <1>2, <1>3
<1>5. Frames(d, t) \in Seq([id : D, at : {t}])
  BY <1>2, <1>4, AFunctionIsASequence, Zenon
<1>6. \A f \in [id : D, at : {t}] : \E i \in 1..n : Frames(d, t)[i] = f
  <2> SUFFICES ASSUME NEW f \in [id : D, at : {t}] PROVE \E i \in 1..n : Frames(d, t)[i] = f
    OBVIOUS
  <2>1. PICK i \in 1..n : InOrder(D)[i] = f.id
    BY <1>2
  <2>2. f = [id |-> f.id, at |-> t]
    OBVIOUS
  <2>3. QED
    BY <1>3, <2>1, <2>2
<1>7. FramesOf(Frames(d, t)) = [id : D, at : {t}]
  <2>1. DOMAIN Frames(d, t) = 1..n
    BY <1>4
  <2>2. \A i \in 1..n : Frames(d, t)[i] \in [id : D, at : {t}]
    BY <1>4
  <2>3. QED
    BY <1>6, <2>1, <2>2 DEF FramesOf
<1>8. InBusOrder(Frames(d, t))
  <2> SUFFICES ASSUME NEW i \in 1..n, NEW j \in 1..n, i < j
               PROVE  Precedes(Frames(d, t)[i], Frames(d, t)[j])
    BY <1>3 DEF InBusOrder
  <2>1. InOrder(D)[i] < InOrder(D)[j]
    BY <1>2 DEF Ascending
  <2>2. QED
    BY <1>3, <2>1 DEF Precedes
<1>9. QED
  BY <1>5, <1>7, <1>8 DEF D

\* Later frames may follow what is in order.
LEMMA OrderOfConcat ==
  ASSUME NEW T, NEW s \in Seq(T), NEW u \in Seq(T), InBusOrder(s), InBusOrder(u),
         \A f \in FramesOf(s), g \in FramesOf(u) : f.at < g.at
  PROVE  InBusOrder(s \o u)
<1>1. /\ DOMAIN s = 1..Len(s) /\ DOMAIN u = 1..Len(u)
      /\ DOMAIN (s \o u) = 1..(Len(s) + Len(u))
      /\ Len(s) \in Nat /\ Len(u) \in Nat
  OBVIOUS
<1>2. \A i \in 1..(Len(s) + Len(u)) :
        (s \o u)[i] = IF i <= Len(s) THEN s[i] ELSE u[i - Len(s)]
  OBVIOUS
<1> SUFFICES ASSUME NEW i \in 1..(Len(s) + Len(u)), NEW j \in 1..(Len(s) + Len(u)), i < j
             PROVE  Precedes((s \o u)[i], (s \o u)[j])
  BY <1>1 DEF InBusOrder
<1>3. CASE j <= Len(s)
  <2>1. i \in DOMAIN s /\ j \in DOMAIN s /\ (s \o u)[i] = s[i] /\ (s \o u)[j] = s[j]
    BY <1>1, <1>2, <1>3
  <2>2. QED
    BY <2>1 DEF InBusOrder
<1>4. CASE i > Len(s)
  <2>1. /\ i - Len(s) \in DOMAIN u /\ j - Len(s) \in DOMAIN u /\ i - Len(s) < j - Len(s)
        /\ (s \o u)[i] = u[i - Len(s)] /\ (s \o u)[j] = u[j - Len(s)]
    BY <1>1, <1>2, <1>4
  <2>2. QED
    BY <2>1 DEF InBusOrder
<1>5. CASE i <= Len(s) /\ j > Len(s)
  <2>1. /\ i \in DOMAIN s /\ j - Len(s) \in DOMAIN u
        /\ (s \o u)[i] = s[i] /\ (s \o u)[j] = u[j - Len(s)]
    BY <1>1, <1>2, <1>5
  <2>2. s[i] \in FramesOf(s) /\ u[j - Len(s)] \in FramesOf(u)
    BY <2>1 DEF FramesOf
  <2>3. QED
    BY <2>1, <2>2 DEF Precedes
<1>6. QED
  BY <1>1, <1>3, <1>4, <1>5

LEMMA FramesOfConcat ==
  ASSUME NEW T, NEW s \in Seq(T), NEW u \in Seq(T)
  PROVE  FramesOf(s \o u) = FramesOf(s) \cup FramesOf(u)
<1>1. /\ DOMAIN s = 1..Len(s) /\ DOMAIN u = 1..Len(u)
      /\ DOMAIN (s \o u) = 1..(Len(s) + Len(u))
      /\ Len(s) \in Nat /\ Len(u) \in Nat
  OBVIOUS
<1>2. \A i \in 1..(Len(s) + Len(u)) :
        (s \o u)[i] = IF i <= Len(s) THEN s[i] ELSE u[i - Len(s)]
  OBVIOUS
<1>3. FramesOf(s \o u) \subseteq FramesOf(s) \cup FramesOf(u)
  <2> SUFFICES ASSUME NEW i \in 1..(Len(s) + Len(u))
               PROVE (s \o u)[i] \in FramesOf(s) \cup FramesOf(u)
    BY <1>1 DEF FramesOf
  <2>1. CASE i <= Len(s)
    BY <1>1, <1>2, <2>1 DEF FramesOf
  <2>2. CASE i > Len(s)
    <3>1. i - Len(s) \in 1..Len(u)
      BY <1>1, <2>2
    <3>2. (s \o u)[i] = u[i - Len(s)]
      BY <1>1, <1>2, <2>2
    <3>3. QED
      BY <1>1, <3>1, <3>2 DEF FramesOf
  <2>3. QED
    BY <1>1, <2>1, <2>2
<1>4. FramesOf(s) \subseteq FramesOf(s \o u)
  <2> SUFFICES ASSUME NEW i \in 1..Len(s) PROVE s[i] \in FramesOf(s \o u)
    BY <1>1 DEF FramesOf
  <2>1. i \in 1..(Len(s) + Len(u)) /\ (s \o u)[i] = s[i]
    BY <1>1, <1>2
  <2>2. QED
    BY <1>1, <2>1 DEF FramesOf
<1>5. FramesOf(u) \subseteq FramesOf(s \o u)
  <2> SUFFICES ASSUME NEW i \in 1..Len(u) PROVE u[i] \in FramesOf(s \o u)
    BY <1>1 DEF FramesOf
  <2>1. i + Len(s) \in 1..(Len(s) + Len(u)) /\ (s \o u)[i + Len(s)] = u[i]
    BY <1>1, <1>2
  <2>2. QED
    BY <1>1, <2>1 DEF FramesOf
<1>6. QED
  BY <1>3, <1>4, <1>5

-----------------------------------------------------------------------------
\* The invariant.

Timestamped == [id : Ids, at : Word]

BusTypes == transport \in Seq(Timestamped) /\ received \in Seq(Timestamped)

RunTypes ==
  /\ duration \in Word /\ paused \in BOOLEAN
  /\ runState \in {"running", "paused", "completed"}

Scheduled == {f \in [id : Enabled, at : 0..now] : f.at % step = 0 /\ OnGrid(f.id, f.at)}

\* What has been published is what the grid says, in bus order.
BusInv == FramesOf(Bus) = Scheduled /\ InBusOrder(Bus)

NetworkInv == ScheduleTypes /\ RunTypes /\ BusTypes /\ DueInv /\ BusInv

\* Publishing at t = 0: Init and Reset.
LEMMA FirstPublication ==
  ASSUME ScheduleTypes
  PROVE  /\ Advanced(Unscheduled, 0) = [id \in Enabled |-> NextDue(period[id], 0)]
         /\ Advanced(Unscheduled, 0) \in [Enabled -> Word]
         /\ Frames(Unscheduled, 0) \in Seq(Timestamped)
         /\ FramesOf(Frames(Unscheduled, 0)) = [id : Enabled, at : {0}]
         /\ InBusOrder(Frames(Unscheduled, 0))
<1>1. \A id \in Enabled : period[id] \in 1..MaxWord
  BY NetworkAssumption DEF ScheduleTypes
<1>2. DueAt(Unscheduled, 0) = Enabled
  BY DEF DueAt, Unscheduled
<1>3. 0 \in Word
  BY NetworkAssumption DEF Word
<1>4. \A id \in Enabled : AdvanceDue(Unscheduled[id], period[id], 0) = NextDue(period[id], 0)
  BY <1>1, FirstDue DEF Unscheduled
<1>5. Advanced(Unscheduled, 0) = [id \in Enabled |-> NextDue(period[id], 0)]
  BY <1>2, <1>4 DEF Advanced
<1>6. \A id \in Enabled : NextDue(period[id], 0) \in Word
  BY <1>1, <1>3, NextDueAhead
<1>7. /\ Frames(Unscheduled, 0) \in Seq([id : Enabled, at : {0}])
      /\ FramesOf(Frames(Unscheduled, 0)) = [id : Enabled, at : {0}]
      /\ InBusOrder(Frames(Unscheduled, 0))
  BY <1>2, FramesAre
<1>8. [id : Enabled, at : {0}] \subseteq Timestamped
  BY <1>3 DEF ScheduleTypes, Timestamped
<1>9. Frames(Unscheduled, 0) \in Seq(Timestamped)
  BY <1>7, <1>8, SequenceOfMore, Zenon
<1>10. QED
  BY <1>5, <1>6, <1>7, <1>9

LEMMA ScheduledAtZero ==
  ASSUME ScheduleTypes, now = 0
  PROVE  Scheduled = [id : Enabled, at : {0}]
<1>1. step \in Nat \ {0} /\ 0 % step = 0
  BY NetworkAssumption DEF ScheduleTypes
<1>2. 0..0 = {0}
  OBVIOUS
<1>3. [id : Enabled, at : 0..now] = [id : Enabled, at : {0}]
  BY <1>2
<1>4. \A f \in [id : Enabled, at : {0}] : f.at % step = 0 /\ OnGrid(f.id, f.at)
  BY <1>1 DEF OnGrid
<1>5. QED
  BY <1>3, <1>4 DEF Scheduled

LEMMA InitNetwork == Init => NetworkInv
<1> SUFFICES ASSUME Init PROVE NetworkInv
  OBVIOUS
<1>1. ScheduleTypes
  <2>1. period \in [Enabled -> Periods] /\ Enabled \subseteq Ids
    BY NetworkAssumption DEF Init, Enabled
  <2>2. step \in 1..MaxWord /\ now = 0 /\ now \in Word
    BY NetworkAssumption DEF Init, Word
  <2>3. now % step = 0
    BY <2>2, NetworkAssumption
  <2>4. \A id \in Enabled : period[id] \in 1..MaxWord
    BY <2>1, NetworkAssumption
  <2>5. \A id \in Enabled : AdvanceDue(0, period[id], 0) = NextDue(period[id], 0)
    BY <2>4, FirstDue
  <2>6. \A id \in Enabled : NextDue(period[id], 0) \in Word
    BY <2>2, <2>4, NextDueAhead
  <2>7. due = [id \in Enabled |-> AdvanceDue(0, period[id], 0)]
    BY DEF Init, Advanced, Unscheduled, DueAt
  <2>8. due \in [Enabled -> Word]
    BY <2>5, <2>6, <2>7
  <2>9. QED
    BY <2>1, <2>2, <2>3, <2>8 DEF ScheduleTypes
<1>2. now = 0 /\ received = <<>> /\ transport = Frames(Unscheduled, 0)
  BY DEF Init
<1>3. RunTypes
  <2>1. duration \in 1..MaxWord
    BY Zenon DEF Init
  <2>2. duration \in Word
    BY <2>1, NetworkAssumption DEF Word
  <2>3. QED
    BY <2>2 DEF Init, RunTypes
<1>4. BusTypes
  BY <1>1, <1>2, FirstPublication DEF BusTypes
<1>5. DueInv
  BY <1>1, FirstPublication DEF DueInv, Init
<1>6. Bus = transport
  BY <1>2, <1>4 DEF Bus, BusTypes
<1>7. BusInv
  BY <1>1, <1>2, <1>6, FirstPublication, ScheduledAtZero DEF BusInv
<1>8. QED
  BY <1>1, <1>3, <1>4, <1>5, <1>7 DEF NetworkInv

\* One tick publishes the multiples that lie in its step and nothing else.
LEMMA TickKeeps == NetworkInv /\ Tick => NetworkInv'
<1> SUFFICES ASSUME NetworkInv, Tick PROVE NetworkInv'
  OBVIOUS
<1> USE DEF NetworkInv
<1>1. PICK t : t = now + step
  OBVIOUS
<1>2. /\ now' = t /\ due' = Advanced(due, t) /\ transport' = transport \o Frames(due, t)
      /\ period' = period /\ step' = step /\ duration' = duration
      /\ paused' = paused /\ received' = received
      /\ runState' \in {"running", "paused", "completed"}
      /\ step <= MaxWord - now
  BY <1>1 DEF Tick, configuration
<1>3. /\ step \in 1..MaxWord /\ now \in Word /\ MaxWord \in Nat
      /\ step \in Nat \ {0} /\ now \in Nat /\ now % step = 0
  BY NetworkAssumption DEF ScheduleTypes, Word
<1>4. t \in Word /\ now < t /\ t \in Nat /\ t # 0
  BY <1>1, <1>2, <1>3 DEF Word
<1>5. t % step = 0
  BY <1>1, <1>3, OneMultiplePerStep
<1>6. \A id \in Enabled : period[id] \in 1..MaxWord
  BY NetworkAssumption DEF ScheduleTypes
<1>7. ASSUME NEW id \in Enabled
      PROVE  /\ Advanced(due, t)[id] = NextDue(period[id], t)
             /\ id \in DueAt(due, t) <=> (t = MaxWord \/ t \div period[id] # now \div period[id])
  <2>1. due[id] = NextDue(period[id], now)
    BY DEF DueInv
  <2>2. id \in DueAt(due, t) <=> t >= due[id]
    BY DEF DueAt
  <2>3. Advanced(due, t)[id] =
          IF t >= due[id] THEN AdvanceDue(due[id], period[id], t) ELSE due[id]
    BY <2>2 DEF Advanced
  <2>4. QED
    BY <1>3, <1>4, <1>6, <2>1, <2>2, <2>3, TickAdvances
<1>8. Advanced(due, t) \in [Enabled -> Word]
  <2>1. \A id \in Enabled : NextDue(period[id], t) \in Word
    BY <1>4, <1>6, NextDueAhead
  <2>2. \A id \in Enabled : Advanced(due, t)[id] \in Word
    BY <1>7, <2>1
  <2>3. DOMAIN Advanced(due, t) = Enabled
    BY DEF Advanced
  <2>4. Advanced(due, t) = [id \in Enabled |-> Advanced(due, t)[id]]
    BY <2>3 DEF Advanced
  <2>5. QED
    BY <2>2, <2>4
<1>9. Enabled' = Enabled
  BY <1>2 DEF Enabled
<1>10. ScheduleTypes'
  BY <1>2, <1>4, <1>5, <1>8, <1>9 DEF ScheduleTypes
<1>11. RunTypes'
  BY <1>2 DEF RunTypes
<1>12. DueInv'
  BY <1>2, <1>7, <1>9 DEF DueInv
<1> DEFINE new == [id : DueAt(due, t), at : {t}]
<1>13. DueAt(due, t) \subseteq Enabled /\ Enabled \subseteq Ids
  BY DEF DueAt, ScheduleTypes
<1>14. /\ Frames(due, t) \in Seq(Timestamped)
       /\ FramesOf(Frames(due, t)) = new
       /\ InBusOrder(Frames(due, t))
  <2>1. /\ Frames(due, t) \in Seq(new) /\ FramesOf(Frames(due, t)) = new
        /\ InBusOrder(Frames(due, t))
    BY FramesAre
  <2>2. new \subseteq Timestamped
    BY <1>4, <1>13 DEF Timestamped
  <2>3. QED
    BY <2>1, <2>2, SequenceOfMore, Zenon
<1>15. BusTypes'
  BY <1>2, <1>14 DEF BusTypes
<1>16. Bus' = Bus \o Frames(due, t)
  BY <1>2, <1>14, SMTT(20) DEF Bus, BusTypes
<1>17. FramesOf(Bus') = Scheduled \cup new
  <2>1. Bus \in Seq(Timestamped)
    BY DEF Bus, BusTypes
  <2>2. \A s, u \in Seq(Timestamped) : FramesOf(s \o u) = FramesOf(s) \cup FramesOf(u)
    BY FramesOfConcat
  <2>3. FramesOf(Bus \o Frames(due, t)) = FramesOf(Bus) \cup FramesOf(Frames(due, t))
    BY <1>14, <2>1, <2>2
  <2>4. QED
    BY <1>14, <1>16, <2>3 DEF BusInv
<1> HIDE DEF new
<1>18. \A id, at : OnGrid(id, at)' = OnGrid(id, at)
  BY <1>2 DEF OnGrid
<1>19. Scheduled' = {f \in [id : Enabled, at : 0..t] : f.at % step = 0 /\ OnGrid(f.id, f.at)}
  BY <1>2, <1>9, <1>18 DEF Scheduled
<1>20. \A id \in Enabled : OnGrid(id, t) <=> id \in DueAt(due, t)
  <2>1. t - step = now
    BY <1>1, <1>3
  <2>2. QED
    BY <1>4, <1>7, <2>1 DEF OnGrid
<1>21. Scheduled' = Scheduled \cup new
  <2>1. Scheduled \subseteq Scheduled'
    <3>1. 0..now \subseteq 0..t
      BY <1>3, <1>4
    <3>2. QED
      BY <1>19, <3>1 DEF Scheduled
  <2>2. new \subseteq Scheduled'
    <3>1. t \in 0..t
      BY <1>4
    <3>2. QED
      BY <1>5, <1>13, <1>19, <1>20, <3>1 DEF new
  <2>3. ASSUME NEW f \in Scheduled' PROVE f \in Scheduled \cup new
    <3>1. /\ f \in [id : Enabled, at : 0..t] /\ f.at % step = 0 /\ OnGrid(f.id, f.at)
          /\ f.id \in Enabled /\ f.at \in 0..t
      BY <1>19, <2>3
    <3>2. CASE f.at <= now
      <4>1. f.at \in 0..now
        BY <1>3, <1>4, <3>1, <3>2
      <4>2. f \in [id : Enabled, at : 0..now]
        BY <3>1, <4>1
      <4>3. QED
        BY <3>1, <4>2 DEF Scheduled
    <3>3. CASE f.at > now
      <4>1. f.at \in Nat /\ f.at <= now + step
        BY <1>1, <1>4, <3>1
      <4>2. f.at = t
        BY <1>1, <1>3, <3>1, <3>3, <4>1, OneMultiplePerStep
      <4>3. f.id \in DueAt(due, t)
        BY <1>20, <3>1, <4>2
      <4>4. QED
        BY <3>1, <4>2, <4>3 DEF new
    <3>4. QED
      BY <1>3, <3>1, <3>2, <3>3
  <2>4. QED
    BY <2>1, <2>2, <2>3
<1>22. InBusOrder(Bus')
  <2>1. Bus \in Seq(Timestamped) /\ InBusOrder(Bus)
    BY DEF Bus, BusTypes, BusInv
  <2>2. ASSUME NEW f \in FramesOf(Bus), NEW g \in FramesOf(Frames(due, t))
        PROVE  f.at < g.at
    <3>1. f.at \in 0..now
      BY <2>2 DEF BusInv, Scheduled
    <3>2. g.at = t
      BY <1>14, <2>2 DEF new
    <3>3. QED
      BY <1>3, <1>4, <3>1, <3>2
  <2>3. QED
    BY <1>14, <1>16, <2>1, <2>2, OrderOfConcat
<1>23. BusInv'
  BY <1>17, <1>21, <1>22 DEF BusInv, FramesOf, InBusOrder
<1>24. QED
  BY <1>10, <1>11, <1>12, <1>15, <1>23

\* Reset publishes the initial state again, with every other timestamp gone.
LEMMA ResetKeeps == NetworkInv /\ Reset => NetworkInv'
<1> SUFFICES ASSUME NetworkInv, Reset PROVE NetworkInv'
  OBVIOUS
<1> USE DEF NetworkInv
<1>1. /\ now' = 0 /\ due' = Advanced(Unscheduled, 0)
      /\ transport' = Frames(Unscheduled, 0) /\ received' = <<>>
      /\ period' = period /\ step' = step /\ duration' = duration
      /\ paused' = FALSE /\ runState' = "running"
  BY DEF Reset, configuration
<1>2. Enabled' = Enabled
  BY <1>1 DEF Enabled
<1>3. 0 \in Word /\ step \in Nat \ {0} /\ 0 % step = 0
  BY NetworkAssumption DEF ScheduleTypes, Word
<1>4. /\ Advanced(Unscheduled, 0) = [id \in Enabled |-> NextDue(period[id], 0)]
      /\ Advanced(Unscheduled, 0) \in [Enabled -> Word]
      /\ Frames(Unscheduled, 0) \in Seq(Timestamped)
      /\ FramesOf(Frames(Unscheduled, 0)) = [id : Enabled, at : {0}]
      /\ InBusOrder(Frames(Unscheduled, 0))
  BY FirstPublication
<1>5. ScheduleTypes'
  BY <1>1, <1>2, <1>3, <1>4 DEF ScheduleTypes
<1>6. RunTypes' /\ BusTypes'
  <2>1. RunTypes'
    BY <1>1 DEF RunTypes
  <2>2. <<>> \in Seq(Timestamped)
    OBVIOUS
  <2>3. BusTypes'
    BY <1>1, <1>4, <2>2, Zenon DEF BusTypes
  <2>4. QED
    BY <2>1, <2>3
<1>7. DueInv'
  BY <1>1, <1>2, <1>4 DEF DueInv
<1>8. Bus' = Frames(Unscheduled, 0)
  BY <1>1, <1>4 DEF Bus
<1>9. Scheduled' = [id : Enabled, at : {0}]
  <2>1. Scheduled' = {f \in [id : Enabled, at : 0..0] : f.at % step = 0 /\ OnGrid(f.id, f.at)'}
    BY <1>1, <1>2 DEF Scheduled
  <2>2. 0..0 = {0}
    OBVIOUS
  <2>3. \A id : OnGrid(id, 0)'
    BY DEF OnGrid
  <2>4. \A f \in [id : Enabled, at : {0}] : f.at % step = 0 /\ OnGrid(f.id, f.at)'
    BY <1>3, <2>3
  <2>5. QED
    BY <2>1, <2>2, <2>4
<1>10. BusInv'
  BY <1>4, <1>8, <1>9 DEF BusInv, FramesOf, InBusOrder
<1>11. QED
  BY <1>5, <1>6, <1>7, <1>10

\* Taking a frame moves it from the queue to what has been received.
LEMMA ReceiveKeeps == NetworkInv /\ Receive => NetworkInv'
<1> SUFFICES ASSUME NetworkInv, Receive PROVE NetworkInv'
  OBVIOUS
<1> USE DEF NetworkInv
<1>1. /\ transport # <<>>
      /\ received' = Append(received, Head(transport)) /\ transport' = Tail(transport)
      /\ period' = period /\ step' = step /\ duration' = duration
      /\ now' = now /\ paused' = paused /\ runState' = runState /\ due' = due
  BY DEF Receive, configuration
<1>2. ScheduleTypes' /\ RunTypes' /\ DueInv'
  BY <1>1 DEF ScheduleTypes, RunTypes, DueInv, Enabled
<1>3. BusTypes'
  BY <1>1 DEF BusTypes
<1>4. Bus' = Bus
  <2>1. \A T : \A s, u \in Seq(T) : u # <<>> => Append(s, Head(u)) \o Tail(u) = s \o u
    OBVIOUS
  <2>2. QED
    BY <1>1, <2>1 DEF Bus, BusTypes
<1>5. BusInv'
  <2>1. Scheduled' = Scheduled
    BY <1>1 DEF Scheduled, Enabled, OnGrid
  <2>2. QED
    BY <1>4, <2>1 DEF BusInv, FramesOf, InBusOrder
<1>6. QED
  BY <1>2, <1>3, <1>5

\* Pausing and resuming move neither the clock nor the schedule.
LEMMA PauseResumeKeep ==
  NetworkInv /\ (Pause \/ Resume \/ UNCHANGED vars) => NetworkInv'
<1> SUFFICES ASSUME NetworkInv, Pause \/ Resume \/ UNCHANGED vars PROVE NetworkInv'
  OBVIOUS
<1> USE DEF NetworkInv
<1>1. /\ received' = received /\ transport' = transport
      /\ period' = period /\ step' = step /\ duration' = duration
      /\ now' = now /\ due' = due
  BY DEF Pause, Resume, vars, configuration
<1>2. RunTypes'
  BY <1>1 DEF RunTypes, Pause, Resume, vars
<1>3. ScheduleTypes' /\ BusTypes' /\ DueInv'
  BY <1>1 DEF ScheduleTypes, BusTypes, DueInv, Enabled
<1>4. BusInv'
  BY <1>1 DEF BusInv, Bus, FramesOf, InBusOrder, Scheduled, Enabled, OnGrid
<1>5. QED
  BY <1>2, <1>3, <1>4

-----------------------------------------------------------------------------
\* The results.

\* The incremental schedules of the DME and the DSC stay at the next multiple
\* of each period, whatever ticks, pauses and resets happen.
THEOREM NetworkInvariant == Spec => []NetworkInv
<1>1. Init => NetworkInv
  BY InitNetwork
<1>2. NetworkInv /\ [Next]_vars => NetworkInv'
  BY TickKeeps, ResetKeeps, ReceiveKeeps, PauseResumeKeep DEF Next
<1>3. QED
  BY <1>1, <1>2, PTL DEF Spec

\* advance_due_timestamp always names a time after the clock, at most a period
\* away, so that observed - next_due never wraps around.
THEOREM DueAheadHolds == Spec => []DueAhead
<1>1. NetworkInv => DueAhead
  <2> SUFFICES ASSUME NetworkInv, NEW id \in Enabled
               PROVE /\ due[id] > now \/ due[id] = MaxWord
                     /\ due[id] <= now + period[id]
    BY DEF DueAhead
  <2>1. period[id] \in 1..MaxWord /\ now \in Word /\ due[id] = NextDue(period[id], now)
    BY NetworkAssumption DEF NetworkInv, ScheduleTypes, DueInv
  <2>2. QED
    BY <2>1, NextDueAhead
<1>2. QED
  BY <1>1, NetworkInvariant, PTL

\* What the simulated bus carries since the last reset is what the multiples
\* of the periods say, each frame once and in bus order, for any step and any
\* periods: the bus as a sequence, not only as a set of frames, is determined.
THEOREM OnScheduleHolds == Spec => []OnSchedule
<1>1. NetworkInv => OnSchedule
  BY DEF NetworkInv, BusInv, OnSchedule, FramesOf, InBusOrder, Scheduled
<1>2. QED
  BY <1>1, NetworkInvariant, PTL

-----------------------------------------------------------------------------
\* The link.

\* The position the client's buffer starts at.
BufferStart == IF client = "header" THEN 0 ELSE HeaderSize + RecordSize * Len(starts)

\* Every record starts where the server started it.
Aligned == \A i \in 1 .. Len(starts) : starts[i] = HeaderSize + RecordSize * (i - 1)

\* The client's position in the stream; before the header is complete nothing
\* has been yielded.
ClientPosition ==
  /\ client = "header" => starts = <<>>
  /\ client \in Reading => read = BufferStart + data /\ data <= Wanted
  /\ starts # <<>> => HeaderSize + RecordSize * Len(starts) <= read

\* A finished server has written everything.
ServerPosition == server = "done" => written = Target /\ produced = MaxRecords

\* How the client may have ended.
EndsJustified == CleanEndIsWhole /\ TruncationIsReal

\* The inductive invariant.
StreamInv ==
  /\ LinkTypeOK /\ Aligned /\ ClientPosition /\ ServerPosition /\ EndsJustified

-----------------------------------------------------------------------------
\* The initial state satisfies the invariant.
LEMMA StreamInvInit == LinkInit => StreamInv
  BY RecordsAssumption
  DEF LinkInit, StreamInv, LinkTypeOK, Aligned, ClientPosition, ServerPosition, EndsJustified,
      CleanEndIsWhole, TruncationIsReal, BufferStart, Wanted, Target, HeaderSize, RecordSize,
      Reading, ClientEnds

\* Every step of the server preserves the invariant.
LEMMA ServerStep ==
  ASSUME StreamInv,
         (\E n \in 1 .. RecordSize : Write(n)) \/ Send \/ Finish \/ Fail
  PROVE  StreamInv'
<1> USE RecordsAssumption
    DEF StreamInv, LinkTypeOK, Aligned, ClientPosition, ServerPosition, EndsJustified,
        CleanEndIsWhole, TruncationIsReal, BufferStart, Wanted, Target, HeaderSize, RecordSize,
        Reading, ClientEnds
<1>1. CASE \E n \in 1 .. RecordSize : Write(n)
  BY <1>1 DEF Write
<1>2. CASE Send
  BY <1>2 DEF Send
<1>3. CASE Finish
  BY <1>3 DEF Finish
<1>4. CASE Fail
  BY <1>4 DEF Fail
<1> QED
  BY <1>1, <1>2, <1>3, <1>4

\* A chunk of bytes moves the buffer's end and not its start.
LEMMA RecvStep ==
  ASSUME StreamInv, NEW n \in 1 .. RecordSize, Recv(n)
  PROVE  StreamInv'
<1>1. LinkTypeOK'
  BY DEF Recv, StreamInv, LinkTypeOK, Wanted, Target, HeaderSize, RecordSize, Reading, ClientEnds
<1>2. Aligned' /\ ServerPosition' /\ EndsJustified'
  BY DEF Recv, StreamInv, Aligned, ServerPosition, EndsJustified, CleanEndIsWhole,
         TruncationIsReal, Target, Reading
<1>3. ClientPosition'
  <2>1. CASE client = "header"
    BY <2>1 DEF Recv, StreamInv, LinkTypeOK, ClientPosition, BufferStart, Wanted, HeaderSize,
         RecordSize, Reading
  <2>2. CASE client = "record"
    BY <2>2 DEF Recv, StreamInv, LinkTypeOK, ClientPosition, BufferStart, Wanted, HeaderSize,
         RecordSize, Reading
  <2> QED
    BY <2>1, <2>2 DEF Recv, Reading
<1> QED
  BY <1>1, <1>2, <1>3 DEF StreamInv

\* A complete buffer is the next record.
LEMMA DecodeStep ==
  ASSUME StreamInv, Decode
  PROVE  StreamInv'
<1> USE DEF Reading
<1>1. CASE client = "header"
  BY <1>1 DEF Decode, StreamInv, LinkTypeOK, Aligned, ClientPosition, ServerPosition, EndsJustified,
         CleanEndIsWhole, TruncationIsReal, BufferStart, Wanted, Target, HeaderSize, RecordSize,
         ClientEnds
<1>2. CASE client = "record"
  <2>1. /\ read - data = HeaderSize + RecordSize * Len(starts)
        /\ read - data \in Nat /\ data = RecordSize
    BY <1>2 DEF Decode, StreamInv, LinkTypeOK, ClientPosition, BufferStart, Wanted, HeaderSize,
         RecordSize
  <2>2. /\ starts' = Append(starts, read - data)
        /\ starts' \in Seq(Nat) /\ Len(starts') = Len(starts) + 1 /\ starts' # <<>>
        /\ \A i \in 1 .. Len(starts) : starts'[i] = starts[i]
        /\ starts'[Len(starts) + 1] = read - data
    <3>1. starts' = Append(starts, read - data) /\ starts \in Seq(Nat)
      BY <1>2, <2>1 DEF Decode, StreamInv, LinkTypeOK
    <3>2. PICK start \in Nat : start = read - data
      BY <2>1
    <3>3. QED
      BY <3>1, <3>2, AppendProperties
  <2>3. Aligned'
    <3> SUFFICES ASSUME NEW i \in 1 .. Len(starts')
                 PROVE  starts'[i] = HeaderSize + RecordSize * (i - 1)
      BY DEF Aligned
    <3>1. Len(starts) \in Nat
      BY DEF StreamInv, LinkTypeOK
    <3>2. CASE i \in 1 .. Len(starts)
      BY <2>2, <3>2 DEF StreamInv, Aligned
    <3>3. CASE i = Len(starts) + 1
      BY <2>1, <2>2, <3>1, <3>3 DEF HeaderSize, RecordSize
    <3> QED
      BY <2>2, <3>1, <3>2, <3>3
  <2>4. LinkTypeOK'
    BY <1>2, <2>2 DEF Decode, StreamInv, LinkTypeOK, Target, HeaderSize, RecordSize
  <2>5. ClientPosition'
    BY <1>2, <2>1, <2>2 DEF Decode, StreamInv, LinkTypeOK, ClientPosition, BufferStart, Wanted,
         HeaderSize, RecordSize
  <2>6. ServerPosition' /\ EndsJustified'
    BY <1>2 DEF Decode, StreamInv, ServerPosition, EndsJustified, CleanEndIsWhole,
         TruncationIsReal, Target
  <2> QED
    BY <2>3, <2>4, <2>5, <2>6 DEF StreamInv
<1> QED
  BY <1>1, <1>2 DEF Decode

\* The client ends as it should.
LEMMA EndStep ==
  ASSUME StreamInv, EndOfFile \/ ConnectionError \/ Close
  PROVE  StreamInv'
<1> USE RecordsAssumption
    DEF StreamInv, LinkTypeOK, Aligned, ClientPosition, ServerPosition, EndsJustified,
        CleanEndIsWhole, TruncationIsReal, BufferStart, Wanted, Target, HeaderSize, RecordSize,
        Reading, ClientEnds
<1>1. CASE EndOfFile
  BY <1>1 DEF EndOfFile
<1>2. CASE ConnectionError
  BY <1>2 DEF ConnectionError
<1>3. CASE Close
  BY <1>3 DEF Close
<1> QED
  BY <1>1, <1>2, <1>3

\* The invariant holds in every reachable state.
LEMMA StreamInvariant == LinkSpec => []StreamInv
<1>1. StreamInv /\ [LinkNext]_linkVars => StreamInv'
  <2> SUFFICES ASSUME StreamInv, [LinkNext]_linkVars PROVE StreamInv'
    OBVIOUS
  <2>1. CASE UNCHANGED linkVars
    BY <2>1 DEF linkVars, StreamInv, LinkTypeOK, Aligned, ClientPosition, ServerPosition, EndsJustified,
         CleanEndIsWhole, TruncationIsReal, BufferStart, Wanted, Target
  <2>2. CASE LinkNext
    BY <2>2, ServerStep, RecvStep, DecodeStep, EndStep DEF LinkNext
  <2> QED
    BY <2>1, <2>2
<1> QED
  BY <1>1, StreamInvInit, PTL DEF LinkSpec

\* Type correctness: the buffer of _read_exact never holds more than a record
\* and nothing is read before it was written.
THEOREM GatewayTypes == LinkSpec => []LinkTypeOK
<1>1. StreamInv => LinkTypeOK
  BY DEF StreamInv
<1> QED
  BY <1>1, StreamInvariant, PTL

\* Whatever send and recv move at a time, the frames yielded by frames() are
\* the first frames of the run, in order and undamaged.
THEOREM PrefixYielded == LinkSpec => []FramesArePrefix
<1>1. StreamInv => FramesArePrefix
  BY DEF StreamInv, LinkTypeOK, Aligned, ClientPosition, FramesArePrefix, HeaderSize, RecordSize
<1> QED
  BY <1>1, StreamInvariant, PTL

\* A clean end of frames() means that nothing that was sent is missing.
THEOREM CleanEnd == LinkSpec => []CleanEndIsWhole
<1>1. StreamInv => CleanEndIsWhole
  BY DEF StreamInv, EndsJustified
<1> QED
  BY <1>1, StreamInvariant, PTL

\* A truncation is reported only of a run that failed.
THEOREM TruncationMeansFailure == LinkSpec => []TruncationIsReal
<1>1. StreamInv => TruncationIsReal
  BY DEF StreamInv, EndsJustified
<1> QED
  BY <1>1, StreamInvariant, PTL
=============================================================================
