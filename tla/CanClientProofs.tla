---------------------------- MODULE CanClientProofs ----------------------------
(***************************************************************************)
(* The raw CAN page, for any buffer and any number of frames.              *)
(*                                                                         *)
(* The argument: the waiting frames are consecutive and end where the      *)
(* socket continues (Taken); they start behind the last one shown, or the  *)
(* queue has overflowed and is as long as the buffer.  Either way applying *)
(* them leaves the newest window (AppliedShows).  What the socket carries  *)
(* says how the connection can still end (ConnectionInv).                  *)
(***************************************************************************)
EXTENDS CanClient, FiniteSetTheorems, WellFoundedInduction, TLAPS

-----------------------------------------------------------------------------
\* Sequences.

LEMMA LeastIndex ==
  ASSUME NEW T \in SUBSET Nat, T # {}
  PROVE  \E m \in T : \A k \in T : m <= k
<1>1. PICK m \in T : \A k \in T : ~ (<<k, m>> \in OpToRel(<, Nat))
  BY WFMin, NatLessThanWellFounded
<1>2. \A k \in T : ~(k < m)
  BY <1>1 DEF OpToRel
<1>3. QED
  BY <1>2

LEMMA MaxOfTwo ==
  ASSUME NEW a \in Int, NEW b \in Int
  PROVE  Max({a, b}) = IF b >= a THEN b ELSE a
<1> DEFINE m == IF b >= a THEN b ELSE a
           S == {a, b}
<1>1. m \in S /\ S \in SUBSET Int /\ \A y \in S : m >= y
  OBVIOUS
<1> HIDE DEF m, S
<1>2. Max(S) \in S /\ \A y \in S : Max(S) >= y
  BY <1>1, Zenon DEF Max
<1>3. Max(S) \in Int /\ m \in Int /\ Max(S) >= m /\ m >= Max(S)
  BY <1>1, <1>2
<1>4. Max(S) = m
  BY <1>3
<1>5. QED
  BY <1>4 DEF m, S

LEMMA SameEntries ==
  ASSUME NEW A, NEW s \in Seq(A), NEW u \in Seq(A), Len(s) = Len(u),
         \A i \in 1 .. Len(s) : s[i] = u[i]
  PROVE  s = u
OBVIOUS

LEMMA AppendFacts ==
  ASSUME NEW A, NEW s \in Seq(A), NEW e \in A
  PROVE  /\ Append(s, e) \in Seq(A) /\ Len(Append(s, e)) = Len(s) + 1
         /\ \A i \in 1 .. Len(s) : Append(s, e)[i] = s[i]
         /\ Append(s, e)[Len(s) + 1] = e
OBVIOUS

LEMMA AppendTwoFacts ==
  ASSUME NEW A, NEW s \in Seq(A), NEW e \in A, NEW c \in A
  PROVE  /\ s \o <<e, c>> \in Seq(A) /\ Len(s \o <<e, c>>) = Len(s) + 2
         /\ \A i \in 1 .. Len(s) : (s \o <<e, c>>)[i] = s[i]
         /\ (s \o <<e, c>>)[Len(s) + 1] = e /\ (s \o <<e, c>>)[Len(s) + 2] = c
OBVIOUS

LEMMA TailFacts ==
  ASSUME NEW A, NEW s \in Seq(A), s # <<>>
  PROVE  /\ Tail(s) \in Seq(A) /\ Len(Tail(s)) = Len(s) - 1 /\ Len(s) \in Nat \ {0}
         /\ \A i \in 1 .. Len(s) - 1 : Tail(s)[i] = s[i + 1]
         /\ Head(s) = s[1] /\ s[1] \in A
OBVIOUS

LEMMA PartFacts ==
  ASSUME NEW A, NEW s \in Seq(A), NEW m \in 1 .. Len(s) + 1, NEW n \in m - 1 .. Len(s)
  PROVE  /\ SubSeq(s, m, n) \in Seq(A) /\ Len(SubSeq(s, m, n)) = n - m + 1
         /\ \A i \in 1 .. n - m + 1 : SubSeq(s, m, n)[i] = s[m + i - 1]
<1>1. \A j \in m .. n : s[j] \in A
  OBVIOUS
<1>2. QED
  BY <1>1

\* The last entries of a sequence, counted from its end.
LEMMA NewestFacts ==
  ASSUME NEW A, NEW s \in Seq(A), NEW n \in Nat \ {0}
  PROVE  /\ Newest(s, n) \in Seq(A)
         /\ Len(Newest(s, n)) = IF Len(s) <= n THEN Len(s) ELSE n
         /\ \A j \in 0 .. Len(Newest(s, n)) - 1 :
              Newest(s, n)[Len(Newest(s, n)) - j] = s[Len(s) - j]
<1>1. PICK l \in Nat : l = Len(s)
  OBVIOUS
<1>2. Max({1, l - n + 1}) = IF l - n + 1 >= 1 THEN l - n + 1 ELSE 1
  BY MaxOfTwo
<1>3. PICK m \in 1 .. l + 1 : m = Max({1, l - n + 1})
  BY <1>2
<1>4. PICK w : w = SubSeq(s, m, l)
  OBVIOUS
<1>5. Newest(s, n) = w
  BY <1>1, <1>3, <1>4 DEF Newest
<1>6. m \in 1 .. Len(s) + 1 /\ l \in m - 1 .. Len(s)
  BY <1>1
<1>7. /\ w \in Seq(A) /\ Len(w) = l - m + 1
      /\ \A i \in 1 .. l - m + 1 : w[i] = s[m + i - 1]
  BY <1>1, <1>4, <1>6, PartFacts
<1>8. l - m + 1 = IF l <= n THEN l ELSE n
  BY <1>2, <1>3
<1>9. ASSUME NEW j \in 0 .. (l - m + 1) - 1
      PROVE  w[l - m + 1 - j] = s[l - j]
  <2>1. l - m + 1 - j \in 1 .. l - m + 1 /\ m + (l - m + 1 - j) - 1 = l - j
    BY <1>3
  <2>2. QED
    BY <1>7, <2>1
<1>10. QED
  BY <1>1, <1>5, <1>7, <1>8, <1>9

LEMMA AppendBoundedFacts ==
  ASSUME NEW s \in Seq(Int), Len(s) <= Capacity, NEW k \in Int
  PROVE  /\ AppendBounded(s, k) \in Seq(Int)
         /\ Len(AppendBounded(s, k)) = IF Len(s) < Capacity THEN Len(s) + 1 ELSE Capacity
         /\ AppendBounded(s, k)[Len(AppendBounded(s, k))] = k
         /\ \A j \in 1 .. Len(AppendBounded(s, k)) - 1 :
              AppendBounded(s, k)[Len(AppendBounded(s, k)) - j] = s[Len(s) - (j - 1)]
<1>1. PICK l \in Nat : l = Len(s)
  OBVIOUS
<1>2. PICK a : a = Append(s, k)
  OBVIOUS
<1>3. /\ a \in Seq(Int) /\ Len(a) = l + 1 /\ a[l + 1] = k
      /\ \A i \in 1 .. l : a[i] = s[i]
  BY <1>1, <1>2, AppendFacts
<1>4. Capacity \in Nat \ {0}
  BY CanAssumption
<1>5. PICK b : b = Newest(a, Capacity)
  OBVIOUS
<1>6. AppendBounded(s, k) = b
  BY <1>2, <1>5 DEF AppendBounded
<1>7. PICK n \in Nat \ {0} : n = IF l < Capacity THEN l + 1 ELSE Capacity
  BY <1>4
<1>8. n = (IF l + 1 <= Capacity THEN l + 1 ELSE Capacity) /\ n <= l + 1
  BY <1>1, <1>4, <1>7
<1>9. b \in Seq(Int) /\ Len(b) = n /\ \A j \in 0 .. n - 1 : b[n - j] = a[l + 1 - j]
  <2>1. /\ b \in Seq(Int)
        /\ Len(b) = IF Len(a) <= Capacity THEN Len(a) ELSE Capacity
        /\ \A j \in 0 .. Len(b) - 1 : b[Len(b) - j] = a[Len(a) - j]
    BY <1>3, <1>4, <1>5, NewestFacts, ZenonT(30)
  <2>2. Len(b) = n
    BY <1>3, <1>8, <2>1
  <2>3. ASSUME NEW j \in 0 .. n - 1
        PROVE  b[n - j] = a[l + 1 - j]
    <3>1. b[Len(b) - j] = a[Len(a) - j]
      BY <2>1, <2>2
    <3>2. Len(b) - j = n - j /\ Len(a) - j = l + 1 - j
      BY <1>3, <2>2
    <3>3. QED
      BY <3>1, <3>2, Zenon
  <2>4. QED
    BY <2>1, <2>2, <2>3
<1>10. b[n] = k
  <2>1. 0 \in 0 .. n - 1 /\ n - 0 = n /\ l + 1 - 0 = l + 1
    OBVIOUS
  <2>2. QED
    BY <1>3, <1>9, <2>1
<1>11. ASSUME NEW j \in 1 .. n - 1
       PROVE  b[n - j] = s[l - (j - 1)]
  <2>1. j \in 0 .. n - 1 /\ l + 1 - j = l - (j - 1) /\ l + 1 - j \in 1 .. l
    BY <1>8
  <2>2. QED
    BY <1>3, <1>9, <2>1
<1>12. QED
  BY <1>1, <1>6, <1>7, <1>9, <1>10, <1>11

-----------------------------------------------------------------------------
\* The reducer.

\* The frames shown are the newest up to frame q.
IsWindow(c, q) ==
  /\ Len(c) = IF q + 1 <= Capacity THEN q + 1 ELSE Capacity
  /\ \A j \in 0 .. Len(c) - 1 : c[Len(c) - j] = q - j

LEMMA WindowIs ==
  ASSUME NEW c \in Seq(Int), NEW q \in Int, q >= -1, IsWindow(c, q)
  PROVE  c = Newest(FramesBetween(0, q), Capacity)
<1>1. PICK s : s = FramesBetween(0, q)
  OBVIOUS
<1>2. s \in Seq(Int) /\ Len(s) = q + 1 /\ \A i \in 1 .. q + 1 : s[i] = i - 1
  BY <1>1 DEF FramesBetween
<1>3. Capacity \in Nat \ {0}
  BY CanAssumption
<1>4. PICK w : w = Newest(s, Capacity)
  OBVIOUS
<1>5. PICK n \in Nat : n = Len(c)
  OBVIOUS
<1>6. n = (IF q + 1 <= Capacity THEN q + 1 ELSE Capacity) /\ n <= q + 1
      /\ \A j \in 0 .. n - 1 : c[n - j] = q - j
  BY <1>3, <1>5 DEF IsWindow
<1>7. w \in Seq(Int) /\ Len(w) = n /\ \A j \in 0 .. n - 1 : w[n - j] = s[q + 1 - j]
  <2>1. /\ w \in Seq(Int)
        /\ Len(w) = IF Len(s) <= Capacity THEN Len(s) ELSE Capacity
        /\ \A j \in 0 .. Len(w) - 1 : w[Len(w) - j] = s[Len(s) - j]
    BY <1>2, <1>3, <1>4, NewestFacts, Zenon
  <2>2. Len(w) = n
    BY <1>2, <1>6, <2>1
  <2>3. ASSUME NEW j \in 0 .. n - 1
        PROVE  w[n - j] = s[q + 1 - j]
    <3>1. w[Len(w) - j] = s[Len(s) - j]
      BY <2>1, <2>2
    <3>2. Len(w) - j = n - j /\ Len(s) - j = q + 1 - j
      BY <1>2, <2>2
    <3>3. QED
      BY <3>1, <3>2, Zenon
  <2>4. QED
    BY <2>1, <2>2, <2>3
<1>8. ASSUME NEW i \in 1 .. n
      PROVE  c[i] = w[i]
  <2>1. PICK j \in 0 .. n - 1 : j = n - i /\ n - j = i
    OBVIOUS
  <2>2. PICK h \in 1 .. q + 1 : h = q + 1 - j
    BY <1>6
  <2>3. s[h] = q - j
    BY <1>2, <2>2
  <2>4. c[n - j] = q - j /\ w[n - j] = s[h]
    BY <1>6, <1>7, <2>2
  <2>5. QED
    BY <2>1, <2>3, <2>4
<1>9. c = w
  BY <1>5, <1>7, <1>8, SameEntries
<1>10. QED
  BY <1>1, <1>4, <1>9

\* r is what s becomes when the first i waiting frames have been applied; they
\* are consecutive, from first on.
Shows(s, first, i, r) ==
  /\ r.current \in Seq(Int)
  /\ Len(r.current) = IF Len(s.current) + i <= Capacity THEN Len(s.current) + i ELSE Capacity
  /\ \A j \in 0 .. Len(r.current) - 1 :
       r.current[Len(r.current) - j] =
         IF j < i THEN first + (i - 1) - j ELSE s.current[Len(s.current) - (j - i)]
  /\ r.displayed \in Seq(Int) /\ Len(r.displayed) <= Capacity /\ r.warning \in BOOLEAN
  /\ r.last = IF i = 0 THEN s.last ELSE first + (i - 1)
  /\ r.passed = IF i = 0 THEN s.passed
                ELSE IF ~frozen THEN 0
                ELSE IF s.last = None THEN s.passed + i
                ELSE s.passed + (first + (i - 1) - s.last)

\* A state the reducer can be in.
Reducible(s) ==
  /\ s.current \in Seq(Int) /\ Len(s.current) <= Capacity
  /\ s.displayed \in Seq(Int) /\ Len(s.displayed) <= Capacity /\ s.warning \in BOOLEAN
  /\ s.last \in Int /\ s.last >= -1 /\ s.passed \in Int

LEMMA ApplyFrameShows ==
  ASSUME NEW s, Reducible(s), NEW first \in Int, first > s.last, NEW i \in Nat,
         NEW r, Shows(s, first, i, r)
  PROVE  Shows(s, first, i + 1, ApplyFrame(r, first + i))
<1>1. PICK k \in Int : k = first + i
  OBVIOUS
<1>2. PICK x : x = ApplyFrame(r, k)
  OBVIOUS
<1>3. PICK l \in Nat : l = Len(s.current)
  BY DEF Reducible
<1>4. PICK n \in Nat : n = Len(r.current)
  BY DEF Shows
<1>c. Capacity \in Nat \ {0}
  BY CanAssumption
<1>5. n = (IF l + i <= Capacity THEN l + i ELSE Capacity) /\ n <= Capacity /\ l <= Capacity
  BY <1>3, <1>4, <1>c DEF Shows, Reducible
<1>6. r.last \in Int /\ k > r.last
  BY <1>1 DEF Shows, Reducible
<1>7. PICK c : c = AppendBounded(r.current, k)
  OBVIOUS
<1>8. /\ x.current = c
      /\ x.displayed = Display(c, r.displayed)
      /\ x.last = k
      /\ x.passed = IF frozen THEN Passed(r, k) ELSE 0
  BY <1>2, <1>6, <1>7 DEF ApplyFrame
<1>9. PICK m \in Nat \ {0} : m = IF n < Capacity THEN n + 1 ELSE Capacity
  BY <1>c
<1>10. /\ c \in Seq(Int) /\ Len(c) = m /\ c[m] = k
       /\ \A j \in 1 .. m - 1 : c[m - j] = r.current[n - (j - 1)]
  <2>1. r.current \in Seq(Int) /\ Len(r.current) <= Capacity
    BY <1>4, <1>5 DEF Shows
  <2>2. /\ c \in Seq(Int)
        /\ Len(c) = IF Len(r.current) < Capacity THEN Len(r.current) + 1 ELSE Capacity
        /\ c[Len(c)] = k
        /\ \A j \in 1 .. Len(c) - 1 : c[Len(c) - j] = r.current[Len(r.current) - (j - 1)]
    BY <1>7, <2>1, AppendBoundedFacts, Zenon
  <2>3. Len(c) = m
    BY <1>4, <1>9, <2>2
  <2>4. QED
    BY <1>4, <2>2, <2>3
<1>11. m = IF l + (i + 1) <= Capacity THEN l + (i + 1) ELSE Capacity
  BY <1>5, <1>9, <1>c
<1>12. ASSUME NEW j \in 0 .. m - 1
       PROVE  c[m - j] = IF j < i + 1 THEN first + i - j ELSE s.current[l - (j - (i + 1))]
  <2>1. CASE j = 0
    BY <1>1, <1>10, <2>1
  <2>2. CASE j # 0
    <3>1. PICK h \in 0 .. n - 1 : h = j - 1
      BY <1>9, <2>2
    <3>2. c[m - j] = r.current[n - h]
      <4>1. j \in 1 .. m - 1
        BY <2>2
      <4>2. QED
        BY <1>10, <3>1, <4>1
    <3>3. r.current[n - h] = IF h < i THEN first + (i - 1) - h ELSE s.current[l - (h - i)]
      BY <1>3, <1>4 DEF Shows
    <3>4. /\ h < i <=> j < i + 1
          /\ first + (i - 1) - h = first + i - j
          /\ l - (h - i) = l - (j - (i + 1))
      BY <3>1
    <3>5. QED
      BY <3>2, <3>3, <3>4
  <2>3. QED
    BY <2>1, <2>2
<1>13. x.displayed \in Seq(Int) /\ Len(x.displayed) <= Capacity
  BY <1>8, <1>9, <1>10, <1>c DEF Display, Shows
<1>14. x.passed = IF ~frozen THEN 0
                  ELSE IF s.last = None THEN s.passed + (i + 1)
                  ELSE s.passed + (first + i - s.last)
  <2>1. CASE ~frozen
    BY <1>8, <2>1
  <2>2. CASE frozen /\ i = 0
    <3>1. r.last = s.last /\ r.passed = s.passed /\ k = first
      BY <1>1, <2>2 DEF Shows
    <3>2. QED
      BY <1>8, <2>2, <3>1 DEF Passed, Reducible
  <2>3. CASE frozen /\ i # 0
    <3>1. /\ r.last = first + (i - 1)
          /\ r.passed = IF s.last = None THEN s.passed + i
                        ELSE s.passed + (first + (i - 1) - s.last)
      BY <2>3 DEF Shows
    <3>2. r.last # None /\ k - r.last = 1
      BY <1>1, <2>3, <3>1 DEF Reducible, None
    <3>3. x.passed = r.passed + 1
      BY <1>8, <2>3, <3>2 DEF Passed
    <3>4. QED
      <4>1. s.last \in Int /\ s.passed \in Int
        BY DEF Reducible
      <4>2. CASE s.last = None
        <5>1. x.passed = s.passed + i + 1
          BY <3>1, <3>3, <4>2
        <5>2. QED
          BY <2>3, <4>1, <4>2, <5>1
      <4>3. CASE s.last # None
        <5>1. x.passed = s.passed + (first + (i - 1) - s.last) + 1
          BY <3>1, <3>3, <4>3
        <5>2. QED
          BY <2>3, <4>1, <4>3, <5>1
      <4>4. QED
        BY <4>2, <4>3
  <2>4. QED
    BY <2>1, <2>2, <2>3
<1>w. x.warning \in BOOLEAN
  <2>1. r.last = None \/ ~(k <= r.last)
    BY <1>6
  <2>2. x.warning = (r.warning \/ (r.last # None /\ k # r.last + 1))
    BY <1>2, <2>1, Zenon DEF ApplyFrame
  <2>3. r.warning \in BOOLEAN
    BY DEF Shows
  <2>4. (r.warning \/ (r.last # None /\ k # r.last + 1)) \in BOOLEAN
    BY <2>3
  <2>5. QED
    BY <2>2, <2>4, Zenon
<1>15. /\ first + ((i + 1) - 1) = first + i /\ i + 1 # 0
  OBVIOUS
<1>16. Shows(s, first, i + 1, x)
  <2>1. /\ x.current \in Seq(Int)
        /\ Len(x.current) =
             IF Len(s.current) + (i + 1) <= Capacity THEN Len(s.current) + (i + 1) ELSE Capacity
    BY <1>3, <1>8, <1>10, <1>11
  <2>2. \A j \in 0 .. Len(x.current) - 1 :
          x.current[Len(x.current) - j] =
            IF j < i + 1 THEN first + ((i + 1) - 1) - j
            ELSE s.current[Len(s.current) - (j - (i + 1))]
    BY <1>3, <1>8, <1>10, <1>12, <1>15
  <2>3. x.last = first + ((i + 1) - 1)
    BY <1>1, <1>8, <1>15
  <2>4. x.passed = IF ~frozen THEN 0
                   ELSE IF s.last = None THEN s.passed + (i + 1)
                   ELSE s.passed + (first + ((i + 1) - 1) - s.last)
    BY <1>14, <1>15
  <2>5. QED
    BY <1>13, <1>w, <1>15, <2>1, <2>2, <2>3, <2>4 DEF Shows
<1>17. QED
  BY <1>1, <1>2, <1>16

\* f gives the states between the first n waiting frames.
Between(s, q, n, f) ==
  f = [i \in 0 .. n |-> IF i = 0 THEN s ELSE ApplyFrame(f[i - 1], q[i])]

\* The states between the waiting frames are a function: there is one for one
\* frame more, whenever there is one.
LEMMA StatesBetween ==
  ASSUME NEW s, NEW q, NEW n \in Nat
  PROVE  \E f : Between(s, q, n, f)
<1> DEFINE Bad == {m \in Nat : ~ \E f : Between(s, q, m, f)}
<1>1. SUFFICES ASSUME Bad # {} PROVE FALSE
  <2>1. n \notin Bad
    BY <1>1
  <2>2. QED
    BY <2>1
<1>2. PICK m \in Bad : \A k \in Bad : m <= k
  <2>1. Bad \in SUBSET Nat
    OBVIOUS
  <2>2. QED
    BY <1>1, <2>1, LeastIndex
<1>3. m \in Nat
  OBVIOUS
<1>4. CASE m = 0
  <2>1. PICK f : f = [i \in 0 .. 0 |-> s]
    OBVIOUS
  <2>2. Between(s, q, 0, f)
    BY <2>1 DEF Between
  <2>3. QED
    BY <1>4, <2>2
<1>5. CASE m # 0
  <2>1. m - 1 \in Nat /\ m - 1 \notin Bad
    <3>1. m - 1 \in Nat /\ ~(m <= m - 1)
      BY <1>3, <1>5
    <3>2. QED
      BY <1>2, <3>1, Zenon
  <2>2. PICK f : Between(s, q, m - 1, f)
    BY <2>1
  <2>3. PICK last_ : last_ = ApplyFrame(f[m - 1], q[m])
    OBVIOUS
  <2>4. PICK g : g = [i \in 0 .. m |-> IF i = m THEN last_ ELSE f[i]]
    OBVIOUS
  <2>5. g[m - 1] = f[m - 1] /\ g[m] = last_
    BY <1>3, <1>5, <2>4
  <2>6. ASSUME NEW i \in 0 .. m
        PROVE  g[i] = IF i = 0 THEN s ELSE ApplyFrame(g[i - 1], q[i])
    <3>1. CASE i = m
      BY <1>5, <2>3, <2>5, <3>1
    <3>2. CASE i # m
      <4>1. i \in 0 .. m - 1 /\ g[i] = f[i]
        BY <1>3, <2>4, <3>2
      <4>2. f[i] = IF i = 0 THEN s ELSE ApplyFrame(f[i - 1], q[i])
        BY <2>2, <4>1 DEF Between
      <4>3. i # 0 => g[i - 1] = f[i - 1]
        BY <1>3, <2>4, <4>1
      <4>4. QED
        BY <4>1, <4>2, <4>3
    <3>3. QED
      BY <3>1, <3>2
  <2>7. Between(s, q, m, g)
    BY <2>4, <2>6 DEF Between
  <2>8. QED
    BY <2>7
<1>6. QED
  BY <1>4, <1>5

\* The waiting frames, when they are consecutive and new, are shown one behind
\* the other.
LEMMA AppliedShows ==
  ASSUME NEW s, Reducible(s), NEW first \in Int, first > s.last, NEW q, Len(q) \in Nat,
         \A i \in 1 .. Len(q) : q[i] = first + (i - 1)
  PROVE  Shows(s, first, Len(q), Applied(s, q))
<1>1. PICK n \in Nat : n = Len(q)
  OBVIOUS
<1> DEFINE Body(f) == [i \in 0 .. n |-> IF i = 0 THEN s ELSE ApplyFrame(f[i - 1], q[i])]
           a == CHOOSE f : f = Body(f)
<1>2. Applied(s, q) = a[n]
  BY <1>1 DEF Applied
<1>3. a = Body(a)
  <2>1. \E f : f = Body(f)
    <3>1. PICK f : Between(s, q, n, f)
      BY StatesBetween
    <3>2. f = Body(f)
      BY <3>1 DEF Between
    <3>3. QED
      BY <3>2
  <2>2. QED
    BY <2>1, Zenon
<1> HIDE DEF a
<1>4. \A i \in 0 .. n : a[i] = IF i = 0 THEN s ELSE ApplyFrame(a[i - 1], q[i])
  BY <1>3
<1> DEFINE Bad == {i \in 0 .. n : ~Shows(s, first, i, a[i])}
<1>5. SUFFICES ASSUME Bad # {} PROVE FALSE
  <2>1. n \in 0 .. n /\ n \notin Bad
    BY <1>5
  <2>2. Shows(s, first, n, a[n])
    BY <2>1
  <2>3. QED
    BY <1>1, <1>2, <2>2
<1>6. PICK m \in Bad : \A k \in Bad : m <= k
  <2>1. Bad \in SUBSET Nat
    OBVIOUS
  <2>2. QED
    BY <1>5, <2>1, LeastIndex
<1>7. m \in 0 .. n /\ ~Shows(s, first, m, a[m])
  OBVIOUS
<1>8. CASE m = 0
  <2>1. a[0] = s
    BY <1>4
  <2>2. Shows(s, first, 0, s)
    BY CanAssumption DEF Shows, Reducible
  <2>3. QED
    BY <1>7, <1>8, <2>1, <2>2
<1>9. CASE m # 0
  <2>1. PICK k \in Nat : k = m - 1 /\ k + 1 = m /\ k \in 0 .. n
    BY <1>7, <1>9
  <2>2. Shows(s, first, k, a[k])
    <3>1. k \notin Bad
      BY <1>6, <2>1
    <3>2. QED
      BY <2>1, <3>1
  <2>3. q[m] = first + k
    BY <1>1, <1>7, <1>9, <2>1
  <2>4. Shows(s, first, k + 1, ApplyFrame(a[k], first + k))
    BY <2>1, <2>2, ApplyFrameShows
  <2>5. a[m] = ApplyFrame(a[k], first + k)
    BY <1>4, <1>7, <1>9, <2>1, <2>3
  <2>6. QED
    BY <1>7, <2>1, <2>4, <2>5
<1>10. QED
  BY <1>8, <1>9

\* Frames that follow the window, or fill it alone, leave a window.
LEMMA WindowGrows ==
  ASSUME NEW s, Reducible(s), IsWindow(s.current, s.last), NEW first \in Int, first > s.last,
         NEW n \in Nat \ {0}, NEW r, Shows(s, first, n, r),
         first = s.last + 1 \/ n = Capacity
  PROVE  IsWindow(r.current, first + (n - 1))
<1>1. PICK l \in Nat : l = Len(s.current)
  BY DEF Reducible
<1>2. PICK m \in Nat : m = Len(r.current)
  BY DEF Shows
<1>3. PICK p \in Int : p = s.last /\ p >= -1 /\ first > p /\ (first = p + 1 \/ n = Capacity)
  BY DEF Reducible
<1>4. Capacity \in Nat \ {0}
  BY CanAssumption
<1>5. l = (IF p + 1 <= Capacity THEN p + 1 ELSE Capacity)
      /\ \A j \in 0 .. l - 1 : s.current[l - j] = p - j
  BY <1>1, <1>3 DEF IsWindow
<1>6. m = (IF l + n <= Capacity THEN l + n ELSE Capacity)
      /\ \A j \in 0 .. m - 1 : r.current[m - j] =
           IF j < n THEN first + (n - 1) - j ELSE s.current[l - (j - n)]
  BY <1>1, <1>2 DEF Shows
<1>7. PICK t \in Int : t = first + (n - 1)
  OBVIOUS
<1>8. m = IF t + 1 <= Capacity THEN t + 1 ELSE Capacity
  <2>1. CASE first = p + 1
    BY <1>3, <1>4, <1>5, <1>6, <1>7, <2>1
  <2>2. CASE n = Capacity
    BY <1>3, <1>4, <1>6, <1>7, <2>2
  <2>3. QED
    BY <1>3, <2>1, <2>2
<1>9. ASSUME NEW j \in 0 .. m - 1
      PROVE  r.current[m - j] = t - j
  <2>1. CASE j < n
    BY <1>6, <1>7, <2>1
  <2>2. CASE ~(j < n)
    <3>1. first = p + 1
      BY <1>3, <1>4, <1>6, <2>2
    <3>2. PICK h \in 0 .. l - 1 : h = j - n
      BY <1>4, <1>6, <2>2
    <3>3. r.current[m - j] = s.current[l - h]
      BY <1>6, <2>2, <3>2
    <3>4. s.current[l - h] = p - h
      BY <1>5
    <3>5. QED
      BY <1>7, <3>1, <3>2, <3>3, <3>4
  <2>3. QED
    BY <2>1, <2>2
<1>10. QED
  BY <1>2, <1>7, <1>8, <1>9 DEF IsWindow

-----------------------------------------------------------------------------
\* What the socket carries.

Messages == [kind : {"snapshot", "frame", "ended", "close"}, n : Nat,
             state : {"running", "completed"}]

\* Behind its first o messages w carries f frames, which continue frame b, ...
Carries(w, o, b, f) ==
  /\ o + f <= Len(w)
  /\ \A i \in 1 .. f : w[o + i].kind = "frame" /\ w[o + i].n = b + i

\* ... and then what is left of the stream of a server in state s with N frames.
Ends(s, N, w, o, b, f) ==
  \/ s = "running" /\ Len(w) = o + f /\ b + f = N - 1
  \/ /\ s = "completed" /\ Len(w) = o + f + 2 /\ b + f = N - 1
     /\ w[o + f + 1].kind = "ended" /\ w[o + f + 2].kind = "close"
  \/ /\ s = "unreachable" /\ Len(w) = o + f + 1 /\ b + f <= N - 1
     /\ w[o + f + 1].kind = "close"

Streams(s, N, w, o, b) == \E f \in Nat : Carries(w, o, b, f) /\ Ends(s, N, w, o, b, f)

LEMMA StreamsGrow ==
  ASSUME NEW N \in Nat, NEW w \in Seq(Messages), NEW o \in Nat, NEW b \in Int,
         Streams("running", N, w, o, b), NEW m \in Messages, m.kind = "frame", m.n = N
  PROVE  Streams("running", N + 1, Append(w, m), o, b)
<1>1. PICK f \in Nat : Carries(w, o, b, f) /\ Ends("running", N, w, o, b, f)
  BY DEF Streams
<1>2. Len(w) = o + f /\ b + f = N - 1
  BY <1>1 DEF Ends
<1>3. PICK a : a = Append(w, m)
  OBVIOUS
<1>4. /\ Len(a) = Len(w) + 1 /\ a[Len(w) + 1] = m
      /\ \A i \in 1 .. Len(w) : a[i] = w[i]
  BY <1>3, AppendFacts
<1>5. \A i \in 1 .. f : a[o + i] = w[o + i]
  BY <1>2, <1>4
<1>6. a[o + (f + 1)] = m /\ m.n = b + (f + 1)
  <2>1. Len(w) + 1 = o + (f + 1) /\ N = b + (f + 1)
    BY <1>2
  <2>2. QED
    BY <1>4, <2>1
<1>7. Carries(a, o, b, f + 1)
  <2>1. o + (f + 1) <= Len(a)
    BY <1>2, <1>4
  <2>2. ASSUME NEW i \in 1 .. f + 1
        PROVE  a[o + i].kind = "frame" /\ a[o + i].n = b + i
    <3>1. CASE i = f + 1
      BY <1>6, <3>1
    <3>2. CASE i # f + 1
      <4>1. i \in 1 .. f
        BY <3>2
      <4>2. QED
        BY <1>1, <1>5, <4>1 DEF Carries
    <3>3. QED
      BY <3>1, <3>2
  <2>3. QED
    BY <2>1, <2>2 DEF Carries
<1>8. Ends("running", N + 1, a, o, b, f + 1)
  BY <1>2, <1>4 DEF Ends
<1>9. QED
  BY <1>3, <1>7, <1>8 DEF Streams

LEMMA StreamsEnd ==
  ASSUME NEW N \in Nat, NEW w \in Seq(Messages), NEW o \in Nat, NEW b \in Int,
         Streams("running", N, w, o, b),
         NEW e \in Messages, e.kind = "ended", NEW c \in Messages, c.kind = "close"
  PROVE  Streams("completed", N, w \o <<e, c>>, o, b)
<1>1. PICK f \in Nat : Carries(w, o, b, f) /\ Ends("running", N, w, o, b, f)
  BY DEF Streams
<1>2. Len(w) = o + f /\ b + f = N - 1
  BY <1>1 DEF Ends
<1>3. PICK a : a = w \o <<e, c>>
  OBVIOUS
<1>4. PICK l \in Nat : l = Len(w)
  OBVIOUS
<1>5. /\ Len(a) = l + 2 /\ a[l + 1] = e /\ a[l + 2] = c
      /\ \A i \in 1 .. l : a[i] = w[i]
  BY <1>3, <1>4, AppendTwoFacts
<1>6. \A i \in 1 .. f : a[o + i] = w[o + i]
  BY <1>2, <1>4, <1>5
<1>7. Carries(a, o, b, f)
  <2>1. o + f <= Len(a)
    BY <1>2, <1>4, <1>5
  <2>2. QED
    BY <1>1, <1>6, <2>1 DEF Carries
<1>8. Ends("completed", N, a, o, b, f)
  BY <1>2, <1>4, <1>5 DEF Ends
<1>9. QED
  BY <1>3, <1>7, <1>8 DEF Streams

LEMMA StreamsBreak ==
  ASSUME NEW N \in Nat, NEW w \in Seq(Messages), NEW o \in Nat, NEW b \in Int,
         Streams("running", N, w, o, b), NEW i \in o .. Len(w),
         NEW c \in Messages, c.kind = "close"
  PROVE  Streams("unreachable", N, Append(SubSeq(w, 1, i), c), o, b)
<1>1. PICK f \in Nat : Carries(w, o, b, f) /\ Ends("running", N, w, o, b, f)
  BY DEF Streams
<1>2. Len(w) = o + f /\ b + f = N - 1
  BY <1>1 DEF Ends
<1>3. PICK p : p = SubSeq(w, 1, i)
  OBVIOUS
<1>4. i \in Nat /\ i <= Len(w) /\ p \in Seq(Messages) /\ Len(p) = i
      /\ \A j \in 1 .. i : p[j] = w[j]
  BY <1>3
<1>5. PICK a : a = Append(p, c)
  OBVIOUS
<1>6. /\ Len(a) = i + 1 /\ a[i + 1] = c
      /\ \A j \in 1 .. i : a[j] = w[j]
  BY <1>4, <1>5, AppendFacts
<1>7. PICK g \in Nat : g = i - o /\ o + g = i /\ g <= f
  BY <1>2
<1>8. ASSUME NEW j \in 1 .. g
      PROVE  a[o + j] = w[o + j]
  <2>1. o + j \in 1 .. i
    BY <1>7
  <2>2. QED
    BY <1>6, <2>1
<1>9. Carries(a, o, b, g)
  <2>1. o + g <= Len(a)
    BY <1>6, <1>7
  <2>2. \A j \in 1 .. g : j \in 1 .. f
    BY <1>7
  <2>3. QED
    BY <1>1, <1>8, <2>1, <2>2 DEF Carries
<1>10. Ends("unreachable", N, a, o, b, g)
  <2>1. Len(a) = o + g + 1 /\ b + g <= N - 1 /\ o + g + 1 = i + 1
    BY <1>2, <1>6, <1>7
  <2>2. QED
    BY <1>6, <2>1 DEF Ends
<1>11. QED
  BY <1>3, <1>5, <1>9, <1>10 DEF Streams

\* What is left when the message in front of the frames is received, ...
LEMMA StreamsBehind ==
  ASSUME NEW s, NEW N \in Nat, NEW w \in Seq(Messages), NEW b \in Int, Streams(s, N, w, 1, b)
  PROVE  Streams(s, N, Tail(w), 0, b) /\ b <= N - 1
<1>1. PICK f \in Nat : Carries(w, 1, b, f) /\ Ends(s, N, w, 1, b, f)
  BY DEF Streams
<1>2. 1 + f <= Len(w) /\ w # <<>>
  BY <1>1 DEF Carries
<1>3. PICK a : a = Tail(w)
  OBVIOUS
<1>4. /\ Len(a) = Len(w) - 1 /\ Len(w) \in Nat
      /\ \A i \in 1 .. Len(w) - 1 : a[i] = w[i + 1]
  BY <1>2, <1>3, TailFacts
<1>5. Carries(a, 0, b, f)
  <2>1. 0 + f <= Len(a)
    BY <1>2, <1>4
  <2>2. ASSUME NEW i \in 1 .. f
        PROVE  a[0 + i] = w[1 + i]
    BY <1>2, <1>4
  <2>3. QED
    BY <1>1, <2>1, <2>2 DEF Carries
<1>6. Ends(s, N, a, 0, b, f) /\ b <= N - 1
  <2>1. PICK l \in Nat : l = Len(w)
    BY <1>4
  <2>2. b + f <= N - 1
    BY <1>1 DEF Ends
  <2>3. /\ b <= N - 1
        /\ Len(a) = 0 + f <=> l = 1 + f
        /\ Len(a) = 0 + f + 1 <=> l = 1 + f + 1
        /\ Len(a) = 0 + f + 2 <=> l = 1 + f + 2
    BY <1>4, <2>1, <2>2
  <2>4. l = 1 + f + 1 => a[0 + f + 1] = w[1 + f + 1]
    BY <1>4, <2>1
  <2>5. l = 1 + f + 2 => a[0 + f + 1] = w[1 + f + 1] /\ a[0 + f + 2] = w[1 + f + 2]
    BY <1>4, <2>1
  <2>6. QED
    BY <1>1, <2>1, <2>2, <2>3, <2>4, <2>5 DEF Ends
<1>7. QED
  BY <1>3, <1>5, <1>6 DEF Streams

\* ... and when the next message is received.
LEMMA StreamsNext ==
  ASSUME NEW s, NEW N \in Nat, NEW w \in Seq(Messages), w # <<>>, NEW b \in Int,
         Streams(s, N, w, 0, b)
  PROVE  /\ w[1].kind = "frame" =>
              w[1].n = b + 1 /\ b + 1 <= N - 1 /\ Streams(s, N, Tail(w), 0, b + 1)
         /\ w[1].kind = "ended" =>
              s = "completed" /\ b = N - 1 /\ Len(w) = 2 /\ w[2].kind = "close"
         /\ w[1].kind = "close" => s = "unreachable" /\ b <= N - 1 /\ Len(w) = 1
         /\ w[1].kind # "snapshot"
<1>1. PICK f \in Nat : Carries(w, 0, b, f) /\ Ends(s, N, w, 0, b, f)
  BY DEF Streams
<1>2. PICK a : a = Tail(w)
  OBVIOUS
<1>3. PICK l \in Nat : l = Len(w)
  OBVIOUS
<1>4. /\ Len(a) = l - 1 /\ l > 0
      /\ \A i \in 1 .. l - 1 : a[i] = w[i + 1]
  BY <1>2, <1>3, TailFacts
<1>5. CASE f = 0
  BY <1>1, <1>3, <1>4, <1>5 DEF Ends
<1>6. CASE f # 0
  <2>1. PICK g \in Nat : g = f - 1 /\ f = g + 1
    BY <1>6
  <2>2. f <= l /\ \A i \in 1 .. f : w[i].kind = "frame" /\ w[i].n = b + i
    BY <1>1, <1>3 DEF Carries
  <2>3. w[1].kind = "frame" /\ w[1].n = b + 1
    BY <1>6, <2>2
  <2>4. Carries(a, 0, b + 1, g)
    <3>1. ASSUME NEW i \in 1 .. g
          PROVE  a[0 + i].kind = "frame" /\ a[0 + i].n = (b + 1) + i
      <4>1. i \in 1 .. l - 1 /\ i + 1 \in 1 .. f /\ b + (i + 1) = (b + 1) + i
        BY <2>1, <2>2
      <4>2. a[i] = w[i + 1] /\ w[i + 1].kind = "frame" /\ w[i + 1].n = b + (i + 1)
        BY <1>4, <2>2, <4>1
      <4>3. 0 + i = i
        OBVIOUS
      <4>4. QED
        BY <4>1, <4>2, <4>3
    <3>2. QED
      BY <1>4, <2>1, <2>2, <3>1 DEF Carries
  <2>5. Ends(s, N, a, 0, b + 1, g) /\ b + 1 <= N - 1
    <3>1. /\ 0 + f = f /\ 0 + g = g /\ (b + 1) + g = b + f
          /\ Len(a) = g <=> l = f
          /\ Len(a) = g + 1 <=> l = f + 1
          /\ Len(a) = g + 2 <=> l = f + 2
          /\ b + f <= N - 1 => b + 1 <= N - 1
      BY <1>4, <2>1
    <3>2. l = f + 1 => a[g + 1] = w[f + 1]
      BY <1>4, <2>1
    <3>3. l = f + 2 => a[g + 1] = w[f + 1] /\ a[g + 2] = w[f + 2]
      BY <1>4, <2>1
    <3>4. b + f <= N - 1
      BY <1>1 DEF Ends
    <3>5. QED
      BY <1>1, <1>3, <3>1, <3>2, <3>3, <3>4 DEF Ends
  <2>6. Streams(s, N, a, 0, b + 1)
    BY <2>4, <2>5 DEF Streams
  <2>7. QED
    BY <1>2, <2>3, <2>5, <2>6
<1>7. QED
  BY <1>5, <1>6

-----------------------------------------------------------------------------
\* The inductive invariant.

\* The newest frame that has been received.
Taken == IF pending = <<>> THEN last ELSE pending[Len(pending)]

TypesInv ==
  /\ TypeOK
  /\ wire \in Seq(Messages)
  /\ currentFrames \in Seq(Int) /\ displayedFrames \in Seq(Int) /\ pending \in Seq(Int)

\* The waiting frames are consecutive; they start behind the last one shown,
\* unless the queue has overflowed: then it is full.
PendingInv ==
  /\ \A i \in 1 .. Len(pending) : pending[i] = Taken - Len(pending) + i
  /\ pending # <<>> =>
       /\ initialized
       /\ last < pending[1]
       /\ pending[1] = last + 1 \/ (dropped /\ Len(pending) = Capacity)
  /\ Taken <= frames - 1

ShownInv ==
  /\ IsWindow(currentFrames, last)
  /\ ~initialized => last = None /\ frozenAt = None /\ ~dropped

PassedInv ==
  IF frozen
  THEN /\ frozenAt <= last
       /\ framesPassedWhileFrozen <= last - frozenAt
       /\ last = frozenAt \/ frozenAt # None \/ ~dropped
            => framesPassedWhileFrozen = last - frozenAt
  ELSE framesPassedWhileFrozen = 0

NotSubscribed ==
  /\ ~subscribed /\ connectionState = "connecting" /\ wire = <<>>
  /\ serverState # "unreachable" /\ ~initialized

AwaitsSnapshot ==
  /\ subscribed /\ connectionState = "connected" /\ ~initialized
  /\ wire # <<>> /\ wire[1].kind = "snapshot" /\ Streams(serverState, frames, wire, 1, wire[1].n - 1)

Follows ==
  /\ subscribed /\ connectionState = "connected" /\ initialized /\ ~terminal
  /\ Streams(serverState, frames, wire, 0, Taken)

LostEarly ==
  /\ subscribed /\ connectionState = "connected" /\ ~initialized
  /\ serverState = "unreachable" /\ Len(wire) = 1 /\ wire[1].kind = "close"

Told ==
  /\ subscribed /\ connectionState = "connected" /\ terminal /\ ~error
  /\ serverState = "completed" /\ Len(wire) = 1 /\ wire[1].kind = "close"
  /\ serviceState = "completed" /\ last = frames - 1 /\ pending = <<>>

Closed ==
  /\ subscribed /\ connectionState = "disconnected" /\ wire = <<>>
  /\ serverState # "running" /\ pending = <<>>
  /\ error \/ (serviceState = "completed" /\ last = frames - 1)

ConnectionInv ==
  /\ ~initialized => ~terminal
  /\ NotSubscribed \/ AwaitsSnapshot \/ Follows \/ LostEarly \/ Told \/ Closed

CanInv == TypesInv /\ PendingInv /\ ShownInv /\ PassedInv /\ ConnectionInv

LEMMA TakenInt ==
  ASSUME TypesInv, PendingInv
  PROVE  /\ Taken \in Int /\ Taken >= last /\ Taken >= -1
         /\ Len(pending) \in Nat /\ last \in Int /\ last >= -1 /\ frames \in Nat
         /\ Capacity \in Nat \ {0} /\ MaxFrames \in Nat /\ frames <= MaxFrames
         /\ pending # <<>> => Len(pending) > 0 /\ pending[1] \in Int /\ pending[1] <= Taken
<1>1. last \in Int /\ last >= -1 /\ frames \in Nat /\ frames <= MaxFrames
  BY CanAssumption DEF TypesInv, TypeOK
<1>2. PICK n \in Nat : n = Len(pending)
  BY DEF TypesInv
<1>3. CASE pending = <<>>
  BY <1>1, <1>2, <1>3, CanAssumption DEF Taken
<1>4. CASE pending # <<>>
  <2>1. pending \in Seq(Int)
    BY DEF TypesInv
  <2>2. n > 0 /\ pending[1] \in Int /\ pending[n] \in Int
    BY <1>2, <1>4, <2>1
  <2>3. Taken = pending[n]
    BY <1>2, <1>4 DEF Taken
  <2>4. pending[1] = Taken - n + 1 /\ last < pending[1]
    BY <1>2, <1>4, <2>2 DEF PendingInv
  <2>5. QED
    BY <1>1, <1>2, <2>2, <2>3, <2>4, CanAssumption
<1>5. QED
  BY <1>3, <1>4

LEMMA WireHead ==
  ASSUME TypesInv, wire # <<>>
  PROVE  /\ wire[1] \in Messages /\ wire[1].n \in Nat /\ Head(wire) = wire[1]
         /\ Tail(wire) \in Seq(Messages) /\ Len(wire) \in Nat \ {0}
         /\ Len(Tail(wire)) = Len(wire) - 1
         /\ \A i \in 1 .. Len(wire) - 1 : Tail(wire)[i] = wire[i + 1]
<1>1. wire \in Seq(Messages)
  BY DEF TypesInv
<1>2. wire[1] \in Messages
  BY <1>1, TailFacts
<1>3. wire[1].n \in Nat
  BY <1>2 DEF Messages
<1>4. QED
  BY <1>1, <1>2, <1>3, TailFacts

\* Flush shows every frame that waits.
LEMMA FlushStep ==
  ASSUME TypesInv, PendingInv, ShownInv, PassedInv, Flush,
         frozen' = frozen, dropped' = dropped, frozenAt' = frozenAt
  PROVE  /\ last' = Taken /\ pending' = <<>> /\ animationFrame' = FALSE
         /\ initialized' = initialized /\ streamWarning' \in BOOLEAN
         /\ currentFrames' \in Seq(Int) /\ Len(currentFrames') <= Capacity
         /\ displayedFrames' \in Seq(Int) /\ Len(displayedFrames') <= Capacity
         /\ framesPassedWhileFrozen' \in Nat
         /\ IsWindow(currentFrames', last')
         /\ PassedInv'
<1>1. pending' = <<>> /\ animationFrame' = FALSE
  BY DEF Flush
<1>2. CASE pending = <<>>
  <2>1. UNCHANGED buffers /\ Taken = last
    BY <1>2 DEF Flush, Taken
  <2>2. UNCHANGED <<currentFrames, displayedFrames, last, framesPassedWhileFrozen, streamWarning,
                    initialized>>
    BY <2>1 DEF buffers
  <2>3. PassedInv'
    BY <2>2 DEF PassedInv
  <2>4. QED
    BY <1>1, <2>1, <2>2, <2>3 DEF TypesInv, TypeOK, ShownInv
<1>3. CASE pending # <<>>
  <2>1. PICK s : s = State
    OBVIOUS
  <2>2. PICK q \in Seq(Int) : q = pending
    BY DEF TypesInv
  <2>3. PICK r_ : r_ = Applied(s, q)
    OBVIOUS
  <2>4. Show(r_)
    BY <1>3, <2>1, <2>2, <2>3 DEF Flush
  <2>5. /\ s.current = currentFrames /\ s.displayed = displayedFrames /\ s.last = last
        /\ s.passed = framesPassedWhileFrozen /\ s.warning = streamWarning
    BY <2>1 DEF State
  <2>6. Reducible(s)
    BY <2>5, TakenInt DEF Reducible, TypesInv, TypeOK
  <2>7. PICK n \in Nat \ {0} : n = Len(q)
    BY <1>3, <2>2
  <2>8. PICK first \in Int : first = q[1]
    BY <2>2, <2>7
  <2>9. \A i \in 1 .. n : q[i] = Taken - n + i
    BY <2>2, <2>7 DEF PendingInv
  <2>10. first + (n - 1) = Taken /\ \A i \in 1 .. n : q[i] = first + (i - 1)
    <3>1. Taken \in Int /\ 1 \in 1 .. n
      BY <2>7, TakenInt
    <3>2. first = Taken - n + 1
      BY <2>8, <2>9, <3>1
    <3>3. \A i \in 1 .. n : Taken - n + i = first + (i - 1)
      BY <3>1, <3>2
    <3>4. QED
      BY <2>9, <3>1, <3>2, <3>3
  <2>11. first > s.last /\ (first = s.last + 1 \/ (dropped /\ n = Capacity)) /\ initialized
    BY <1>3, <2>2, <2>5, <2>7, <2>8, TakenInt DEF PendingInv
  <2>12. Shows(s, first, n, r_)
    BY <2>3, <2>6, <2>7, <2>10, <2>11, AppliedShows
  <2>13. IsWindow(r_.current, first + (n - 1))
    BY <2>5, <2>6, <2>11, <2>12, WindowGrows DEF ShownInv
  <2>14. /\ r_.current \in Seq(Int) /\ Len(r_.current) <= Capacity
         /\ r_.displayed \in Seq(Int) /\ Len(r_.displayed) <= Capacity
         /\ r_.warning \in BOOLEAN
    BY <2>12, CanAssumption DEF Shows
  <2>15. r_.last = Taken
    BY <2>7, <2>10, <2>12 DEF Shows
  <2>16. /\ currentFrames' = r_.current /\ displayedFrames' = r_.displayed /\ last' = r_.last
         /\ framesPassedWhileFrozen' = r_.passed /\ streamWarning' = r_.warning
         /\ initialized' = TRUE
    BY <2>4 DEF Show
  <2>17. r_.passed \in Nat /\ PassedInv'
    <3>1. CASE ~frozen
      <4>1. r_.passed = 0
        BY <2>7, <2>12, <3>1 DEF Shows
      <4>2. QED
        BY <2>16, <3>1, <4>1 DEF PassedInv
    <3>2. CASE frozen
      <4>1. r_.passed = IF last = None THEN framesPassedWhileFrozen + n
                        ELSE framesPassedWhileFrozen + (Taken - last)
        <5>1. r_.passed = IF s.last = None THEN s.passed + n
                          ELSE s.passed + (first + (n - 1) - s.last)
          BY <2>7, <2>12, <3>2 DEF Shows
        <5>2. first + (n - 1) = Taken
          BY <2>10
        <5>3. CASE last = None
          BY <2>5, <5>1, <5>3, Zenon
        <5>4. CASE last # None
          <6>1. r_.passed = s.passed + (first + (n - 1) - s.last)
            BY <2>5, <5>1, <5>4, Zenon
          <6>2. first + (n - 1) - s.last = Taken - last
            <7>1. s.last = last /\ last \in Int
              BY <2>5, TakenInt
            <7>2. QED
              BY <5>2, <7>1
          <6>3. QED
            BY <2>5, <5>4, <6>1, <6>2, Zenon
        <5>5. QED
          BY <5>3, <5>4
      <4>2. framesPassedWhileFrozen \in Nat /\ frozenAt \in Int /\ frozenAt >= -1
        BY CanAssumption DEF TypesInv, TypeOK
      <4>3. /\ frozenAt <= last /\ framesPassedWhileFrozen <= last - frozenAt
            /\ last = frozenAt \/ frozenAt # None \/ ~dropped
                 => framesPassedWhileFrozen = last - frozenAt
        BY <3>2 DEF PassedInv
      <4>4. first > last /\ (first = last + 1 \/ dropped) /\ last \in Int /\ last >= -1
            /\ Taken \in Int /\ first + (n - 1) = Taken
        BY <2>5, <2>10, <2>11, TakenInt
      <4>5. r_.passed \in Nat /\ frozenAt <= Taken /\ r_.passed <= Taken - frozenAt
            /\ Taken # frozenAt
        BY <4>1, <4>2, <4>3, <4>4 DEF None
      <4>6. ASSUME frozenAt # None \/ ~dropped
            PROVE  r_.passed = Taken - frozenAt
        <5>1. framesPassedWhileFrozen = last - frozenAt
          BY <4>3, <4>6
        <5>2. CASE last = None
          <6>1. frozenAt = -1 /\ ~dropped
            BY <4>2, <4>3, <4>6, <5>2 DEF None
          <6>2. first = last + 1 /\ last = -1
            BY <4>4, <5>2, <6>1 DEF None
          <6>3. QED
            BY <4>1, <4>4, <5>1, <5>2, <6>1, <6>2
        <5>3. CASE last # None
          BY <4>1, <4>2, <4>4, <5>1, <5>3
        <5>4. QED
          BY <5>2, <5>3
      <4>7. QED
        BY <2>15, <2>16, <3>2, <4>5, <4>6 DEF PassedInv
    <3>3. QED
      BY <3>1, <3>2
  <2>18. QED
    BY <1>1, <2>10, <2>11, <2>13, <2>14, <2>15, <2>16, <2>17
<1>4. QED
  BY <1>2, <1>3

-----------------------------------------------------------------------------
\* Each action keeps the invariant.

LEMMA InitialWindow ==
  ASSUME NEW n \in Nat
  PROVE  /\ Newest(FramesBetween(0, n - 1), Capacity) \in Seq(Int)
         /\ Len(Newest(FramesBetween(0, n - 1), Capacity)) <= Capacity
         /\ IsWindow(Newest(FramesBetween(0, n - 1), Capacity), n - 1)
<1>1. PICK s : s = FramesBetween(0, n - 1)
  OBVIOUS
<1>2. s \in Seq(Int) /\ Len(s) = n /\ \A i \in 1 .. n : s[i] = i - 1
  BY <1>1 DEF FramesBetween
<1>3. Capacity \in Nat \ {0}
  BY CanAssumption
<1>4. PICK w : w = Newest(s, Capacity)
  OBVIOUS
<1>5. /\ w \in Seq(Int)
      /\ Len(w) = IF Len(s) <= Capacity THEN Len(s) ELSE Capacity
      /\ \A j \in 0 .. Len(w) - 1 : w[Len(w) - j] = s[Len(s) - j]
  BY <1>2, <1>3, <1>4, NewestFacts, Zenon
<1>6. Len(w) = (IF n <= Capacity THEN n ELSE Capacity) /\ Len(w) <= n /\ Len(w) <= Capacity
  BY <1>2, <1>3, <1>5
<1>7. ASSUME NEW j \in 0 .. Len(w) - 1
      PROVE  w[Len(w) - j] = (n - 1) - j
  <2>1. PICK h \in 1 .. n : h = n - j
    BY <1>5, <1>6
  <2>2. w[Len(w) - j] = s[h]
    BY <1>2, <1>5, <2>1
  <2>3. s[h] = h - 1
    BY <1>2
  <2>4. QED
    BY <2>1, <2>2, <2>3
<1>8. IsWindow(w, n - 1)
  <2>1. (n - 1) + 1 = n
    OBVIOUS
  <2>2. QED
    BY <1>6, <1>7, <2>1 DEF IsWindow
<1>9. QED
  BY <1>1, <1>4, <1>5, <1>6, <1>8

LEMMA EmptyWindow == IsWindow(<<>>, None)
BY CanAssumption DEF IsWindow, None

LEMMA InitHolds ==
  ASSUME Init
  PROVE  CanInv
<1>1. Taken = -1 /\ frames \in 0 .. MaxFrames
  BY DEF Init, Taken, None
<1>2. TypesInv
  <2>1. <<>> \in Seq(Messages) /\ <<>> \in Seq(Int) /\ Len(<<>>) <= Capacity
        /\ -1 \in -1 .. MaxFrames - 1 /\ 0 \in 0 .. MaxFrames
    BY CanAssumption
  <2>2. {subscribed, error, terminal, frozen, streamWarning, initialized, animationFrame, dropped}
          \subseteq BOOLEAN
    BY DEF Init
  <2>3. QED
    BY <1>1, <2>1, <2>2 DEF Init, TypesInv, TypeOK, None
<1>3. PendingInv
  BY <1>1 DEF Init, PendingInv
<1>4. ShownInv /\ PassedInv
  BY EmptyWindow DEF Init, ShownInv, PassedInv
<1>5. ConnectionInv
  BY DEF Init, ConnectionInv, NotSubscribed
<1>6. QED
  BY <1>2, <1>3, <1>4, <1>5 DEF CanInv

LEMMA BelowLater ==
  ASSUME NEW a \in Int, NEW b \in Nat, NEW c \in Nat, a <= b - 1, c >= b
  PROVE  a <= c - 1
OBVIOUS

\* What a step of the server leaves alone.
LEMMA PageUnchanged ==
  ASSUME CanInv, UNCHANGED <<buffers, frozen, refs, dropped, frozenAt>>,
         frames' \in Nat, frames' >= frames
  PROVE  PendingInv' /\ ShownInv' /\ PassedInv' /\ Taken' = Taken
<1>1. UNCHANGED <<currentFrames, displayedFrames, last, framesPassedWhileFrozen, initialized,
                  frozen, pending, dropped, frozenAt>>
  BY DEF buffers, refs
<1>2. Taken' = Taken
  BY <1>1 DEF Taken
<1>3. Taken <= frames - 1 /\ Taken \in Int /\ frames \in Nat
  BY TakenInt DEF CanInv, PendingInv
<1>4. Taken <= frames' - 1
  BY <1>3, BelowLater
<1>5. PendingInv'
  BY <1>1, <1>2, <1>4 DEF CanInv, PendingInv
<1>6. ShownInv' /\ PassedInv'
  BY <1>1 DEF CanInv, ShownInv, PassedInv
<1>7. QED
  BY <1>2, <1>5, <1>6

LEMMA AcceptStep ==
  ASSUME CanInv, Accept
  PROVE  CanInv'
<1>1. /\ frames' = frames /\ serverState' = serverState /\ terminal' = terminal
      /\ serviceState' = serviceState /\ initialized' = initialized
      /\ subscribed' = TRUE /\ connectionState' = "connected" /\ error' = FALSE
  BY DEF Accept, buffers
<1>2. NotSubscribed
  BY DEF Accept, CanInv, ConnectionInv, NotSubscribed, AwaitsSnapshot, Follows, LostEarly, Told,
         Closed
<1>3. frames \in Nat /\ serverState \in {"running", "completed"}
  BY <1>2, TakenInt DEF CanInv, TypesInv, TypeOK, NotSubscribed
<1>4. PICK m \in Messages : m = Message("snapshot", frames)
  BY <1>3 DEF Message, Messages
<1>5. PICK e \in Messages : e = Message("ended", 0)
  BY <1>3 DEF Message, Messages
<1>6. PICK c \in Messages : c = Message("close", 0)
  BY <1>3 DEF Message, Messages
<1>7. m.kind = "snapshot" /\ m.n = frames /\ e.kind = "ended" /\ c.kind = "close"
  BY <1>4, <1>5, <1>6 DEF Message
<1>8. wire' = <<m>> \o (IF serverState = "running" THEN <<>> ELSE <<e, c>>)
  BY <1>4, <1>5, <1>6 DEF Accept
<1>9. /\ wire' \in Seq(Messages) /\ wire' # <<>> /\ wire'[1] = m
      /\ Streams(serverState, frames, wire', 1, frames - 1)
  <2>1. PICK x : x = <<m>>
    OBVIOUS
  <2>2. x \in Seq(Messages) /\ Len(x) = 1 /\ x[1] = m
    BY <2>1
  <2>3. PICK w : w = wire'
    OBVIOUS
  <2>4. CASE serverState = "running"
    <3>1. w = x
      BY <1>8, <2>1, <2>3, <2>4
    <3>2. w \in Seq(Messages) /\ Len(w) = 1 /\ w[1] = m /\ w # <<>>
      BY <2>2, <3>1
    <3>3. Carries(w, 1, frames - 1, 0) /\ Ends(serverState, frames, w, 1, frames - 1, 0)
      BY <1>3, <2>4, <3>2 DEF Carries, Ends
    <3>4. Streams(serverState, frames, w, 1, frames - 1)
      BY <3>3 DEF Streams
    <3>5. QED
      BY <2>3, <3>2, <3>4, Zenon
  <2>5. CASE serverState = "completed"
    <3>1. w = x \o <<e, c>>
      BY <1>8, <2>1, <2>3, <2>5
    <3>2. /\ w \in Seq(Messages) /\ Len(w) = Len(x) + 2
          /\ \A i \in 1 .. Len(x) : w[i] = x[i]
          /\ w[Len(x) + 1] = e /\ w[Len(x) + 2] = c
      <4>1. PICK y \in Seq(Messages) : y = x
        BY <2>2
      <4>2. /\ y \o <<e, c>> \in Seq(Messages) /\ Len(y \o <<e, c>>) = Len(y) + 2
            /\ \A i \in 1 .. Len(y) : (y \o <<e, c>>)[i] = y[i]
            /\ (y \o <<e, c>>)[Len(y) + 1] = e /\ (y \o <<e, c>>)[Len(y) + 2] = c
        BY AppendTwoFacts
      <4>3. QED
        BY <3>1, <4>1, <4>2
    <3>3. Len(w) = 3 /\ w[1] = m /\ w[2] = e /\ w[3] = c
      BY <2>2, <3>2
    <3>4. Carries(w, 1, frames - 1, 0) /\ Ends(serverState, frames, w, 1, frames - 1, 0)
      BY <1>3, <1>7, <2>5, <3>3 DEF Carries, Ends
    <3>5. Streams(serverState, frames, w, 1, frames - 1)
      BY <3>4 DEF Streams
    <3>6. w # <<>>
      BY <3>3
    <3>7. QED
      BY <2>3, <3>2, <3>5, <3>3, <3>6, Zenon
  <2>6. QED
    BY <1>3, <2>4, <2>5
<1>10. TypesInv'
  BY <1>9 DEF Accept, CanInv, TypesInv, TypeOK, buffers, refs
<1>11. PendingInv' /\ ShownInv' /\ PassedInv'
  BY <1>1, <1>3, PageUnchanged DEF Accept
<1>12. ConnectionInv'
  <2>1. AwaitsSnapshot'
    <3>1. ~initialized
      BY <1>2 DEF NotSubscribed
    <3>2. wire'[1].kind = "snapshot" /\ wire'[1].n - 1 = frames - 1
      BY <1>7, <1>9
    <3>3. Streams(serverState', frames', wire', 1, wire'[1].n - 1)
      BY <1>1, <1>9, <3>2, Zenon
    <3>4. QED
      BY <1>1, <1>9, <3>1, <3>2, <3>3 DEF AwaitsSnapshot
  <2>2. QED
    BY <1>1, <2>1 DEF CanInv, ConnectionInv
<1>13. QED
  BY <1>10, <1>11, <1>12 DEF CanInv

LEMMA PublishStep ==
  ASSUME CanInv, Publish
  PROVE  CanInv'
<1>1. /\ serverState = "running" /\ serverState' = serverState /\ frames' = frames + 1
      /\ subscribed' = subscribed /\ connectionState' = connectionState /\ error' = error
      /\ terminal' = terminal /\ serviceState' = serviceState /\ initialized' = initialized
      /\ frames < MaxFrames
  BY DEF Publish, connection, buffers
<1>2. frames \in Nat /\ MaxFrames \in Nat /\ wire \in Seq(Messages)
  BY TakenInt DEF CanInv, TypesInv
<1>3. PICK m \in Messages : m = Message("frame", frames)
  BY <1>1, <1>2 DEF Message, Messages
<1>4. m.kind = "frame" /\ m.n = frames
  BY <1>3 DEF Message
<1>5. wire' = IF subscribed THEN Append(wire, m) ELSE wire
  BY <1>3 DEF Publish
<1>6. wire' \in Seq(Messages)
  BY <1>2, <1>5
<1>7. TypesInv'
  <2>1. frames' \in 0 .. MaxFrames
    BY <1>1, <1>2
  <2>2. QED
    BY <1>6, <2>1 DEF Publish, CanInv, TypesInv, TypeOK, connection, buffers, refs
<1>8. PendingInv' /\ ShownInv' /\ PassedInv' /\ Taken' = Taken
  BY <1>1, <1>2, PageUnchanged DEF Publish
<1>9. ConnectionInv'
  <2>1. CASE NotSubscribed
    <3>1. NotSubscribed'
      BY <1>1, <1>5, <2>1 DEF NotSubscribed
    <3>2. QED
      BY <1>1, <3>1 DEF CanInv, ConnectionInv
  <2>2. CASE AwaitsSnapshot
    <3>1. subscribed /\ wire # <<>> /\ wire[1].kind = "snapshot" /\ wire[1].n \in Nat
          /\ Streams("running", frames, wire, 1, wire[1].n - 1)
      <4>1. subscribed /\ wire # <<>> /\ wire[1].kind = "snapshot"
        BY <2>2 DEF AwaitsSnapshot
      <4>2. Streams("running", frames, wire, 1, wire[1].n - 1)
        BY <1>1, <2>2, Zenon DEF AwaitsSnapshot
      <4>3. QED
        BY <4>1, <4>2, WireHead DEF CanInv
    <3>2. wire' = Append(wire, m)
      BY <1>5, <3>1
    <3>3. wire' # <<>> /\ wire'[1] = wire[1]
      BY <1>2, <3>1, <3>2
    <3>4. Streams("running", frames + 1, wire', 1, wire[1].n - 1)
      BY <1>2, <1>4, <3>1, <3>2, StreamsGrow
    <3>5. AwaitsSnapshot'
      BY <1>1, <2>2, <3>1, <3>3, <3>4 DEF AwaitsSnapshot
    <3>6. QED
      BY <1>1, <3>5 DEF CanInv, ConnectionInv
  <2>3. CASE Follows
    <3>1. subscribed /\ Streams("running", frames, wire, 0, Taken)
      BY <1>1, <2>3 DEF Follows
    <3>2. wire' = Append(wire, m) /\ Taken \in Int
      BY <1>5, <3>1, TakenInt DEF CanInv
    <3>3. Streams("running", frames + 1, wire', 0, Taken)
      BY <1>2, <1>4, <3>1, <3>2, StreamsGrow
    <3>4. Follows'
      BY <1>1, <1>8, <2>3, <3>3 DEF Follows
    <3>5. QED
      BY <1>1, <3>4 DEF CanInv, ConnectionInv
  <2>4. QED
    BY <1>1, <2>1, <2>2, <2>3 DEF CanInv, ConnectionInv, LostEarly, Told, Closed
<1>10. QED
  BY <1>7, <1>8, <1>9 DEF CanInv

LEMMA EndStep ==
  ASSUME CanInv, End
  PROVE  CanInv'
<1>1. /\ serverState = "running" /\ serverState' = "completed" /\ frames' = frames
      /\ subscribed' = subscribed /\ connectionState' = connectionState /\ error' = error
      /\ terminal' = terminal /\ serviceState' = serviceState /\ initialized' = initialized
  BY DEF End, connection, buffers
<1>2. frames \in Nat /\ wire \in Seq(Messages)
  BY TakenInt DEF CanInv, TypesInv
<1>3. PICK e \in Messages : e = Message("ended", 0)
  BY <1>1 DEF Message, Messages
<1>4. PICK c \in Messages : c = Message("close", 0)
  BY <1>1 DEF Message, Messages
<1>5. e.kind = "ended" /\ c.kind = "close"
  BY <1>3, <1>4 DEF Message
<1>6. wire' = IF subscribed THEN wire \o <<e, c>> ELSE wire
  BY <1>3, <1>4 DEF End
<1>7. wire' \in Seq(Messages)
  BY <1>2, <1>6
<1>8. TypesInv'
  BY <1>1, <1>7 DEF End, CanInv, TypesInv, TypeOK, connection, buffers, refs
<1>9. PendingInv' /\ ShownInv' /\ PassedInv' /\ Taken' = Taken
  BY <1>1, <1>2, PageUnchanged DEF End
<1>10. ConnectionInv'
  <2>1. CASE NotSubscribed
    <3>1. NotSubscribed'
      BY <1>1, <1>6, <2>1 DEF NotSubscribed
    <3>2. QED
      BY <1>1, <3>1 DEF CanInv, ConnectionInv
  <2>2. CASE AwaitsSnapshot
    <3>1. subscribed /\ wire # <<>> /\ wire[1].kind = "snapshot" /\ wire[1].n \in Nat
          /\ Streams("running", frames, wire, 1, wire[1].n - 1)
      <4>1. subscribed /\ wire # <<>> /\ wire[1].kind = "snapshot"
        BY <2>2 DEF AwaitsSnapshot
      <4>2. Streams("running", frames, wire, 1, wire[1].n - 1)
        BY <1>1, <2>2, Zenon DEF AwaitsSnapshot
      <4>3. QED
        BY <4>1, <4>2, WireHead DEF CanInv
    <3>2. wire' = wire \o <<e, c>>
      BY <1>6, <3>1
    <3>3. wire' # <<>> /\ wire'[1] = wire[1]
      BY <1>2, <3>1, <3>2
    <3>4. Streams("completed", frames, wire', 1, wire[1].n - 1)
      BY <1>2, <1>5, <3>1, <3>2, StreamsEnd
    <3>5. AwaitsSnapshot'
      BY <1>1, <2>2, <3>1, <3>3, <3>4 DEF AwaitsSnapshot
    <3>6. QED
      BY <1>1, <3>5 DEF CanInv, ConnectionInv
  <2>3. CASE Follows
    <3>1. subscribed /\ Streams("running", frames, wire, 0, Taken)
      BY <1>1, <2>3 DEF Follows
    <3>2. wire' = wire \o <<e, c>> /\ Taken \in Int
      BY <1>6, <3>1, TakenInt DEF CanInv
    <3>3. Streams("completed", frames, wire', 0, Taken)
      BY <1>2, <1>5, <3>1, <3>2, StreamsEnd
    <3>4. Follows'
      BY <1>1, <1>9, <2>3, <3>3 DEF Follows
    <3>5. QED
      BY <1>1, <3>4 DEF CanInv, ConnectionInv
  <2>4. QED
    BY <1>1, <2>1, <2>2, <2>3 DEF CanInv, ConnectionInv, LostEarly, Told, Closed
<1>11. QED
  BY <1>8, <1>9, <1>10 DEF CanInv

LEMMA BreakStep ==
  ASSUME CanInv, Break
  PROVE  CanInv'
<1>1. /\ serverState = "running" /\ serverState' = "unreachable" /\ frames' = frames
      /\ subscribed /\ subscribed' = subscribed
      /\ connectionState = "connected" /\ connectionState' = connectionState
      /\ error' = error /\ terminal' = terminal /\ serviceState' = serviceState
      /\ initialized' = initialized
  BY DEF Break, connection, buffers
<1>2. frames \in Nat /\ wire \in Seq(Messages)
  BY TakenInt DEF CanInv, TypesInv
<1>3. PICK c \in Messages : c = Message("close", 0)
  BY <1>1 DEF Message, Messages
<1>4. c.kind = "close"
  BY <1>3 DEF Message
<1>5. PICK i \in 0 .. Len(wire) : wire' = Append(SubSeq(wire, 1, i), c)
  BY <1>3 DEF Break
<1>6. PICK p : p = SubSeq(wire, 1, i)
  OBVIOUS
<1>7. p \in Seq(Messages) /\ Len(p) = i /\ \A j \in 1 .. i : p[j] = wire[j]
  BY <1>2, <1>6
<1>8. /\ wire' \in Seq(Messages) /\ Len(wire') = i + 1 /\ wire'[i + 1] = c
      /\ \A j \in 1 .. i : wire'[j] = wire[j]
  <2>1. wire' = Append(p, c)
    BY <1>5, <1>6
  <2>2. QED
    BY <1>7, <2>1, AppendFacts
<1>9. TypesInv'
  BY <1>1, <1>8 DEF Break, CanInv, TypesInv, TypeOK, connection, buffers, refs
<1>10. PendingInv' /\ ShownInv' /\ PassedInv' /\ Taken' = Taken
  BY <1>1, <1>2, PageUnchanged DEF Break
<1>11. ConnectionInv'
  <2>1. CASE AwaitsSnapshot /\ i = 0
    <3>1. LostEarly'
      BY <1>1, <1>4, <1>8, <2>1 DEF AwaitsSnapshot, LostEarly
    <3>2. QED
      BY <1>1, <3>1 DEF CanInv, ConnectionInv
  <2>2. CASE AwaitsSnapshot /\ i # 0
    <3>1. wire # <<>> /\ wire[1].kind = "snapshot" /\ wire[1].n \in Nat
          /\ Streams("running", frames, wire, 1, wire[1].n - 1)
      <4>1. wire # <<>> /\ wire[1].kind = "snapshot"
        BY <2>2 DEF AwaitsSnapshot
      <4>2. Streams("running", frames, wire, 1, wire[1].n - 1)
        BY <1>1, <2>2, Zenon DEF AwaitsSnapshot
      <4>3. QED
        BY <4>1, <4>2, WireHead DEF CanInv
    <3>2. i \in 1 .. Len(wire) /\ wire' # <<>> /\ wire'[1] = wire[1]
      BY <1>2, <1>8, <2>2
    <3>3. Streams("unreachable", frames, wire', 1, wire[1].n - 1)
      <4>1. PICK b \in Int : b = wire[1].n - 1
        BY <3>1
      <4>2. Streams("unreachable", frames, Append(SubSeq(wire, 1, i), c), 1, b)
        BY <1>2, <1>4, <3>1, <3>2, <4>1, StreamsBreak
      <4>3. QED
        BY <1>5, <4>1, <4>2, Zenon
    <3>4. AwaitsSnapshot'
      BY <1>1, <2>2, <3>1, <3>2, <3>3 DEF AwaitsSnapshot
    <3>5. QED
      BY <1>1, <3>4 DEF CanInv, ConnectionInv
  <2>3. CASE Follows
    <3>1. Streams("running", frames, wire, 0, Taken) /\ Taken \in Int
      BY <1>1, <2>3, TakenInt DEF Follows, CanInv
    <3>2. Streams("unreachable", frames, wire', 0, Taken)
      BY <1>2, <1>4, <1>5, <3>1, StreamsBreak
    <3>3. Follows'
      BY <1>1, <1>10, <2>3, <3>2 DEF Follows
    <3>4. QED
      BY <1>1, <3>3 DEF CanInv, ConnectionInv
  <2>4. QED
    BY <1>1, <2>1, <2>2, <2>3 DEF CanInv, ConnectionInv, NotSubscribed, LostEarly, Told, Closed
<1>12. QED
  BY <1>9, <1>10, <1>11 DEF CanInv

\* What stands first on the wire, by what the page waits for.
LEMMA FirstMessage ==
  ASSUME CanInv, wire # <<>>
  PROVE  /\ wire[1].kind = "snapshot" => AwaitsSnapshot
         /\ wire[1].kind = "frame" => Follows
         /\ wire[1].kind = "ended" => Follows
         /\ wire[1].kind = "close" => Follows \/ LostEarly \/ Told
<1>1. Follows => wire[1].kind # "snapshot"
  <2>1. Follows => Streams(serverState, frames, wire, 0, Taken)
    BY DEF Follows
  <2>2. wire \in Seq(Messages) /\ Taken \in Int /\ frames \in Nat
    BY TakenInt DEF CanInv, TypesInv
  <2>3. QED
    BY <2>1, <2>2, StreamsNext
<1>2. QED
  BY <1>1 DEF CanInv, ConnectionInv, NotSubscribed, AwaitsSnapshot, LostEarly, Told, Closed

LEMMA OnSnapshotStep ==
  ASSUME CanInv, OnSnapshot
  PROVE  CanInv'
<1>1. wire # <<>> /\ wire' = Tail(wire) /\ Head(wire).kind = "snapshot"
  BY DEF OnSnapshot, Receive
<1>2. PICK n \in Nat : n = wire[1].n /\ n = Head(wire).n
  BY <1>1, WireHead DEF CanInv
<1>3. wire[1].kind = "snapshot" /\ wire[1] \in Messages /\ wire' \in Seq(Messages)
      /\ wire \in Seq(Messages) /\ Head(wire) = wire[1]
  BY <1>1, WireHead DEF CanInv, TypesInv
<1>4. AwaitsSnapshot /\ ~terminal
  BY <1>1, <1>3, FirstMessage DEF AwaitsSnapshot, CanInv, ConnectionInv
<1>5. last = None /\ frozenAt = None /\ ~dropped
  BY <1>4 DEF AwaitsSnapshot, CanInv, ShownInv
<1>6. PICK c : c = Newest(FramesBetween(0, n - 1), Capacity)
  OBVIOUS
<1>7. c \in Seq(Int) /\ Len(c) <= Capacity /\ IsWindow(c, n - 1)
  BY <1>6, InitialWindow
<1>8. /\ currentFrames' = c
      /\ displayedFrames' = Display(c, displayedFrames)
      /\ last' = n - 1
      /\ framesPassedWhileFrozen' = IF frozen THEN Max({0, n - 1 - last}) ELSE 0
      /\ streamWarning' = FALSE /\ initialized' = TRUE
  BY <1>2, <1>6 DEF OnSnapshot, Show, Initial, State
<1>9. /\ frames' = frames /\ serverState' = serverState /\ subscribed' = subscribed
      /\ connectionState' = connectionState /\ error' = error /\ terminal' = terminal
      /\ frozen' = frozen /\ animationFrame' = animationFrame /\ dropped' = dropped
      /\ frozenAt' = frozenAt /\ pending' = <<>> /\ serviceState' = wire[1].state
  BY <1>3 DEF OnSnapshot, server, connection
<1>10. frames \in Nat /\ frames <= MaxFrames /\ MaxFrames \in Nat
  BY TakenInt DEF CanInv
<1>11. Streams(serverState, frames, wire', 0, n - 1) /\ n - 1 <= frames - 1
  <2>1. Streams(serverState, frames, wire, 1, n - 1)
    BY <1>2, <1>4 DEF AwaitsSnapshot
  <2>2. QED
    BY <1>1, <1>3, <1>10, <2>1, StreamsBehind
<1>12. framesPassedWhileFrozen' = IF frozen THEN n ELSE 0
  <2>1. n - 1 - last = n
    BY <1>5 DEF None
  <2>2. Max({0, n}) = n
    BY MaxOfTwo
  <2>3. QED
    BY <1>8, <2>1, <2>2, Zenon
<1>13. TypesInv'
  <2>1. displayedFrames' \in Seq(Int) /\ Len(displayedFrames') <= Capacity
    BY <1>7, <1>8 DEF Display, CanInv, TypesInv, TypeOK
  <2>2. last' \in -1 .. MaxFrames - 1 /\ framesPassedWhileFrozen' \in 0 .. MaxFrames
    BY <1>8, <1>10, <1>11, <1>12
  <2>3. serviceState' \in {"stopped", "running", "completed"}
    BY <1>3, <1>9 DEF Messages
  <2>4. Len(pending') <= Capacity /\ pending' \in Seq(Int)
    BY <1>9, CanAssumption
  <2>5. currentFrames' \in Seq(Int) /\ Len(currentFrames') <= Capacity
    BY <1>7, <1>8
  <2>6. {subscribed', error', terminal', frozen', streamWarning', initialized', animationFrame',
         dropped'} \subseteq BOOLEAN
    BY <1>8, <1>9 DEF CanInv, TypesInv, TypeOK
  <2>7. QED
    BY <1>3, <1>9, <2>1, <2>2, <2>3, <2>4, <2>5, <2>6 DEF CanInv, TypesInv, TypeOK
<1>14. Taken' = n - 1
  BY <1>8, <1>9 DEF Taken
<1>15. PendingInv'
  <2>1. Len(pending') = 0
    BY <1>9
  <2>2. QED
    BY <1>9, <1>11, <1>14, <2>1 DEF PendingInv
<1>16. ShownInv'
  BY <1>7, <1>8 DEF ShownInv
<1>17. PassedInv'
  <2>1. CASE frozen
    <3>1. frozenAt' = -1 /\ last' = n - 1 /\ framesPassedWhileFrozen' = n /\ frozen'
      BY <1>5, <1>8, <1>9, <1>12, <2>1 DEF None
    <3>2. QED
      BY <3>1 DEF PassedInv
  <2>2. CASE ~frozen
    BY <1>9, <1>12, <2>2 DEF PassedInv
  <2>3. QED
    BY <2>1, <2>2
<1>18. ConnectionInv'
  <2>1. Follows'
    BY <1>4, <1>8, <1>9, <1>11, <1>14 DEF Follows, AwaitsSnapshot
  <2>2. QED
    BY <1>8, <2>1 DEF ConnectionInv
<1>19. QED
  BY <1>13, <1>15, <1>16, <1>17, <1>18 DEF CanInv

LEMMA OnFrameStep ==
  ASSUME CanInv, OnFrame
  PROVE  CanInv'
<1>1. wire # <<>> /\ wire' = Tail(wire) /\ Head(wire).kind = "frame"
  BY DEF OnFrame, Receive
<1>2. wire[1].kind = "frame" /\ wire' \in Seq(Messages) /\ wire \in Seq(Messages)
      /\ Head(wire) = wire[1]
  BY <1>1, WireHead DEF CanInv, TypesInv
<1>3. Follows
  BY <1>1, <1>2, FirstMessage
<1>4. PICK t \in Int : t = Taken /\ t <= frames - 1
  BY TakenInt DEF CanInv, PendingInv
<1>5. PICK l \in Nat : l = Len(pending) /\ l <= Capacity
  BY TakenInt DEF CanInv, TypesInv, TypeOK
<1>6. frames \in Nat /\ Capacity \in Nat \ {0} /\ last \in Int /\ last >= -1 /\ t >= last
  BY <1>4, TakenInt DEF CanInv
<1>7. wire[1].n = t + 1 /\ t + 1 <= frames - 1 /\ Streams(serverState, frames, wire', 0, t + 1)
  <2>1. Streams(serverState, frames, wire, 0, t)
    BY <1>3, <1>4 DEF Follows
  <2>2. QED
    BY <1>1, <1>2, <1>6, <2>1, StreamsNext
<1>8. PICK k \in Int : k = t + 1
  OBVIOUS
<1>9. PICK q : q = AppendBounded(pending, k)
  OBVIOUS
<1>10. pending' = q
  BY <1>2, <1>7, <1>8, <1>9 DEF OnFrame
<1>11. PICK m \in Nat \ {0} : m = IF l < Capacity THEN l + 1 ELSE Capacity
  BY <1>6
<1>12. /\ q \in Seq(Int) /\ Len(q) = m /\ q[m] = k
       /\ \A j \in 1 .. m - 1 : q[m - j] = pending[l - (j - 1)]
  <2>1. pending \in Seq(Int) /\ Len(pending) <= Capacity
    BY <1>5 DEF CanInv, TypesInv
  <2>2. /\ q \in Seq(Int)
        /\ Len(q) = IF Len(pending) < Capacity THEN Len(pending) + 1 ELSE Capacity
        /\ q[Len(q)] = k
        /\ \A j \in 1 .. Len(q) - 1 : q[Len(q) - j] = pending[Len(pending) - (j - 1)]
    BY <1>9, <2>1, AppendBoundedFacts, Zenon
  <2>3. Len(q) = m
    BY <1>5, <1>11, <2>2
  <2>4. QED
    BY <1>5, <2>2, <2>3
<1>13. \A i \in 1 .. l : pending[i] = t - l + i
  BY <1>4, <1>5 DEF CanInv, PendingInv
<1>14. ASSUME NEW i \in 1 .. m
       PROVE  q[i] = k - m + i
  <2>1. CASE i = m
    BY <1>12, <2>1
  <2>2. CASE i # m
    <3>1. PICK j \in 1 .. m - 1 : j = m - i /\ m - j = i
      BY <2>2
    <3>2. PICK h \in 1 .. l : h = l - (j - 1)
      <4>1. m <= l + 1
        BY <1>5, <1>11
      <4>2. l - (j - 1) \in 1 .. l
        BY <3>1, <4>1
      <4>3. QED
        BY <4>2
    <3>3. q[i] = pending[h]
      BY <1>12, <3>1, <3>2
    <3>4. pending[h] = t - l + h
      BY <1>13
    <3>5. QED
      BY <1>8, <3>1, <3>2, <3>3, <3>4
  <2>3. QED
    BY <2>1, <2>2
<1>15. /\ frames' = frames /\ serverState' = serverState /\ subscribed' = subscribed
       /\ connectionState' = connectionState /\ error' = error /\ terminal' = terminal
       /\ serviceState' = serviceState /\ frozen' = frozen /\ frozenAt' = frozenAt
       /\ currentFrames' = currentFrames /\ displayedFrames' = displayedFrames /\ last' = last
       /\ framesPassedWhileFrozen' = framesPassedWhileFrozen /\ streamWarning' = streamWarning
       /\ initialized' = initialized /\ animationFrame' = TRUE
       /\ dropped' = (dropped \/ l = Capacity)
  BY <1>5 DEF OnFrame, server, connection, buffers
<1>16. initialized
  BY <1>3 DEF Follows
<1>17. Taken' = k
  <2>1. q # <<>>
    BY <1>12
  <2>2. QED
    BY <1>10, <1>12, <2>1 DEF Taken
<1>18. TypesInv'
  <2>1. Len(pending') <= Capacity /\ pending' \in Seq(Int)
    BY <1>5, <1>6, <1>10, <1>11, <1>12
  <2>2. dropped' \in BOOLEAN
    BY <1>15
  <2>3. QED
    BY <1>2, <1>15, <2>1, <2>2 DEF CanInv, TypesInv, TypeOK
<1>19. PendingInv'
  <2>1. q[1] = k - m + 1
    BY <1>11, <1>14
  <2>2. last < q[1] /\ (q[1] = last + 1 \/ (l = Capacity /\ m = Capacity))
    <3>1. CASE l = 0
      <4>1. t = last
        <5>1. pending \in Seq(Int) /\ Len(pending) = 0
          BY <1>5, <3>1 DEF CanInv, TypesInv
        <5>2. pending = <<>>
          BY <5>1
        <5>3. QED
          BY <1>4, <5>2 DEF Taken
      <4>2. m = 1
        BY <1>6, <1>11, <3>1
      <4>3. QED
        BY <1>6, <1>8, <2>1, <4>1, <4>2
    <3>2. CASE l # 0
      <4>1. last < pending[1] /\ (pending[1] = last + 1 \/ l = Capacity)
        BY <1>5, <3>2 DEF CanInv, PendingInv
      <4>2. pending[1] = t - l + 1
        BY <1>13, <3>2
      <4>3. CASE l < Capacity
        BY <1>6, <1>8, <1>11, <2>1, <4>1, <4>2, <4>3
      <4>4. CASE l = Capacity
        BY <1>6, <1>8, <1>11, <2>1, <4>1, <4>2, <4>4
      <4>5. QED
        BY <1>5, <1>6, <4>3, <4>4
    <3>3. QED
      BY <3>1, <3>2
  <2>3. \A i \in 1 .. Len(pending') : pending'[i] = Taken' - Len(pending') + i
    BY <1>10, <1>12, <1>14, <1>17
  <2>4. pending'[1] = last' + 1 \/ (dropped' /\ Len(pending') = Capacity)
    BY <1>10, <1>12, <1>15, <2>2
  <2>5. last' < pending'[1]
    BY <1>10, <1>15, <2>2
  <2>6. Taken' <= frames' - 1
    BY <1>7, <1>8, <1>15, <1>17
  <2>7. QED
    BY <1>15, <1>16, <2>3, <2>4, <2>5, <2>6 DEF PendingInv
<1>20. ShownInv'
  BY <1>15, <1>16 DEF CanInv, ShownInv
<1>21. PassedInv'
  BY <1>15 DEF CanInv, PassedInv
<1>22. ConnectionInv'
  <2>1. Follows'
    BY <1>3, <1>7, <1>8, <1>15, <1>17 DEF Follows
  <2>2. QED
    BY <1>15, <1>16, <2>1 DEF ConnectionInv
<1>23. QED
  BY <1>18, <1>19, <1>20, <1>21, <1>22 DEF CanInv

\* What a flush leaves of the invariant.
LEMMA FlushKeeps ==
  ASSUME CanInv, Flush, frozen' = frozen, dropped' = dropped, frozenAt' = frozenAt,
         frames' = frames
  PROVE  /\ PendingInv' /\ ShownInv' /\ PassedInv'
         /\ Taken' = Taken /\ last' = Taken /\ pending' = <<>> /\ initialized' = initialized
         /\ last' \in -1 .. MaxFrames - 1 /\ framesPassedWhileFrozen' \in 0 .. MaxFrames
         /\ currentFrames' \in Seq(Int) /\ Len(currentFrames') <= Capacity
         /\ displayedFrames' \in Seq(Int) /\ Len(displayedFrames') <= Capacity
         /\ Len(pending') <= Capacity /\ pending' \in Seq(Int)
         /\ streamWarning' \in BOOLEAN /\ animationFrame' = FALSE
<1>1. /\ last' = Taken /\ pending' = <<>> /\ animationFrame' = FALSE
      /\ initialized' = initialized /\ streamWarning' \in BOOLEAN
      /\ currentFrames' \in Seq(Int) /\ Len(currentFrames') <= Capacity
      /\ displayedFrames' \in Seq(Int) /\ Len(displayedFrames') <= Capacity
      /\ framesPassedWhileFrozen' \in Nat
      /\ IsWindow(currentFrames', last')
      /\ PassedInv'
  BY FlushStep DEF CanInv
<1>2. PICK t \in Int : t = Taken /\ t >= -1 /\ t <= frames - 1
  BY TakenInt DEF CanInv, PendingInv
<1>3. Taken' = t /\ last' = t
  BY <1>1, <1>2 DEF Taken
<1>4. MaxFrames \in Nat /\ frames \in Nat /\ frames <= MaxFrames /\ Capacity \in Nat
  BY TakenInt DEF CanInv
<1>5. t \in -1 .. MaxFrames - 1
  BY <1>2, <1>4
<1>6. PendingInv'
  <2>1. Len(pending') = 0
    BY <1>1
  <2>2. Taken' <= frames' - 1
    BY <1>2, <1>3
  <2>3. QED
    BY <1>1, <2>1, <2>2 DEF PendingInv
<1>7. ShownInv'
  <2>1. ASSUME ~initialized
        PROVE  last' = None /\ frozenAt' = None /\ ~dropped'
    <3>1. pending = <<>> /\ last = None /\ frozenAt = None /\ ~dropped
      BY <2>1 DEF CanInv, PendingInv, ShownInv
    <3>2. QED
      BY <1>1, <3>1 DEF Taken
  <2>2. QED
    BY <1>1, <2>1 DEF ShownInv
<1>8. framesPassedWhileFrozen' \in 0 .. MaxFrames
  <2>1. CASE frozen
    <3>1. framesPassedWhileFrozen' <= t - frozenAt
      BY <1>1, <1>3, <2>1 DEF PassedInv
    <3>2. frozenAt \in Int /\ frozenAt >= -1
      BY <1>4 DEF CanInv, TypesInv, TypeOK
    <3>3. QED
      BY <1>1, <1>4, <1>5, <3>1, <3>2
  <2>2. CASE ~frozen
    BY <1>1, <1>4, <2>2 DEF PassedInv
  <2>3. QED
    BY <2>1, <2>2
<1>9. Len(pending') <= Capacity /\ pending' \in Seq(Int)
  BY <1>1, <1>4
<1>10. QED
  BY <1>1, <1>2, <1>3, <1>5, <1>6, <1>7, <1>8, <1>9

LEMMA OnSourceStateStep ==
  ASSUME CanInv, OnSourceState
  PROVE  CanInv'
<1>1. wire # <<>> /\ wire' = Tail(wire) /\ Head(wire).kind = "ended" /\ Flush
  BY DEF OnSourceState, Receive
<1>2. /\ wire[1].kind = "ended" /\ wire' \in Seq(Messages) /\ wire \in Seq(Messages)
      /\ Len(wire') = Len(wire) - 1
      /\ \A i \in 1 .. Len(wire) - 1 : wire'[i] = wire[i + 1]
  BY <1>1, WireHead DEF CanInv, TypesInv
<1>3. Follows
  BY <1>1, <1>2, FirstMessage
<1>4. /\ frames' = frames /\ serverState' = serverState /\ subscribed' = subscribed
      /\ connectionState' = connectionState /\ error' = FALSE /\ terminal' = TRUE
      /\ serviceState' = "completed" /\ frozen' = frozen /\ frozenAt' = frozenAt
      /\ dropped' = dropped
  BY DEF OnSourceState, server
<1>5. /\ serverState = "completed" /\ Taken = frames - 1 /\ Len(wire) = 2
      /\ wire[2].kind = "close"
  <2>1. Streams(serverState, frames, wire, 0, Taken) /\ Taken \in Int /\ frames \in Nat
    BY <1>3, TakenInt DEF Follows, CanInv
  <2>2. wire # <<>> /\ wire \in Seq(Messages) /\ wire[1].kind = "ended"
    BY <1>1, <1>2
  <2>3. QED
    BY <2>1, <2>2, StreamsNext, ZenonT(30)
<1>6. Len(wire') = 1 /\ wire'[1].kind = "close"
  BY <1>2, <1>5
<1>7. /\ PendingInv' /\ ShownInv' /\ PassedInv'
      /\ last' = Taken /\ pending' = <<>> /\ initialized' = initialized
      /\ last' \in -1 .. MaxFrames - 1 /\ framesPassedWhileFrozen' \in 0 .. MaxFrames
      /\ currentFrames' \in Seq(Int) /\ Len(currentFrames') <= Capacity
      /\ displayedFrames' \in Seq(Int) /\ Len(displayedFrames') <= Capacity
      /\ Len(pending') <= Capacity /\ pending' \in Seq(Int)
      /\ streamWarning' \in BOOLEAN /\ animationFrame' = FALSE
  BY <1>1, <1>4, FlushKeeps
<1>8. TypesInv'
  BY <1>2, <1>4, <1>7 DEF CanInv, TypesInv, TypeOK
<1>9. ConnectionInv'
  <2>1. Told'
    BY <1>3, <1>4, <1>5, <1>6, <1>7 DEF Follows, Told
  <2>2. initialized'
    BY <1>3, <1>7 DEF Follows
  <2>3. QED
    BY <2>1, <2>2 DEF ConnectionInv
<1>10. QED
  BY <1>7, <1>8, <1>9 DEF CanInv

LEMMA OnCloseStep ==
  ASSUME CanInv, OnClose
  PROVE  CanInv'
<1>1. wire # <<>> /\ wire' = Tail(wire) /\ Head(wire).kind = "close" /\ Flush
  BY DEF OnClose, Receive
<1>2. /\ wire[1].kind = "close" /\ wire' \in Seq(Messages) /\ wire \in Seq(Messages)
      /\ Len(wire') = Len(wire) - 1
  BY <1>1, WireHead DEF CanInv, TypesInv
<1>3. Follows \/ LostEarly \/ Told
  BY <1>1, <1>2, FirstMessage
<1>4. /\ frames' = frames /\ serverState' = serverState /\ subscribed' = subscribed
      /\ connectionState' = "disconnected" /\ error' = ~terminal /\ terminal' = terminal
      /\ serviceState' = serviceState /\ frozen' = frozen /\ frozenAt' = frozenAt
      /\ dropped' = dropped
  BY DEF OnClose, server
<1>5. Taken \in Int /\ frames \in Nat
  BY TakenInt DEF CanInv
<1>6. Len(wire) = 1 /\ subscribed /\ serverState # "running"
      /\ (terminal => serviceState = "completed" /\ Taken = frames - 1)
  <2>1. CASE Follows
    <3>1. Streams(serverState, frames, wire, 0, Taken) /\ subscribed /\ ~terminal
      BY <2>1 DEF Follows
    <3>2. serverState = "unreachable" /\ Len(wire) = 1
      <4>1. wire # <<>> /\ wire \in Seq(Messages) /\ wire[1].kind = "close"
        BY <1>1, <1>2
      <4>2. QED
        BY <1>5, <3>1, <4>1, StreamsNext, ZenonT(30)
    <3>3. QED
      BY <3>1, <3>2
  <2>2. CASE LostEarly
    BY <2>2 DEF LostEarly, CanInv, ConnectionInv
  <2>3. CASE Told
    BY <2>3 DEF Told, Taken
  <2>4. QED
    BY <1>3, <2>1, <2>2, <2>3
<1>7. wire' = <<>>
  BY <1>2, <1>6
<1>8. /\ PendingInv' /\ ShownInv' /\ PassedInv'
      /\ last' = Taken /\ pending' = <<>> /\ initialized' = initialized
      /\ last' \in -1 .. MaxFrames - 1 /\ framesPassedWhileFrozen' \in 0 .. MaxFrames
      /\ currentFrames' \in Seq(Int) /\ Len(currentFrames') <= Capacity
      /\ displayedFrames' \in Seq(Int) /\ Len(displayedFrames') <= Capacity
      /\ Len(pending') <= Capacity /\ pending' \in Seq(Int)
      /\ streamWarning' \in BOOLEAN /\ animationFrame' = FALSE
  BY <1>1, <1>4, FlushKeeps
<1>9. TypesInv'
  <2>1. error' \in BOOLEAN
    BY <1>4
  <2>2. QED
    BY <1>2, <1>4, <1>8, <2>1 DEF CanInv, TypesInv, TypeOK
<1>10. ConnectionInv'
  <2>1. Closed'
    BY <1>4, <1>6, <1>7, <1>8 DEF Closed
  <2>2. ~initialized' => ~terminal'
    BY <1>4, <1>8 DEF CanInv, ConnectionInv
  <2>3. QED
    BY <2>1, <2>2 DEF ConnectionInv
<1>11. QED
  BY <1>8, <1>9, <1>10 DEF CanInv

\* The connection sees of a flush only that nothing is taken back.
LEMMA ConnectionUnchanged ==
  ASSUME CanInv, UNCHANGED <<server, wire, connection, serviceState, initialized>>,
         Taken' = Taken,
         Told \/ Closed => last' = last /\ pending' = <<>>
  PROVE  ConnectionInv'
<1>1. UNCHANGED <<frames, serverState, subscribed, wire, connectionState, error, terminal,
                  serviceState, initialized>>
  BY DEF server, connection
<1>2. CASE NotSubscribed
  BY <1>1, <1>2 DEF CanInv, ConnectionInv, NotSubscribed
<1>3. CASE AwaitsSnapshot
  <2>1. AwaitsSnapshot'
    BY <1>1, <1>3 DEF AwaitsSnapshot
  <2>2. QED
    BY <1>1, <2>1 DEF CanInv, ConnectionInv
<1>4. CASE Follows
  <2>1. Follows'
    BY <1>1, <1>4 DEF Follows
  <2>2. QED
    BY <1>1, <2>1 DEF CanInv, ConnectionInv
<1>5. CASE LostEarly
  BY <1>1, <1>5 DEF CanInv, ConnectionInv, LostEarly
<1>6. CASE Told
  BY <1>1, <1>6 DEF CanInv, ConnectionInv, Told
<1>7. CASE Closed
  BY <1>1, <1>7 DEF CanInv, ConnectionInv, Closed
<1>8. QED
  BY <1>2, <1>3, <1>4, <1>5, <1>6, <1>7 DEF CanInv, ConnectionInv

LEMMA AnimationFrameStep ==
  ASSUME CanInv, AnimationFrame
  PROVE  CanInv'
<1>1. /\ UNCHANGED <<server, wire, connection, serviceState>> /\ Flush
      /\ frames' = frames /\ frozen' = frozen /\ frozenAt' = frozenAt /\ dropped' = dropped
  BY DEF AnimationFrame, server
<1>2. /\ PendingInv' /\ ShownInv' /\ PassedInv'
      /\ Taken' = Taken /\ last' = Taken /\ pending' = <<>> /\ initialized' = initialized
      /\ last' \in -1 .. MaxFrames - 1 /\ framesPassedWhileFrozen' \in 0 .. MaxFrames
      /\ currentFrames' \in Seq(Int) /\ Len(currentFrames') <= Capacity
      /\ displayedFrames' \in Seq(Int) /\ Len(displayedFrames') <= Capacity
      /\ Len(pending') <= Capacity /\ pending' \in Seq(Int)
      /\ streamWarning' \in BOOLEAN /\ animationFrame' = FALSE
  BY <1>1, FlushKeeps
<1>3. TypesInv'
  BY <1>1, <1>2 DEF CanInv, TypesInv, TypeOK, server, connection
<1>4. Told \/ Closed => last' = last /\ pending' = <<>>
  BY <1>2 DEF Told, Closed, Taken
<1>5. ConnectionInv'
  BY <1>1, <1>2, <1>4, ConnectionUnchanged
<1>6. QED
  BY <1>2, <1>3, <1>5 DEF CanInv

LEMMA ToggleFreezeStep ==
  ASSUME CanInv, ToggleFreeze
  PROVE  CanInv'
<1>1. /\ frozen' = ~frozen /\ frozenAt' = last
      /\ displayedFrames' = IF frozen THEN currentFrames ELSE displayedFrames
      /\ framesPassedWhileFrozen' = IF frozen THEN 0 ELSE framesPassedWhileFrozen
      /\ UNCHANGED <<server, wire, connection, serviceState, currentFrames, messages, last,
                     streamWarning, initialized, refs, dropped>>
  BY DEF ToggleFreeze
<1>2. /\ frames' = frames /\ pending' = pending /\ dropped' = dropped /\ last' = last
      /\ initialized' = initialized /\ currentFrames' = currentFrames
  BY <1>1 DEF server, refs
<1>3. Taken' = Taken
  BY <1>2 DEF Taken
<1>4. TypesInv'
  <2>1. last' \in -1 .. MaxFrames - 1 /\ frozenAt' \in -1 .. MaxFrames - 1
        /\ framesPassedWhileFrozen' \in 0 .. MaxFrames
    BY <1>1, <1>2, CanAssumption DEF CanInv, TypesInv, TypeOK
  <2>2. displayedFrames' \in Seq(Int) /\ Len(displayedFrames') <= Capacity
    BY <1>1 DEF CanInv, TypesInv, TypeOK
  <2>3. frozen' \in BOOLEAN
    BY <1>1
  <2>4. QED
    BY <1>1, <2>1, <2>2, <2>3 DEF CanInv, TypesInv, TypeOK, server, connection, refs
<1>5. PendingInv'
  BY <1>2, <1>3 DEF CanInv, PendingInv
<1>6. ShownInv'
  BY <1>1, <1>2 DEF CanInv, ShownInv
<1>7. PassedInv'
  <2>1. CASE frozen
    BY <1>1, <2>1 DEF PassedInv
  <2>2. CASE ~frozen
    <3>1. framesPassedWhileFrozen' = 0 /\ last' = last /\ frozenAt' = last /\ frozen'
      BY <1>1, <1>2, <2>2 DEF CanInv, PassedInv
    <3>2. last \in Int
      BY TakenInt DEF CanInv
    <3>3. QED
      BY <3>1, <3>2 DEF PassedInv
  <2>3. QED
    BY <2>1, <2>2
<1>8. ConnectionInv'
  <2>1. Told \/ Closed => last' = last /\ pending' = <<>>
    BY <1>2 DEF Told, Closed
  <2>2. QED
    BY <1>1, <1>2, <1>3, <2>1, ConnectionUnchanged
<1>9. QED
  BY <1>4, <1>5, <1>6, <1>7, <1>8 DEF CanInv

LEMMA StutterStep ==
  ASSUME CanInv, UNCHANGED vars
  PROVE  CanInv'
<1>1. UNCHANGED <<frames, serverState, subscribed, wire, connectionState, error, terminal,
                  serviceState, currentFrames, displayedFrames, messages, last,
                  framesPassedWhileFrozen, streamWarning, initialized, frozen, pending,
                  animationFrame, dropped, frozenAt>>
  BY DEF vars, server, connection, buffers, refs
<1>2. Taken' = Taken
  BY <1>1 DEF Taken
<1>3. TypesInv'
  BY <1>1 DEF CanInv, TypesInv, TypeOK
<1>4. PendingInv' /\ ShownInv' /\ PassedInv'
  BY <1>1, <1>2 DEF CanInv, PendingInv, ShownInv, PassedInv
<1>5. ConnectionInv'
  <2>1. UNCHANGED <<server, wire, connection, serviceState, initialized>>
    BY <1>1 DEF server, connection
  <2>2. Told \/ Closed => last' = last /\ pending' = <<>>
    BY <1>1 DEF Told, Closed
  <2>3. QED
    BY <1>2, <2>1, <2>2, ConnectionUnchanged
<1>6. QED
  BY <1>3, <1>4, <1>5 DEF CanInv

-----------------------------------------------------------------------------
\* The theorems.

\* Every step of the server, the connection and the page keeps the invariant.
LEMMA InvariantHolds == Spec => []CanInv
<1>1. Init => CanInv
  BY InitHolds
<1>2. CanInv /\ [Next]_vars => CanInv'
  BY AcceptStep, PublishStep, EndStep, BreakStep, OnSnapshotStep, OnFrameStep, OnSourceStateStep,
     OnCloseStep, AnimationFrameStep, ToggleFreezeStep, StutterStep DEF Next
<1>3. QED
  BY <1>1, <1>2, PTL DEF Spec

\* The state of the page has the types of state.ts, and no buffer outgrows the
\* capacity of the page.
THEOREM CanClientTypesHold == Spec => []TypeOK
<1>1. CanInv => TypeOK
  BY DEF CanInv, TypesInv
<1>2. QED
  BY <1>1, InvariantHolds, PTL

\* The buffer holds the newest frames up to the last one taken in, without a
\* hole, even when a burst has overflowed the waiting queue of the provider.
THEOREM BufferIsNewestWindowHolds == Spec => []BufferIsNewestWindow
<1>1. CanInv => BufferIsNewestWindow
  <2>1. ASSUME CanInv
        PROVE  currentFrames = Newest(FramesBetween(0, last), Capacity)
    <3>1. currentFrames \in Seq(Int) /\ IsWindow(currentFrames, last)
      BY <2>1 DEF CanInv, TypesInv, ShownInv
    <3>2. last \in Int /\ last >= -1
      BY <2>1, TakenInt DEF CanInv
    <3>3. QED
      BY <3>1, <3>2, WindowIs
  <2>2. QED
    BY <2>1 DEF BufferIsNewestWindow
<1>2. QED
  BY <1>1, InvariantHolds, PTL

\* The counter of the frozen view is exactly the frames that have passed since
\* the view was frozen, those the waiting queue dropped included.
THEOREM PassedFramesExactHolds == Spec => []PassedFramesExact
<1>1. CanInv => PassedFramesExact
  BY DEF CanInv, PassedInv, PassedFramesExact
<1>2. QED
  BY <1>1, InvariantHolds, PTL

\* A page that shows the end of the connection without an error has shown the
\* last frame of the source: the end flushes what still waits.
THEOREM CleanEndShowsAllHolds == Spec => []CleanEndShowsAll
<1>1. CanInv => CleanEndShowsAll
  <2>1. ASSUME CanInv, connectionState = "disconnected", ~error
        PROVE  serviceState = "completed" /\ last = frames - 1 /\ pending = <<>>
    <3>1. Closed
      BY <2>1 DEF CanInv, ConnectionInv, NotSubscribed, AwaitsSnapshot, Follows, LostEarly, Told
    <3>2. QED
      BY <2>1, <3>1 DEF Closed
  <2>2. QED
    BY <2>1 DEF CleanEndShowsAll
<1>2. QED
  BY <1>1, InvariantHolds, PTL
=============================================================================
