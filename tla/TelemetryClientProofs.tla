------------------------ MODULE TelemetryClientProofs ------------------------
(***************************************************************************)
(* The browser's telemetry state, for any number of frames, sources and      *)
(* broken connections.                                                      *)
(*                                                                         *)
(* The argument: the view is that of one source after some frame, the        *)
(* queued updates continue there, and what the socket has yet to deliver      *)
(* continues behind them, unless a snapshot comes first and then nothing is   *)
(* queued (ClientInv).  A closing socket, an effect that runs again and the   *)
(* late close of an earlier socket flush the queue, which changes nothing in  *)
(* this relation.                                                          *)
(***************************************************************************)
EXTENDS TelemetryClient, FiniteSetTheorems, WellFoundedInduction, TLAPS

-----------------------------------------------------------------------------
\* Numbers.

LEMMA LeastIndex ==
  ASSUME NEW T \in SUBSET Nat, T # {}
  PROVE  \E m \in T : \A k \in T : m <= k
<1>1. PICK m \in T : \A k \in T : ~ (<<k, m>> \in OpToRel(<, Nat))
  BY WFMin, NatLessThanWellFounded
<1>2. \A k \in T : ~(k < m)
  BY <1>1 DEF OpToRel
<1>3. QED
  BY <1>2

LEMMA MaxIs ==
  ASSUME NEW S \in SUBSET Int, NEW x \in S, \A y \in S : x >= y
  PROVE  Max(S) = x
<1>1. Max(S) \in S /\ \A y \in S : Max(S) >= y
  BY Zenon DEF Max
<1>2. Max(S) \in Int /\ x \in Int /\ Max(S) >= x /\ x >= Max(S)
  BY <1>1
<1>3. QED
  BY <1>2

-----------------------------------------------------------------------------
\* The reducer.

Frame == 0 .. MaxFrames - 1

\* The state of the reducer after frame l of source s.
ViewAt(s, l, b) ==
  [samples |-> SamplesAfter(s, l + 1), last |-> l, total |-> l + 1,
   counts |-> CountsAfter(l + 1), warning |-> FALSE, initialized |-> b]

LEMMA LatestNext ==
  ASSUME NEW m, NEW n \in Frame
  PROVE  LatestFrame(m, n + 1) = IF MessageOf[n] = m THEN n ELSE LatestFrame(m, n)
<1> DEFINE S == {None} \cup {k \in 0 .. n : MessageOf[k] = m}
<1>1. n \in Nat /\ n + 1 - 1 = n
  BY BoundsAssumption DEF Frame
<1>2. LatestFrame(m, n + 1) = Max(S)
  BY <1>1 DEF LatestFrame
<1>3. CASE MessageOf[n] = m
  <2>1. S \in SUBSET Int /\ n \in S /\ \A y \in S : n >= y
    BY <1>1, <1>3 DEF None
  <2> HIDE DEF S
  <2>2. Max(S) = n
    BY <2>1, MaxIs
  <2>3. QED
    BY <1>2, <1>3, <2>2
<1>4. CASE MessageOf[n] # m
  <2>1. S = {None} \cup {k \in 0 .. n - 1 : MessageOf[k] = m}
    BY <1>1, <1>4
  <2>2. QED
    BY <1>2, <1>4, <2>1 DEF LatestFrame
<1>5. QED
  BY <1>3, <1>4

LEMMA CountNext ==
  ASSUME NEW m, NEW n \in Frame
  PROVE  Cardinality({k \in 0 .. n : MessageOf[k] = m})
           = Cardinality({k \in 0 .. n - 1 : MessageOf[k] = m})
             + (IF MessageOf[n] = m THEN 1 ELSE 0)
<1> DEFINE S == {k \in 0 .. n - 1 : MessageOf[k] = m}
<1>1. n \in Nat
  BY BoundsAssumption DEF Frame
<1>2. IsFiniteSet(S)
  <2>1. IsFiniteSet(0 .. n - 1)
    BY <1>1, FS_Interval
  <2>2. QED
    BY <2>1, FS_Subset
<1>3. n \notin S /\ Cardinality(S) \in Nat
  BY <1>1, <1>2, FS_CardinalityType
<1>4. CASE MessageOf[n] = m
  <2>1. {k \in 0 .. n : MessageOf[k] = m} = S \cup {n}
    BY <1>1, <1>4
  <2> HIDE DEF S
  <2>2. Cardinality(S \cup {n}) = Cardinality(S) + 1
    BY <1>2, <1>3, FS_AddElement
  <2>3. Cardinality({k \in 0 .. n : MessageOf[k] = m}) = Cardinality(S) + 1
    BY <2>1, <2>2, Zenon
  <2>4. (IF MessageOf[n] = m THEN 1 ELSE 0) = 1
    BY <1>4
  <2>5. QED
    BY <2>3, <2>4, Zenon DEF S
<1>5. CASE MessageOf[n] # m
  <2>1. {k \in 0 .. n : MessageOf[k] = m} = S
    BY <1>1, <1>5
  <2>2. (IF MessageOf[n] = m THEN 1 ELSE 0) = 0
    BY <1>5
  <2> HIDE DEF S
  <2>3. Cardinality({k \in 0 .. n : MessageOf[k] = m}) = Cardinality(S)
    BY <2>1, Zenon
  <2>4. Cardinality(S) = Cardinality(S) + 0
    BY <1>3
  <2>5. QED
    BY <2>2, <2>3, <2>4, Zenon DEF S
<1>6. QED
  BY <1>4, <1>5

\* One update that continues the view.
LEMMA UpdateShows ==
  ASSUME NEW s, NEW l \in Int, NEW b, NEW u, l + 1 \in Frame,
         u.source = s, u.n = l + 1
  PROVE  ApplyUpdate(ViewAt(s, l, b), u) = ViewAt(s, l + 1, TRUE)
<1> DEFINE n == l + 1
           v == ViewAt(s, l, b)
           m == MessageOf[n]
<1>1. n \in Nat /\ n \in Int /\ n \in 0 .. MaxFrames - 1 /\ l = n - 1 /\ l >= -1
  BY BoundsAssumption DEF Frame
<1>2. m \in Messages
  BY <1>1, MessageAssumption
<1>3. ~(v.last # None /\ n <= v.last) /\ ~(v.last # None /\ n # v.last + 1)
  BY <1>1 DEF ViewAt
<1>4. ApplyUpdate(v, u) =
        [v EXCEPT !.samples[m] = <<s, n>>, !.last = n, !.total = Max({n + 1, n + 1}),
                  !.counts[m] = @ + 1, !.warning = FALSE, !.initialized = TRUE]
  BY <1>1, <1>3 DEF ApplyUpdate, ViewAt
<1>5. Max({n + 1, n + 1}) = n + 1
  BY <1>1, MaxIs
<1>6. [SamplesAfter(s, n) EXCEPT ![m] = <<s, n>>] = SamplesAfter(s, n + 1)
  <2>1. \A x \in Messages : LatestFrame(x, n + 1) = IF m = x THEN n ELSE LatestFrame(x, n)
    BY LatestNext
  <2>2. n # None
    BY <1>1 DEF None
  <2>3. QED
    BY <2>1, <2>2 DEF SamplesAfter
<1>7. [CountsAfter(n) EXCEPT ![m] = @ + 1] = CountsAfter(n + 1)
  <2>1. n + 1 - 1 = n
    BY <1>1
  <2>2. \A x \in Messages : Cardinality({k \in 0 .. n - 1 : MessageOf[k] = x}) \in Nat
    <3> SUFFICES ASSUME NEW x \in Messages
                 PROVE Cardinality({k \in 0 .. n - 1 : MessageOf[k] = x}) \in Nat
      OBVIOUS
    <3>1. IsFiniteSet(0 .. n - 1)
      BY <1>1, FS_Interval
    <3>2. QED
      BY <3>1, FS_Subset, FS_CardinalityType
  <2>3. \A x \in Messages :
          Cardinality({k \in 0 .. n : MessageOf[k] = x})
            = Cardinality({k \in 0 .. n - 1 : MessageOf[k] = x}) + (IF m = x THEN 1 ELSE 0)
    BY CountNext, ZenonT(20)
  <2> DEFINE c == CountsAfter(n)
             d == CountsAfter(n + 1)
  <2>4. c = [x \in Messages |-> c[x]] /\ d = [x \in Messages |-> d[x]]
    BY DEF CountsAfter
  <2>5. ASSUME NEW x \in Messages
        PROVE  c[x] \in Nat /\ d[x] = c[x] + (IF m = x THEN 1 ELSE 0)
    <3>1. /\ c[x] = Cardinality({k \in 0 .. n - 1 : MessageOf[k] = x})
          /\ d[x] = Cardinality({k \in 0 .. n : MessageOf[k] = x})
      BY <2>1 DEF CountsAfter
    <3>2. QED
      BY <2>2, <2>3, <3>1
  <2> HIDE DEF c, d, m, n
  <2>6. [c EXCEPT ![m] = @ + 1] = d
    <3>1. [c EXCEPT ![m] = @ + 1] = [x \in Messages |-> IF x = m THEN c[m] + 1 ELSE c[x]]
      BY <2>4
    <3>2. \A x \in Messages : d[x] = IF x = m THEN c[m] + 1 ELSE c[x]
      BY <2>5
    <3>3. QED
      BY <2>4, <3>1, <3>2
  <2>7. QED
    BY <2>6 DEF c, d
<1>8. v = [samples |-> SamplesAfter(s, n), last |-> l, total |-> n, counts |-> CountsAfter(n),
           warning |-> FALSE, initialized |-> b]
  BY DEF ViewAt
<1> HIDE DEF m, n, v
<1>9. ApplyUpdate(v, u) =
        [samples |-> [SamplesAfter(s, n) EXCEPT ![m] = <<s, n>>], last |-> n,
         total |-> Max({n + 1, n + 1}), counts |-> [CountsAfter(n) EXCEPT ![m] = @ + 1],
         warning |-> FALSE, initialized |-> TRUE]
  <2>1. PICK A : A = SamplesAfter(s, n)
    OBVIOUS
  <2>2. PICK C : C = CountsAfter(n)
    OBVIOUS
  <2>3. PICK t : t = Max({n + 1, n + 1})
    OBVIOUS
  <2>4. v = [samples |-> A, last |-> l, total |-> n, counts |-> C,
             warning |-> FALSE, initialized |-> b]
    BY <1>8, <2>1, <2>2
  <2>5. ApplyUpdate(v, u) =
          [v EXCEPT !.samples[m] = <<s, n>>, !.last = n, !.total = t,
                    !.counts[m] = @ + 1, !.warning = FALSE, !.initialized = TRUE]
    BY <1>4, <2>3
  <2>6. ApplyUpdate(v, u) =
          [samples |-> [A EXCEPT ![m] = <<s, n>>], last |-> n, total |-> t,
           counts |-> [C EXCEPT ![m] = @ + 1], warning |-> FALSE, initialized |-> TRUE]
    BY <2>4, <2>5
  <2>7. QED
    BY <2>1, <2>2, <2>3, <2>6
<1>10. QED
  BY <1>5, <1>6, <1>7, <1>9 DEF ViewAt, n, v

\* What q holds continues frame l of source s.
Follows(q, s, l) == \A i \in 1 .. Len(q) : q[i].source = s /\ q[i].n = l + i /\ l + i \in Frame

\* flushUpdates shows the last queued update, with nothing skipped before it.
LEMMA FlushShows ==
  ASSUME NEW s, NEW l \in Int, NEW b, NEW q, Len(q) \in Nat, Follows(q, s, l)
  PROVE  Updated(ViewAt(s, l, b), q) = ViewAt(s, l + Len(q), IF Len(q) = 0 THEN b ELSE TRUE)
<1> DEFINE n == Len(q)
           v == ViewAt(s, l, b)
           g == [i \in 0 .. n |-> IF i = 0 THEN v ELSE ViewAt(s, l + i, TRUE)]
           Body(f) == [i \in 0 .. n |-> IF i = 0 THEN v ELSE ApplyUpdate(f[i - 1], q[i])]
           a == CHOOSE f : f = Body(f)
<1>1. Updated(v, q) = a[n]
  BY DEF Updated
<1>2. n \in Nat
  OBVIOUS
<1>g. g = [i \in 0 .. n |-> g[i]] /\ \A i \in 0 .. n : g[i] = IF i = 0 THEN v ELSE ViewAt(s, l + i, TRUE)
  OBVIOUS
<1> HIDE DEF v, g
<1>3. ASSUME NEW i \in 1 .. n
      PROVE  /\ ApplyUpdate(ViewAt(s, l + i - 1, TRUE), q[i]) = ViewAt(s, l + i, TRUE)
             /\ i = 1 => ApplyUpdate(v, q[i]) = ViewAt(s, l + i, TRUE)
  <2>1. PICK k \in Int : k = l + i - 1
    BY <1>2
  <2>2. k + 1 = l + i /\ q[i].source = s /\ q[i].n = k + 1 /\ k + 1 \in Frame
    BY <1>2, <2>1 DEF Follows
  <2>3. \A c : ApplyUpdate(ViewAt(s, k, c), q[i]) = ViewAt(s, k + 1, TRUE)
    BY <2>2, UpdateShows, ZenonT(20)
  <2>4. i = 1 => k = l
    BY <2>1
  <2>5. QED
    BY <2>1, <2>2, <2>3, <2>4 DEF v
<1>4. g = Body(g)
  <2>1. ASSUME NEW i \in 1 .. n
        PROVE  ApplyUpdate(g[i - 1], q[i]) = ViewAt(s, l + i, TRUE)
    <3>1. CASE i = 1
      <4>1. g[i - 1] = v
        BY <1>2, <1>g, <3>1
      <4>2. QED
        BY <1>3, <3>1, <4>1
    <3>2. CASE i # 1
      <4>1. i - 1 \in 0 .. n /\ i - 1 # 0 /\ l + (i - 1) = l + i - 1
        BY <1>2, <3>2
      <4>2. g[i - 1] = ViewAt(s, l + i - 1, TRUE)
        BY <1>g, <4>1
      <4>3. ApplyUpdate(ViewAt(s, l + i - 1, TRUE), q[i]) = ViewAt(s, l + i, TRUE)
        BY <1>3
      <4>4. QED
        BY <4>2, <4>3, Zenon
    <3>3. QED
      BY <3>1, <3>2
  <2>2. \A i \in 0 .. n : i = 0 \/ i \in 1 .. n
    BY <1>2
  <2>3. \A i \in 0 .. n : g[i] = IF i = 0 THEN v ELSE ApplyUpdate(g[i - 1], q[i])
    BY <1>g, <2>1, <2>2
  <2>4. QED
    BY <1>g, <2>3
<1>5. a = Body(a)
  BY <1>4
<1> HIDE DEF a
<1>6. \A i \in 0 .. n : a[i] = g[i]
  <2> DEFINE T2 == {i \in 0 .. n : a[i] # g[i]}
  <2> SUFFICES ASSUME T2 # {} PROVE FALSE
    OBVIOUS
  <2>1. T2 \in SUBSET Nat
    <3>1. 0 .. n \subseteq Nat
      OBVIOUS
    <3>2. QED
      BY <3>1, Zenon
  <2>2. PICK m \in T2 : \A k \in T2 : m <= k
    <3> HIDE DEF T2
    <3>1. QED
      BY <2>1, LeastIndex
  <2>3. m \in 0 .. n /\ a[m] # g[m]
    BY <2>2
  <2>4. m # 0
    <3>1. 0 \in 0 .. n
      BY <1>2
    <3>2. a[0] = v /\ g[0] = v
      BY <1>5, <1>g, <3>1
    <3>3. QED
      BY <2>3, <3>2
  <2>5. m - 1 \in 0 .. n /\ ~(m <= m - 1)
    BY <1>2, <2>3, <2>4
  <2>6. a[m - 1] = g[m - 1]
    BY <2>2, <2>5
  <2>7. a[m] = ApplyUpdate(a[m - 1], q[m])
    BY <1>5, <2>3, <2>4
  <2>8. g[m] = ApplyUpdate(g[m - 1], q[m])
    BY <1>4, <2>3, <2>4
  <2>9. QED
    BY <2>3, <2>6, <2>7, <2>8
<1>7. CASE n = 0
  <2>1. l + n = l
    BY <1>7
  <2>2. a[n] = v
    BY <1>6, <1>7, <1>g
  <2>3. QED
    BY <1>1, <1>7, <2>1, <2>2 DEF v
<1>8. CASE n # 0
  <2>2. n \in 0 .. n
    BY <1>2
  <2>3. g[n] = ViewAt(s, l + n, TRUE)
    BY <1>8, <1>g, <2>2
  <2>4. a[n] = ViewAt(s, l + n, TRUE)
    BY <1>6, <2>2, <2>3, Zenon
  <2>5. QED
    BY <1>1, <1>8, <2>4 DEF v
<1>9. QED
  BY <1>7, <1>8

-----------------------------------------------------------------------------
\* What the socket has yet to deliver.

Kinds == {"snapshot", "update", "close"} \cup Ended
Deliveries == [kind : Kinds, source : 1 .. MaxSources, n : 0 .. MaxFrames]

\* In the operators below, src is the server's source, f its frames and sub
\* whether the socket has a subscription.

\* The updates of w continue frame l of source s, nothing follows the end of
\* the source, and a subscription leads up to the server's newest frame.
Continues(w, s, l, src, f, sub) ==
  /\ \A i \in 1 .. Len(w) :
       /\ w[i].kind # "snapshot"
       /\ w[i].kind = "update" =>
            /\ w[i].source = s /\ w[i].n = l + i /\ l + i \in Frame
            /\ s = src => l + i < f
            /\ \A j \in 1 .. i : w[j].kind = "update"
  /\ sub => /\ s = src /\ l + Len(w) + 1 = f
            /\ \A i \in 1 .. Len(w) : w[i].kind = "update"

\* A snapshot comes to an empty queue q; without one the deliveries continue
\* frame l of source s.
Stream(w, s, l, q, src, f, sub) ==
  IF w # <<>> /\ w[1].kind = "snapshot"
  THEN /\ q = <<>> /\ w[1].source \in 1 .. src
       /\ w[1].source = src => w[1].n <= f
       /\ Continues(Tail(w), w[1].source, w[1].n - 1, src, f, sub)
  ELSE Continues(w, s, l, src, f, sub)

\* The view is that of source s, and the queue continues it.
Shows(v, q, s, src, f) ==
  /\ s \in 1 .. src
  /\ v = ViewAt(s, v.last, v.initialized)
  /\ v.last \in -1 .. MaxFrames - 1
  /\ Follows(q, s, v.last)
  /\ s = src => v.last + Len(q) < f

ClientTypes ==
  /\ source \in 1 .. MaxSources /\ frames \in 0 .. MaxFrames
  /\ wire \in Seq(Deliveries) /\ pending \in Seq(Deliveries)
  /\ subscribed \in BOOLEAN
  /\ socket \in {"none", "connecting", "accepted", "open"}

\* Without a socket that has been accepted there is no subscription, and the
\* queue has been flushed.
SocketInv ==
  /\ socket \in {"none", "connecting"} => ~subscribed /\ pending = <<>>
  /\ retryTimer => socket = "none"

ShownInv(s) ==
  /\ Shows(view, pending, s, source, frames)
  /\ socket \in {"accepted", "open"} =>
       Stream(wire, s, view.last + Len(pending), pending, source, frames, subscribed)

ClientInv == ClientTypes /\ SocketInv /\ \E s \in 1 .. source : ShownInv(s)

\* A new update reaches the socket of a subscription.
LEMMA ContinuesPublish ==
  ASSUME NEW w \in Seq(Deliveries), NEW s, NEW l \in Int, NEW src, NEW f \in Frame, NEW m,
         m.kind = "update", m.source = src, m.n = f,
         Continues(w, s, l, src, f, TRUE)
  PROVE  Continues(Append(w, m), s, l, src, f + 1, TRUE)
<1> DEFINE a == Append(w, m)
<1>1. /\ Len(a) = Len(w) + 1 /\ Len(w) \in Nat
      /\ \A i \in 1 .. Len(w) : a[i] = w[i]
      /\ a[Len(w) + 1] = m
  OBVIOUS
<1>2. /\ s = src /\ l + Len(w) + 1 = f /\ f \in Nat
      /\ \A i \in 1 .. Len(w) : w[i].kind = "update"
  BY BoundsAssumption DEF Continues, Frame
<1> HIDE DEF a
<1>3. \A i \in 1 .. Len(a) : a[i].kind = "update"
  BY <1>1, <1>2
<1>4. ASSUME NEW i \in 1 .. Len(a)
      PROVE  a[i].source = s /\ a[i].n = l + i /\ l + i \in Frame /\ l + i < f + 1
  <2>1. CASE i \in 1 .. Len(w)
    <3>1. w[i].source = s /\ w[i].n = l + i /\ l + i \in Frame /\ l + i < f
      BY <1>2, <2>1 DEF Continues
    <3>2. QED
      BY <1>1, <1>2, <2>1, <3>1
  <2>2. CASE i = Len(w) + 1
    <3>1. l + i = f
      BY <1>1, <1>2, <2>2
    <3>2. QED
      BY <1>1, <1>2, <2>2, <3>1
  <2>3. QED
    BY <1>1, <2>1, <2>2
<1>5. l + Len(a) + 1 = f + 1
  BY <1>1, <1>2
<1>6. \A i \in 1 .. Len(a) : \A j : j \in 1 .. i => a[j].kind = "update"
  BY <1>1, <1>3
<1>7. Continues(a, s, l, src, f + 1, TRUE)
  BY <1>2, <1>3, <1>4, <1>5, <1>6 DEF Continues
<1>8. QED
  BY <1>7 DEF a

\* Without a subscription the server's frames only move away from what waits.
LEMMA ContinuesBehind ==
  ASSUME NEW w, NEW s, NEW l \in Int, NEW src, NEW f \in Int,
         Continues(w, s, l, src, f, FALSE), Len(w) \in Nat
  PROVE  Continues(w, s, l, src, f + 1, FALSE)
<1>1. \A i \in 1 .. Len(w) : l + i < f => l + i < f + 1
  OBVIOUS
<1>2. QED
  BY <1>1 DEF Continues

\* A replay takes the place of a source that has ended.
LEMMA ContinuesOld ==
  ASSUME NEW w, NEW s \in Int, NEW l \in Int, NEW src \in Int, NEW f, s <= src,
         Continues(w, s, l, src, f, FALSE)
  PROVE  Continues(w, s, l, src + 1, 0, FALSE)
<1>1. s # src + 1
  OBVIOUS
<1>2. QED
  BY <1>1 DEF Continues

\* The deliveries are cut and the end or a closure put behind them.
LEMMA ContinuesCut ==
  ASSUME NEW w, NEW x, NEW k \in 0 .. Len(w), Len(w) \in Nat, Len(x) \in Nat,
         NEW s, NEW l \in Int, NEW src, NEW f, NEW sub,
         \A i \in 1 .. Len(x) :
           IF i <= k THEN x[i] = w[i] ELSE x[i].kind \notin {"snapshot", "update"},
         Continues(w, s, l, src, f, sub)
  PROVE  Continues(x, s, l, src, f, FALSE)
<1> SUFFICES ASSUME NEW i \in 1 .. Len(x)
             PROVE  /\ x[i].kind # "snapshot"
                    /\ x[i].kind = "update" =>
                         /\ x[i].source = s /\ x[i].n = l + i /\ l + i \in Frame
                         /\ s = src => l + i < f
                         /\ \A j \in 1 .. i : x[j].kind = "update"
  BY DEF Continues
<1>1. CASE i > k
  <2>1. x[i].kind \notin {"snapshot", "update"}
    BY <1>1
  <2>2. QED
    BY <2>1
<1>2. CASE i <= k
  <2>1. i \in 1 .. Len(w) /\ x[i] = w[i]
    BY <1>2
  <2>2. \A j \in 1 .. i : x[j] = w[j]
    BY <1>2
  <2>3. QED
    BY <2>1, <2>2 DEF Continues
<1>3. QED
  BY <1>1, <1>2

\* The socket hands on an update.
LEMMA ContinuesUpdate ==
  ASSUME NEW w \in Seq(Deliveries), w # <<>>, NEW s, NEW l \in Int, NEW src, NEW f, NEW sub,
         Continues(w, s, l, src, f, sub), w[1].kind = "update"
  PROVE  /\ Continues(Tail(w), s, l + 1, src, f, sub)
         /\ w[1].source = s /\ w[1].n = l + 1 /\ l + 1 \in Frame
         /\ s = src => l + 1 < f
<1> DEFINE t == Tail(w)
<1>1. /\ Len(w) \in Nat /\ 1 \in 1 .. Len(w) /\ Len(t) = Len(w) - 1 /\ Len(t) \in Nat
      /\ \A i \in 1 .. Len(t) : i + 1 \in 1 .. Len(w) /\ t[i] = w[i + 1]
  OBVIOUS
<1> HIDE DEF t
<1>2. w[1].source = s /\ w[1].n = l + 1 /\ l + 1 \in Frame /\ (s = src => l + 1 < f)
  BY <1>1 DEF Continues
<1>3. ASSUME NEW i \in 1 .. Len(t)
      PROVE  /\ t[i].kind # "snapshot"
             /\ t[i].kind = "update" =>
                  /\ t[i].source = s /\ t[i].n = l + 1 + i /\ l + 1 + i \in Frame
                  /\ s = src => l + 1 + i < f
                  /\ \A j \in 1 .. i : t[j].kind = "update"
             /\ sub => t[i].kind = "update"
  <2>1. PICK k \in 1 .. Len(w) : k = i + 1 /\ t[i] = w[k] /\ l + 1 + i = l + k
    BY <1>1
  <2>2. /\ w[k].kind # "snapshot"
        /\ w[k].kind = "update" =>
             /\ w[k].source = s /\ w[k].n = l + k /\ l + k \in Frame
             /\ s = src => l + k < f
             /\ \A j \in 1 .. k : w[j].kind = "update"
        /\ sub => w[k].kind = "update"
    BY DEF Continues
  <2>3. \A j \in 1 .. i : j + 1 \in 1 .. k /\ t[j] = w[j + 1]
    <3>1. k = i + 1 /\ i \in 1 .. Len(t) /\ Len(t) \in Nat
      BY <1>1, <2>1
    <3>2. \A j \in 1 .. i : j \in 1 .. Len(t) /\ j + 1 \in 1 .. k
      BY <3>1
    <3>3. QED
      BY <1>1, <3>2, Zenon
  <2>4. QED
    BY <2>1, <2>2, <2>3
<1>4. sub => s = src /\ l + 1 + Len(t) + 1 = f
  BY <1>1 DEF Continues
<1>5. QED
  BY <1>2, <1>3, <1>4 DEF Continues, t

\* The socket hands on the end of a source or closes: no update waits behind.
LEMMA ContinuesEnd ==
  ASSUME NEW w \in Seq(Deliveries), w # <<>>, NEW s, NEW l \in Int, NEW src, NEW f, NEW sub,
         Continues(w, s, l, src, f, sub), w[1].kind # "update", sub \in BOOLEAN
  PROVE  Continues(Tail(w), s, l, src, f, sub) /\ ~sub
<1> DEFINE t == Tail(w)
<1>1. /\ Len(w) \in Nat /\ 1 \in 1 .. Len(w) /\ Len(t) = Len(w) - 1 /\ Len(t) \in Nat
      /\ \A i \in 1 .. Len(t) : i + 1 \in 1 .. Len(w) /\ t[i] = w[i + 1] /\ 1 \in 1 .. i + 1
  OBVIOUS
<1> HIDE DEF t
<1>2. \A i \in 1 .. Len(w) : w[i].kind \notin {"snapshot", "update"}
  <2> SUFFICES ASSUME NEW i \in 1 .. Len(w) PROVE w[i].kind \notin {"snapshot", "update"}
    OBVIOUS
  <2>1. w[i].kind # "snapshot" /\ (w[i].kind = "update" => \A j \in 1 .. i : w[j].kind = "update")
    BY DEF Continues
  <2>2. 1 \in 1 .. i
    BY <1>1
  <2>3. QED
    BY <2>1, <2>2
<1>3. ~sub
  BY <1>1 DEF Continues
<1>4. \A i \in 1 .. Len(t) : t[i].kind \notin {"snapshot", "update"}
  BY <1>1, <1>2
<1>5. QED
  BY <1>3, <1>4 DEF Continues, t

-----------------------------------------------------------------------------
\* The same for a socket whose snapshot may still be on the way.

LEMMA Behind ==
  ASSUME NEW w \in Seq(Deliveries), w # <<>>
  PROVE  /\ Tail(w) \in Seq(Deliveries) /\ w[1] \in Deliveries
         /\ Head(w) = w[1]
         /\ w[1].source \in Int /\ w[1].n \in Int /\ w[1].n - 1 \in Int
         /\ Len(w) \in Nat
<1>1. Len(w) \in Nat /\ Tail(w) \in Seq(Deliveries) /\ w[1] \in Deliveries /\ Head(w) = w[1]
  OBVIOUS
<1>2. w[1].source \in 1 .. MaxSources /\ w[1].n \in 0 .. MaxFrames
  BY <1>1 DEF Deliveries
<1>3. QED
  BY <1>1, <1>2, BoundsAssumption

LEMMA StreamPublish ==
  ASSUME NEW w \in Seq(Deliveries), NEW s, NEW l \in Int, NEW q, NEW src, NEW f \in Frame,
         NEW m \in Deliveries, m.kind = "update", m.source = src, m.n = f,
         Stream(w, s, l, q, src, f, TRUE)
  PROVE  Stream(Append(w, m), s, l, q, src, f + 1, TRUE)
<1> DEFINE a == Append(w, m)
<1>1. a # <<>>
  <2>1. Len(a) = Len(w) + 1 /\ Len(w) \in Nat
    OBVIOUS
  <2>2. Len(a) # 0
    BY <2>1
  <2> HIDE DEF a
  <2>3. QED
    BY <2>2
<1>2. CASE w # <<>> /\ w[1].kind = "snapshot"
  <2>1. a[1] = w[1] /\ Tail(a) = Append(Tail(w), m)
    BY <1>2
  <2>2. /\ q = <<>> /\ w[1].source \in 1 .. src
        /\ w[1].source = src => w[1].n <= f
        /\ Continues(Tail(w), w[1].source, w[1].n - 1, src, f, TRUE)
    BY <1>2 DEF Stream
  <2>3. Continues(Append(Tail(w), m), w[1].source, w[1].n - 1, src, f + 1, TRUE)
    BY <1>2, <2>2, Behind, ContinuesPublish
  <2>4. w[1].n \in Int /\ f \in Int
    <3>1. f \in Int
      BY BoundsAssumption DEF Frame
    <3>2. QED
      BY <1>2, <3>1, Behind
  <2>5. w[1].source = src => w[1].n <= f + 1
    <3>1. w[1].n <= f => w[1].n <= f + 1
      BY <2>4
    <3>2. QED
      BY <2>2, <3>1
  <2> HIDE DEF a
  <2>6. QED
    BY <1>1, <1>2, <2>1, <2>2, <2>3, <2>5 DEF Stream, a
<1>3. CASE ~(w # <<>> /\ w[1].kind = "snapshot")
  <2>1. Continues(w, s, l, src, f, TRUE)
    BY <1>3 DEF Stream
  <2>2. Continues(a, s, l, src, f + 1, TRUE)
    BY <2>1, ContinuesPublish
  <2>3. a[1].kind # "snapshot"
    BY <1>3
  <2> HIDE DEF a
  <2>4. QED
    BY <2>2, <2>3 DEF Stream, a
<1>4. QED
  BY <1>2, <1>3

LEMMA StreamBehind ==
  ASSUME NEW w \in Seq(Deliveries), NEW s, NEW l \in Int, NEW q, NEW src, NEW f \in Int,
         Stream(w, s, l, q, src, f, FALSE)
  PROVE  Stream(w, s, l, q, src, f + 1, FALSE)
<1>1. CASE w # <<>> /\ w[1].kind = "snapshot"
  <2>1. Continues(Tail(w), w[1].source, w[1].n - 1, src, f, FALSE)
    BY <1>1 DEF Stream
  <2>2. Tail(w) \in Seq(Deliveries) /\ Len(Tail(w)) \in Nat /\ w[1].n - 1 \in Int
    BY <1>1, Behind
  <2>3. Continues(Tail(w), w[1].source, w[1].n - 1, src, f + 1, FALSE)
    BY <2>1, <2>2, ContinuesBehind
  <2>4. w[1].n \in Int
    BY <1>1, Behind
  <2>5. w[1].n <= f => w[1].n <= f + 1
    BY <2>4
  <2>6. QED
    BY <1>1, <2>3, <2>5 DEF Stream
<1>2. CASE ~(w # <<>> /\ w[1].kind = "snapshot")
  <2>1. Continues(w, s, l, src, f, FALSE)
    BY <1>2 DEF Stream
  <2>2. Len(w) \in Nat
    OBVIOUS
  <2>3. Continues(w, s, l, src, f + 1, FALSE)
    BY <2>1, <2>2, ContinuesBehind
  <2>4. QED
    BY <1>2, <2>3 DEF Stream
<1>3. QED
  BY <1>1, <1>2

LEMMA StreamOld ==
  ASSUME NEW w \in Seq(Deliveries), NEW src \in Int, NEW s \in 1 .. src, NEW l \in Int, NEW q, NEW f,
         Stream(w, s, l, q, src, f, FALSE)
  PROVE  Stream(w, s, l, q, src + 1, 0, FALSE)
<1>1. CASE w # <<>> /\ w[1].kind = "snapshot"
  <2>1. /\ Continues(Tail(w), w[1].source, w[1].n - 1, src, f, FALSE)
        /\ q = <<>> /\ w[1].source \in 1 .. src
    BY <1>1 DEF Stream
  <2>2. w[1].source \in Int /\ w[1].n - 1 \in Int /\ w[1].source <= src
    BY <1>1, <2>1, Behind
  <2>3. Continues(Tail(w), w[1].source, w[1].n - 1, src + 1, 0, FALSE)
    BY <2>1, <2>2, ContinuesOld
  <2>4. w[1].source \in 1 .. src + 1 /\ w[1].source # src + 1
    BY <2>1
  <2>5. QED
    BY <1>1, <2>1, <2>3, <2>4 DEF Stream
<1>2. CASE ~(w # <<>> /\ w[1].kind = "snapshot")
  <2>1. Continues(w, s, l, src, f, FALSE)
    BY <1>2 DEF Stream
  <2>2. s \in Int /\ s <= src
    OBVIOUS
  <2>3. Continues(w, s, l, src + 1, 0, FALSE)
    BY <2>1, <2>2, ContinuesOld
  <2>4. QED
    BY <1>2, <2>3 DEF Stream
<1>3. QED
  BY <1>1, <1>2

\* A source that ends, or a connection that breaks after k deliveries.
LEMMA StreamCut ==
  ASSUME NEW w \in Seq(Deliveries), NEW x \in Seq(Deliveries), NEW k \in 0 .. Len(w),
         k <= Len(x),
         NEW s, NEW l \in Int, NEW q, NEW src, NEW f, NEW sub,
         \A i \in 1 .. Len(x) :
           IF i <= k THEN x[i] = w[i] ELSE x[i].kind \notin {"snapshot", "update"},
         Stream(w, s, l, q, src, f, sub)
  PROVE  Stream(x, s, l, q, src, f, FALSE)
<1>0. Len(w) \in Nat /\ Len(x) \in Nat
  OBVIOUS
<1>1. CASE w # <<>> /\ w[1].kind = "snapshot" /\ k > 0
  <2>1. x # <<>> /\ 1 \in 1 .. Len(x) /\ x[1] = w[1]
    BY <1>0, <1>1
  <2>2. /\ q = <<>> /\ w[1].source \in 1 .. src
        /\ w[1].source = src => w[1].n <= f
        /\ Continues(Tail(w), w[1].source, w[1].n - 1, src, f, sub)
    BY <1>1 DEF Stream
  <2>3. w[1].n - 1 \in Int
    BY <1>1, Behind
  <2>4. /\ Len(Tail(w)) = Len(w) - 1 /\ Len(Tail(x)) = Len(x) - 1
        /\ \A i \in 1 .. Len(w) - 1 : Tail(w)[i] = w[i + 1]
        /\ \A i \in 1 .. Len(x) - 1 : Tail(x)[i] = x[i + 1]
    BY <1>1, <2>1
  <2>5. k - 1 \in 0 .. Len(Tail(w)) /\ Len(Tail(w)) \in Nat /\ Len(Tail(x)) \in Nat
    BY <1>0, <1>1, <2>1, <2>4
  <2>6. ASSUME NEW i \in 1 .. Len(Tail(x))
        PROVE  IF i <= k - 1 THEN Tail(x)[i] = Tail(w)[i]
               ELSE Tail(x)[i].kind \notin {"snapshot", "update"}
    <3>1. i + 1 \in 1 .. Len(x) /\ Tail(x)[i] = x[i + 1] /\ (i <= k - 1 <=> i + 1 <= k)
      BY <1>0, <2>4
    <3>2. i <= k - 1 => Tail(w)[i] = w[i + 1]
      BY <1>0, <2>4, <2>5
    <3>3. QED
      BY <3>1, <3>2
  <2>7. Continues(Tail(x), w[1].source, w[1].n - 1, src, f, FALSE)
    BY <2>2, <2>3, <2>5, <2>6, ContinuesCut
  <2>8. QED
    BY <1>1, <2>1, <2>2, <2>7 DEF Stream
<1>2. CASE w # <<>> /\ w[1].kind = "snapshot" /\ k = 0
  <2>1. \A i \in 1 .. Len(x) : x[i].kind \notin {"snapshot", "update"}
    BY <1>0, <1>2
  <2>2. Continues(x, s, l, src, f, FALSE)
    BY <2>1 DEF Continues
  <2>3. x # <<>> => x[1].kind # "snapshot"
    BY <1>0, <2>1
  <2>4. QED
    BY <2>2, <2>3 DEF Stream
<1>3. CASE ~(w # <<>> /\ w[1].kind = "snapshot")
  <2>1. Continues(w, s, l, src, f, sub)
    BY <1>3 DEF Stream
  <2>2. Continues(x, s, l, src, f, FALSE)
    BY <1>0, <2>1, ContinuesCut
  <2>3. x # <<>> => x[1].kind # "snapshot"
    BY <1>0, <2>2 DEF Continues
  <2>4. QED
    BY <2>2, <2>3 DEF Stream
<1>4. k > 0 \/ k = 0
  BY <1>0
<1>5. QED
  BY <1>1, <1>2, <1>3, <1>4

LEMMA ContinuesIsStream ==
  ASSUME NEW w \in Seq(Deliveries), NEW s, NEW l, NEW q, NEW src, NEW f, NEW sub,
         Continues(w, s, l, src, f, sub)
  PROVE  Stream(w, s, l, q, src, f, sub)
<1>1. w # <<>> => 1 \in 1 .. Len(w)
  OBVIOUS
<1>2. QED
  BY <1>1 DEF Continues, Stream

-----------------------------------------------------------------------------
\* The view.

LEMMA FlushedShows ==
  ASSUME NEW v, NEW q \in Seq(Deliveries), NEW s, NEW src, NEW f, Shows(v, q, s, src, f)
  PROVE  /\ Shows(Updated(v, q), <<>>, s, src, f)
         /\ Updated(v, q).last = v.last + Len(q)
         /\ v.last + Len(q) \in Int
<1>1. PICK l, b : l = v.last /\ b = v.initialized
  OBVIOUS
<1>2. /\ s \in 1 .. src /\ v = ViewAt(s, l, b) /\ l \in -1 .. MaxFrames - 1
      /\ Follows(q, s, l)
      /\ s = src => l + Len(q) < f
  BY <1>1 DEF Shows
<1>3. l \in Int /\ Len(q) \in Nat
  BY <1>2, BoundsAssumption
<1>4. PICK c : c = IF Len(q) = 0 THEN b ELSE TRUE
  OBVIOUS
<1>5. PICK k : k = l + Len(q)
  OBVIOUS
<1>6. Updated(v, q) = ViewAt(s, k, c)
  <2>1. Updated(ViewAt(s, l, b), q) = ViewAt(s, l + Len(q), IF Len(q) = 0 THEN b ELSE TRUE)
    BY <1>2, <1>3, FlushShows
  <2>2. QED
    BY <1>2, <1>4, <1>5, <2>1
<1>7. ViewAt(s, k, c).last = k /\ ViewAt(s, k, c).initialized = c
  BY DEF ViewAt
<1>8. k \in -1 .. MaxFrames - 1
  <2>1. CASE Len(q) = 0
    BY <1>2, <1>3, <1>5, <2>1
  <2>2. CASE Len(q) # 0
    <3>1. Len(q) \in 1 .. Len(q)
      BY <1>3, <2>2
    <3>2. k \in Frame
      BY <1>2, <1>5, <3>1 DEF Follows
    <3>3. QED
      BY <3>2, BoundsAssumption DEF Frame
  <2>3. QED
    BY <2>1, <2>2
<1>9. k + 0 = k /\ k \in Int
  BY <1>3, <1>5
<1>10. Follows(<<>>, s, k) /\ Len(<<>>) = 0
  BY DEF Follows
<1>11. Shows(ViewAt(s, k, c), <<>>, s, src, f)
  BY <1>2, <1>5, <1>7, <1>8, <1>9, <1>10 DEF Shows
<1>12. QED
  BY <1>1, <1>5, <1>6, <1>7, <1>9, <1>11

LEMMA SnapshotShows ==
  ASSUME NEW src, NEW s \in 1 .. src, NEW n \in 0 .. MaxFrames, NEW f \in Int,
         s = src => n <= f
  PROVE  /\ Shows(SnapshotView(s, n), <<>>, s, src, f)
         /\ SnapshotView(s, n).last + Len(<<>>) = n - 1
<1>1. PICK l : l = n - 1
  OBVIOUS
<1>2. l + 1 = n /\ l \in Int /\ l \in -1 .. MaxFrames - 1 /\ l + 0 = l /\ n \in Int
  BY <1>1, BoundsAssumption
<1>3. SnapshotView(s, n) = ViewAt(s, l, TRUE)
  BY <1>1, <1>2 DEF SnapshotView, ViewAt
<1>4. ViewAt(s, l, TRUE).last = l /\ ViewAt(s, l, TRUE).initialized = TRUE
  BY DEF ViewAt
<1>5. Follows(<<>>, s, l) /\ Len(<<>>) = 0
  BY DEF Follows
<1>6. s = src => l < f
  BY <1>1, <1>2
<1>7. Shows(ViewAt(s, l, TRUE), <<>>, s, src, f)
  BY <1>2, <1>4, <1>5, <1>6 DEF Shows
<1>8. QED
  BY <1>1, <1>2, <1>3, <1>4, <1>5, <1>7

LEMMA QueuedShows ==
  ASSUME NEW v, NEW q \in Seq(Deliveries), NEW s, NEW src, NEW f \in Int,
         Shows(v, q, s, src, f), NEW m \in Deliveries,
         m.source = s, m.n = v.last + Len(q) + 1, v.last + Len(q) + 1 \in Frame,
         s = src => v.last + Len(q) + 1 < f
  PROVE  /\ Shows(v, Append(q, m), s, src, f)
         /\ v.last + Len(Append(q, m)) = v.last + Len(q) + 1
<1>1. PICK l : l = v.last
  OBVIOUS
<1>2. PICK a : a = Append(q, m)
  OBVIOUS
<1>3. /\ Len(a) = Len(q) + 1 /\ Len(q) \in Nat
      /\ \A i \in 1 .. Len(q) : a[i] = q[i]
      /\ a[Len(q) + 1] = m
  BY <1>2
<1>4. l \in Int
  BY <1>1, BoundsAssumption DEF Shows
<1>5. l + Len(a) = l + Len(q) + 1 /\ l + (Len(q) + 1) = l + Len(q) + 1
  BY <1>3, <1>4
<1>6. Follows(a, s, l)
  <2> SUFFICES ASSUME NEW i \in 1 .. Len(a)
               PROVE a[i].source = s /\ a[i].n = l + i /\ l + i \in Frame
    BY DEF Follows
  <2>1. CASE i \in 1 .. Len(q)
    BY <1>1, <1>3, <2>1 DEF Shows, Follows
  <2>2. CASE i = Len(q) + 1
    BY <1>1, <1>3, <1>5, <2>2
  <2>3. QED
    BY <1>3, <2>1, <2>2
<1>7. QED
  BY <1>1, <1>2, <1>5, <1>6 DEF Shows

-----------------------------------------------------------------------------
\* The steps that only flush, or leave stream and view alone.

LEMMA Untouched ==
  ASSUME ClientInv,
         UNCHANGED <<source, frames, subscribed, wire, socket>>, retryTimer' => retryTimer,
         \/ UNCHANGED <<pending, view>>
         \/ Flush
  PROVE  ClientInv'
<1>1. PICK s \in 1 .. source : ShownInv(s)
  BY DEF ClientInv
<1>2. PICK l : l = view.last + Len(pending)
  OBVIOUS
<1>3. pending \in Seq(Deliveries)
  BY DEF ClientInv, ClientTypes
<1>4. /\ pending' \in {pending, <<>>}
      /\ Shows(view', pending', s, source, frames)
      /\ view'.last + Len(pending') = l
  <2>1. CASE UNCHANGED <<pending, view>>
    BY <1>1, <1>2, <2>1 DEF ShownInv
  <2>2. CASE Flush
    <3>1. /\ Shows(Updated(view, pending), <<>>, s, source, frames)
          /\ Updated(view, pending).last = l /\ l \in Int
      BY <1>1, <1>2, <1>3, FlushedShows DEF ShownInv
    <3>2. view' = Updated(view, pending) /\ pending' = <<>>
      BY <2>2 DEF Flush
    <3>3. Len(<<>>) = 0 /\ l + 0 = l
      BY <3>1
    <3>4. QED
      BY <3>1, <3>2, <3>3
  <2>3. QED
    BY <2>1, <2>2
<1>5. socket \in {"accepted", "open"} =>
        Stream(wire, s, l, pending', source, frames, subscribed)
  BY <1>1, <1>2, <1>4 DEF ShownInv, Stream
<1>6. ShownInv(s)'
  BY <1>4, <1>5 DEF ShownInv
<1>7. ClientTypes' /\ SocketInv'
  <2>1. pending' \in Seq(Deliveries)
    <3>1. <<>> \in Seq(Deliveries)
      OBVIOUS
    <3>2. QED
      BY <1>3, <1>4, <3>1, Zenon
  <2>2. QED
    BY <1>4, <2>1 DEF ClientInv, ClientTypes, SocketInv
<1>8. QED
  BY <1>6, <1>7 DEF ClientInv

LEMMA QuietSteps ==
  ASSUME ClientInv,
         \/ AnswerStatus \/ OnStatus \/ OnReplay \/ ReplayAnswerLost \/ OldError
         \/ AnimationFrame \/ OldClose \/ UNCHANGED vars
  PROVE  ClientInv'
<1>1. UNCHANGED <<source, frames, subscribed, wire, socket, retryTimer>>
  BY DEF AnswerStatus, OnStatus, OnReplay, ReplayAnswerLost, OldError, AnimationFrame,
     OldClose, vars, server, replies, sockets, refs, shown
<1>2. UNCHANGED <<pending, view>> \/ Flush
  BY DEF AnswerStatus, OnStatus, OnReplay, ReplayAnswerLost, OldError, AnimationFrame,
     OldClose, vars, server, replies, sockets, refs, shown
<1>3. QED
  BY <1>1, <1>2, Untouched

-----------------------------------------------------------------------------
\* The server's steps.

LEMMA AcceptedWhenSubscribed ==
  ASSUME ClientInv, subscribed
  PROVE  socket \in {"accepted", "open"}
  BY DEF ClientInv, ClientTypes, SocketInv

LEMMA PublishStep ==
  ASSUME ClientInv, Publish
  PROVE  ClientInv'
<1>1. PICK s \in 1 .. source : ShownInv(s)
  BY DEF ClientInv
<1>2. PICK l : l = view.last + Len(pending)
  OBVIOUS
<1>3. /\ frames < MaxFrames /\ frames' = frames + 1
      /\ wire' = IF subscribed THEN Append(wire, Message("update", frames)) ELSE wire
      /\ UNCHANGED <<source, subscribed, socket, retryTimer, pending, view>>
  BY DEF Publish, replies, sockets, refs, shown
<1>4. /\ wire \in Seq(Deliveries) /\ pending \in Seq(Deliveries) /\ frames \in Frame
      /\ frames + 1 \in 0 .. MaxFrames /\ frames \in Int /\ source \in 1 .. MaxSources
      /\ subscribed \in BOOLEAN
  BY <1>3, BoundsAssumption DEF ClientInv, ClientTypes, Frame
<1>5. Message("update", frames) \in Deliveries
  BY <1>4, BoundsAssumption DEF Message, Deliveries, Kinds, Frame
<1>6. l \in Int /\ (s = source => l < frames)
  BY <1>1, <1>2, BoundsAssumption DEF ShownInv, Shows
<1>7. Shows(view, pending, s, source, frames + 1)
  BY <1>1, <1>2, <1>4, <1>6 DEF ShownInv, Shows
<1>8. ASSUME socket \in {"accepted", "open"}
      PROVE  Stream(wire', s, l, pending, source, frames + 1, subscribed)
  <2>1. Stream(wire, s, l, pending, source, frames, subscribed)
    BY <1>1, <1>2, <1>8 DEF ShownInv
  <2>2. CASE subscribed
    <3>1. wire' = Append(wire, Message("update", frames))
      BY <1>3, <2>2
    <3>2. PICK m \in Deliveries : m = Message("update", frames)
      BY <1>5
    <3>3. m.kind = "update" /\ m.source = source /\ m.n = frames
      BY <3>2 DEF Message
    <3>4. Stream(wire, s, l, pending, source, frames, TRUE)
      BY <2>1, <2>2
    <3>5. Stream(Append(wire, m), s, l, pending, source, frames + 1, TRUE)
      BY <1>4, <1>6, <3>3, <3>4, StreamPublish
    <3>6. QED
      BY <2>2, <3>1, <3>2, <3>5
  <2>3. CASE ~subscribed
    <3>1. wire' = wire /\ subscribed = FALSE
      BY <1>3, <1>4, <2>3
    <3>2. QED
      BY <1>4, <1>6, <2>1, <3>1, StreamBehind
  <2>4. QED
    BY <2>2, <2>3
<1>9. ShownInv(s)'
  BY <1>2, <1>3, <1>7, <1>8 DEF ShownInv
<1>10. ClientTypes' /\ SocketInv'
  <2>1. wire' \in Seq(Deliveries)
    BY <1>3, <1>4, <1>5
  <2>2. QED
    BY <1>3, <1>4, <2>1 DEF ClientInv, ClientTypes, SocketInv
<1>11. QED
  BY <1>3, <1>9, <1>10 DEF ClientInv

\* The end of the source and the loss of a connection leave a beginning of the
\* deliveries and put something else than an update behind it.
LEMMA CutStep ==
  ASSUME ClientInv,
         UNCHANGED <<source, frames, socket, retryTimer, pending, view>>, subscribed' = FALSE,
         \/ ~subscribed /\ wire' = wire
         \/ /\ wire' \in Seq(Deliveries)
            /\ \E k \in 0 .. Len(wire) :
                 /\ k <= Len(wire')
                 /\ \A i \in 1 .. Len(wire') :
                      IF i <= k THEN wire'[i] = wire[i]
                      ELSE wire'[i].kind \notin {"snapshot", "update"}
  PROVE  ClientInv'
<1>1. PICK s \in 1 .. source : ShownInv(s)
  BY DEF ClientInv
<1>2. PICK l : l = view.last + Len(pending)
  OBVIOUS
<1>3. wire \in Seq(Deliveries) /\ pending \in Seq(Deliveries) /\ subscribed \in BOOLEAN
  BY DEF ClientInv, ClientTypes
<1>4. l \in Int
  BY <1>1, <1>2, BoundsAssumption DEF ShownInv, Shows
<1>5. ASSUME socket \in {"accepted", "open"}
      PROVE  Stream(wire', s, l, pending, source, frames, FALSE)
  <2>1. Stream(wire, s, l, pending, source, frames, subscribed)
    BY <1>1, <1>2, <1>5 DEF ShownInv
  <2>2. CASE ~subscribed /\ wire' = wire
    <3>1. subscribed = FALSE
      BY <1>3, <2>2
    <3>2. QED
      BY <2>1, <2>2, <3>1
  <2>3. ASSUME wire' \in Seq(Deliveries),
               NEW k \in 0 .. Len(wire), k <= Len(wire'),
               \A i \in 1 .. Len(wire') :
                 IF i <= k THEN wire'[i] = wire[i]
                 ELSE wire'[i].kind \notin {"snapshot", "update"}
        PROVE  Stream(wire', s, l, pending, source, frames, FALSE)
    <3>1. PICK x : x = wire'
      OBVIOUS
    <3>2. /\ x \in Seq(Deliveries) /\ k <= Len(x)
          /\ \A i \in 1 .. Len(x) :
               IF i <= k THEN x[i] = wire[i] ELSE x[i].kind \notin {"snapshot", "update"}
      BY <2>3, <3>1
    <3>3. Stream(x, s, l, pending, source, frames, FALSE)
      BY <1>3, <1>4, <2>1, <3>2, StreamCut
    <3>4. QED
      BY <3>1, <3>3
  <2>4. QED
    BY <2>2, <2>3
<1>6. ShownInv(s)'
  BY <1>1, <1>2, <1>5 DEF ShownInv
<1>7. ClientTypes' /\ SocketInv'
  BY <1>3 DEF ClientInv, ClientTypes, SocketInv
<1>8. QED
  BY <1>6, <1>7 DEF ClientInv

LEMMA EndStep ==
  ASSUME ClientInv, NEW e \in Ended, End(e)
  PROVE  ClientInv'
<1>1. /\ UNCHANGED <<source, frames, socket, retryTimer, pending, view>> /\ subscribed' = FALSE
      /\ wire' = IF subscribed THEN wire \o <<Message(e, 0), Message("close", 0)>> ELSE wire
  BY DEF End, replies, sockets, refs, shown
<1>2. CASE ~subscribed
  BY <1>1, <1>2, CutStep
<1>3. CASE subscribed
  <2>1. wire \in Seq(Deliveries) /\ source \in 1 .. MaxSources
    BY DEF ClientInv, ClientTypes
  <2>2. PICK a : a = Message(e, 0)
    OBVIOUS
  <2>3. PICK b : b = Message("close", 0)
    OBVIOUS
  <2>4. a \in Deliveries /\ b \in Deliveries
    BY <2>1, <2>2, <2>3, BoundsAssumption DEF Message, Deliveries, Kinds
  <2>5. a.kind \notin {"snapshot", "update"} /\ b.kind \notin {"snapshot", "update"}
    BY <2>2, <2>3 DEF Message, Ended
  <2>6. wire' = wire \o <<a, b>>
    BY <1>1, <1>3, <2>2, <2>3
  <2>7. PICK x : x = wire'
    OBVIOUS
  <2>8. /\ x \in Seq(Deliveries) /\ Len(x) = Len(wire) + 2 /\ Len(wire) \in Nat
        /\ \A i \in 1 .. Len(wire) : x[i] = wire[i]
        /\ x[Len(wire) + 1] = a /\ x[Len(wire) + 2] = b
    BY <2>1, <2>4, <2>6, <2>7
  <2>9. \A i \in 1 .. Len(x) :
          IF i <= Len(wire) THEN x[i] = wire[i] ELSE x[i].kind \notin {"snapshot", "update"}
    <3> SUFFICES ASSUME NEW i \in 1 .. Len(x)
                 PROVE  IF i <= Len(wire) THEN x[i] = wire[i]
                        ELSE x[i].kind \notin {"snapshot", "update"}
      OBVIOUS
    <3>1. i \in 1 .. Len(wire) \/ i = Len(wire) + 1 \/ i = Len(wire) + 2
      BY <2>8
    <3>2. QED
      BY <2>5, <2>8, <3>1
  <2>10. Len(wire) \in 0 .. Len(wire) /\ Len(wire) <= Len(x)
    BY <2>8
  <2>11. QED
    BY <1>1, <2>7, <2>8, <2>9, <2>10, CutStep
<1>4. QED
  BY <1>2, <1>3

LEMMA BreakStep ==
  ASSUME ClientInv, Break
  PROVE  ClientInv'
<1>1. UNCHANGED <<source, frames, socket, retryTimer, pending, view>> /\ subscribed' = FALSE
  BY DEF Break, replies, sockets, refs, shown
<1>2. PICK k \in 0 .. Len(wire) : wire' = Append(SubSeq(wire, 1, k), Message("close", 0))
  BY DEF Break
<1>3. wire \in Seq(Deliveries) /\ source \in 1 .. MaxSources
  BY DEF ClientInv, ClientTypes
<1>4. PICK b : b = Message("close", 0)
  OBVIOUS
<1>5. b \in Deliveries /\ b.kind \notin {"snapshot", "update"}
  BY <1>3, <1>4, BoundsAssumption DEF Message, Deliveries, Kinds
<1>6. PICK x : x = wire'
  OBVIOUS
<1>7. PICK y : y = SubSeq(wire, 1, k)
  OBVIOUS
<1>8. /\ y \in Seq(Deliveries) /\ Len(y) = k /\ k \in Nat
      /\ \A i \in 1 .. k : y[i] = wire[i]
  BY <1>3, <1>7
<1>9. x = Append(y, b)
  BY <1>2, <1>4, <1>6, <1>7
<1>10. /\ x \in Seq(Deliveries) /\ Len(x) = k + 1
       /\ \A i \in 1 .. k : x[i] = y[i]
       /\ x[k + 1] = b
  BY <1>5, <1>8, <1>9
<1>11. \A i \in 1 .. Len(x) :
         IF i <= k THEN x[i] = wire[i] ELSE x[i].kind \notin {"snapshot", "update"}
  <2> SUFFICES ASSUME NEW i \in 1 .. Len(x)
               PROVE  IF i <= k THEN x[i] = wire[i]
                      ELSE x[i].kind \notin {"snapshot", "update"}
    OBVIOUS
  <2>1. i \in 1 .. k \/ i = k + 1
    BY <1>8, <1>10
  <2>2. QED
    BY <1>5, <1>8, <1>10, <2>1
<1>12. k <= Len(x)
  BY <1>8, <1>10
<1>13. QED
  BY <1>1, <1>6, <1>10, <1>11, <1>12, CutStep

\* A subscription begins with a snapshot of the server's frames; one of a source
\* that has completed ends there.
LEMMA AcceptStep ==
  ASSUME ClientInv, Accept
  PROVE  ClientInv'
<1>1. PICK s \in 1 .. source : ShownInv(s)
  BY DEF ClientInv
<1>2. PICK l : l = view.last + Len(pending)
  OBVIOUS
<1>3. /\ UNCHANGED <<source, frames, retryTimer, pending, view>>
      /\ socket = "connecting" /\ socket' = "accepted"
      /\ subscribed' = (serverState # "completed")
      /\ wire' = <<Message("snapshot", frames)>> \o
                 IF serverState = "completed"
                 THEN <<Message("completed", 0), Message("close", 0)>> ELSE <<>>
  BY DEF Accept, refs, shown
<1>4. /\ source \in 1 .. MaxSources /\ source \in Int /\ frames \in 0 .. MaxFrames
      /\ frames \in Int /\ pending = <<>> /\ ~retryTimer /\ pending \in Seq(Deliveries)
  BY <1>3, BoundsAssumption DEF ClientInv, ClientTypes, SocketInv
<1>5. PICK a : a = Message("snapshot", frames)
  OBVIOUS
<1>6. PICK b : b = Message("completed", 0)
  OBVIOUS
<1>7. PICK c : c = Message("close", 0)
  OBVIOUS
<1>8. a \in Deliveries /\ b \in Deliveries /\ c \in Deliveries
  BY <1>4, <1>5, <1>6, <1>7, BoundsAssumption DEF Message, Deliveries, Kinds, Ended
<1>9. /\ a.kind = "snapshot" /\ a.source = source /\ a.n = frames
      /\ b.kind = "completed" /\ c.kind = "close"
  BY <1>5, <1>6, <1>7 DEF Message
<1>10. PICK e : e = IF serverState = "completed" THEN <<b, c>> ELSE <<>>
  OBVIOUS
<1>11. /\ e \in Seq(Deliveries)
       /\ \A i \in 1 .. Len(e) : e[i].kind \notin {"snapshot", "update"}
       /\ subscribed' => Len(e) = 0
       /\ subscribed' \in BOOLEAN
  <2>1. CASE serverState = "completed"
    <3>1. e = <<b, c>> /\ ~subscribed' /\ subscribed' = FALSE
      BY <1>3, <1>10, <2>1
    <3>2. Len(e) = 2 /\ e[1] = b /\ e[2] = c /\ e \in Seq(Deliveries)
      BY <1>8, <3>1
    <3>3. \A i \in 1 .. 2 : i = 1 \/ i = 2
      OBVIOUS
    <3>4. \A i \in 1 .. Len(e) : e[i].kind \notin {"snapshot", "update"}
      BY <1>9, <3>2, <3>3
    <3>5. QED
      BY <3>1, <3>2, <3>4
  <2>2. CASE serverState # "completed"
    <3>1. e = <<>> /\ subscribed' = TRUE
      BY <1>3, <1>10, <2>2
    <3>2. e \in Seq(Deliveries) /\ Len(e) = 0
      BY <3>1
    <3>3. \A i \in 1 .. Len(e) : FALSE
      BY <3>2
    <3>4. QED
      BY <3>1, <3>2, <3>3
  <2>3. QED
    BY <2>1, <2>2
<1>12. wire' = <<a>> \o e
  BY <1>3, <1>5, <1>6, <1>7, <1>10
<1>13. PICK x : x = wire'
  OBVIOUS
<1>14. x \in Seq(Deliveries) /\ x # <<>> /\ x[1] = a /\ Tail(x) = e
  BY <1>8, <1>11, <1>12, <1>13
<1>15. Continues(e, source, frames - 1, source, frames, subscribed')
  <2>1. Len(e) \in Nat /\ (Len(e) = 0 => frames - 1 + Len(e) + 1 = frames)
    BY <1>4, <1>11
  <2>2. \A i \in 1 .. Len(e) : e[i].kind # "snapshot" /\ e[i].kind # "update"
    BY <1>11
  <2>3. Len(e) = 0 => \A i \in 1 .. Len(e) : FALSE
    OBVIOUS
  <2>4. QED
    BY <1>11, <2>1, <2>2, <2>3 DEF Continues
<1>16. source \in 1 .. source /\ frames <= frames
  BY <1>4
<1>17. Stream(x, s, l, <<>>, source, frames, subscribed')
  BY <1>9, <1>14, <1>15, <1>16 DEF Stream
<1>18. ShownInv(s)'
  BY <1>1, <1>2, <1>3, <1>4, <1>13, <1>17 DEF ShownInv
<1>19. ClientTypes' /\ SocketInv'
  BY <1>3, <1>4, <1>11, <1>13, <1>14 DEF ClientTypes, SocketInv
<1>20. QED
  BY <1>3, <1>18, <1>19 DEF ClientInv

\* The replay that follows an ended source; nobody is subscribed then.
LEMMA ReplayStep ==
  ASSUME ClientInv, RequestReplay
  PROVE  ClientInv'
<1>1. PICK s \in 1 .. source : ShownInv(s)
  BY DEF ClientInv
<1>2. PICK l : l = view.last + Len(pending)
  OBVIOUS
<1>3. /\ source < MaxSources /\ source' = source + 1 /\ frames' = 0 /\ ~subscribed
      /\ UNCHANGED <<subscribed, wire, socket, retryTimer, pending, view>>
  BY DEF RequestReplay, sockets, refs, shown
<1>4. /\ wire \in Seq(Deliveries) /\ source \in 1 .. MaxSources /\ source \in Int
      /\ MaxSources \in Int /\ subscribed = FALSE
  BY <1>3, BoundsAssumption DEF ClientInv, ClientTypes
<1>5. l \in Int
  BY <1>1, <1>2, BoundsAssumption DEF ShownInv, Shows
<1>6. s \in 1 .. source + 1 /\ s # source + 1
  BY <1>4
<1>7. Shows(view, pending, s, source + 1, 0)
  BY <1>1, <1>6 DEF ShownInv, Shows
<1>8. socket \in {"accepted", "open"} => Stream(wire, s, l, pending, source + 1, 0, FALSE)
  BY <1>1, <1>2, <1>4, <1>5, StreamOld DEF ShownInv
<1>9. ShownInv(s)'
  BY <1>2, <1>3, <1>4, <1>7, <1>8 DEF ShownInv
<1>10. ClientTypes' /\ SocketInv'
  <2>1. source + 1 \in 1 .. MaxSources /\ 0 \in 0 .. MaxFrames
    BY <1>3, <1>4, BoundsAssumption
  <2>2. QED
    BY <1>3, <2>1 DEF ClientInv, ClientTypes, SocketInv
<1>11. QED
  BY <1>3, <1>6, <1>9, <1>10 DEF ClientInv

-----------------------------------------------------------------------------
\* The client's steps.

LEMMA OpenStep ==
  ASSUME ClientInv, OnOpen
  PROVE  ClientInv'
<1>1. PICK s \in 1 .. source : ShownInv(s)
  BY DEF ClientInv
<1>2. /\ socket = "accepted" /\ socket' = "open"
      /\ UNCHANGED <<source, frames, subscribed, wire, retryTimer, pending, view>>
  BY DEF OnOpen, server, refs
<1>3. ShownInv(s)'
  BY <1>1, <1>2 DEF ShownInv
<1>4. ClientTypes' /\ SocketInv'
  BY <1>2 DEF ClientInv, ClientTypes, SocketInv
<1>5. QED
  BY <1>2, <1>3, <1>4 DEF ClientInv

LEMMA SnapshotStep ==
  ASSUME ClientInv, OnSnapshot
  PROVE  ClientInv'
<1>1. PICK s \in 1 .. source : ShownInv(s)
  BY DEF ClientInv
<1>2. /\ socket = "open" /\ wire # <<>> /\ Head(wire).kind = "snapshot"
      /\ wire' = Tail(wire)
      /\ view' = SnapshotView(Head(wire).source, Head(wire).n)
      /\ UNCHANGED <<source, frames, subscribed, socket, retryTimer, pending>>
  BY DEF OnSnapshot, Receive, server, refs
<1>3. wire \in Seq(Deliveries) /\ frames \in Int
  BY BoundsAssumption DEF ClientInv, ClientTypes
<1>4. /\ Tail(wire) \in Seq(Deliveries) /\ Head(wire) = wire[1] /\ wire[1] \in Deliveries
  BY <1>2, <1>3, Behind
<1>5. PICK m : m = wire[1]
  OBVIOUS
<1>6. m.n \in 0 .. MaxFrames /\ m.kind = "snapshot"
  BY <1>2, <1>4, <1>5 DEF Deliveries
<1>7. /\ pending = <<>> /\ m.source \in 1 .. source
      /\ m.source = source => m.n <= frames
      /\ Continues(Tail(wire), m.source, m.n - 1, source, frames, subscribed)
  BY <1>1, <1>2, <1>5, <1>6 DEF ShownInv, Stream
<1>8. /\ Shows(view', <<>>, m.source, source, frames)
      /\ view'.last + Len(<<>>) = m.n - 1
  BY <1>2, <1>3, <1>4, <1>5, <1>6, <1>7, SnapshotShows
<1>9. Stream(Tail(wire), m.source, m.n - 1, <<>>, source, frames, subscribed)
  BY <1>4, <1>7, ContinuesIsStream
<1>10. ShownInv(m.source)'
  BY <1>2, <1>7, <1>8, <1>9 DEF ShownInv
<1>11. ClientTypes' /\ SocketInv'
  BY <1>2, <1>4 DEF ClientInv, ClientTypes, SocketInv
<1>12. QED
  BY <1>2, <1>7, <1>10, <1>11 DEF ClientInv

LEMMA UpdateStep ==
  ASSUME ClientInv, OnUpdate
  PROVE  ClientInv'
<1>1. PICK s \in 1 .. source : ShownInv(s)
  BY DEF ClientInv
<1>2. PICK l : l = view.last + Len(pending)
  OBVIOUS
<1>3. /\ socket = "open" /\ wire # <<>> /\ Head(wire).kind = "update"
      /\ wire' = Tail(wire) /\ pending' = Append(pending, Head(wire))
      /\ UNCHANGED <<source, frames, subscribed, socket, retryTimer, view>>
  BY DEF OnUpdate, Receive, server, sockets, shown
<1>4. /\ wire \in Seq(Deliveries) /\ pending \in Seq(Deliveries) /\ frames \in Int
  BY BoundsAssumption DEF ClientInv, ClientTypes
<1>5. /\ Tail(wire) \in Seq(Deliveries) /\ Head(wire) = wire[1] /\ wire[1] \in Deliveries
  BY <1>3, <1>4, Behind
<1>6. PICK m \in Deliveries : m = wire[1]
  BY <1>5
<1>7. m.kind = "update" /\ pending' = Append(pending, m)
  BY <1>3, <1>5, <1>6
<1>8. Continues(wire, s, l, source, frames, subscribed)
  BY <1>1, <1>2, <1>3, <1>6, <1>7 DEF ShownInv, Stream
<1>9. l \in Int
  BY <1>1, <1>2, <1>4, BoundsAssumption DEF ShownInv, Shows
<1>10. /\ Continues(Tail(wire), s, l + 1, source, frames, subscribed)
       /\ m.source = s /\ m.n = l + 1 /\ l + 1 \in Frame
       /\ s = source => l + 1 < frames
  BY <1>3, <1>4, <1>6, <1>7, <1>8, <1>9, ContinuesUpdate
<1>11. /\ Shows(view, Append(pending, m), s, source, frames)
       /\ view.last + Len(Append(pending, m)) = l + 1
  <2>1. Shows(view, pending, s, source, frames)
    BY <1>1 DEF ShownInv
  <2>2. QED
    BY <1>2, <1>4, <1>10, <2>1, QueuedShows
<1>12. Stream(Tail(wire), s, l + 1, Append(pending, m), source, frames, subscribed)
  BY <1>5, <1>10, ContinuesIsStream
<1>13. ShownInv(s)'
  BY <1>3, <1>7, <1>11, <1>12 DEF ShownInv
<1>14. ClientTypes' /\ SocketInv'
  <2>1. pending' \in Seq(Deliveries)
    BY <1>4, <1>7
  <2>2. QED
    BY <1>3, <1>5, <2>1 DEF ClientInv, ClientTypes, SocketInv
<1>15. QED
  BY <1>3, <1>13, <1>14 DEF ClientInv

\* The end of the source and the close of its socket come when every update has
\* been taken; both flush the queue.
LEMMA EndReceived ==
  ASSUME ClientInv, socket = "open", wire # <<>>, Head(wire).kind \in Ended \cup {"close"},
         wire' = Tail(wire), Flush, UNCHANGED <<source, frames, subscribed>>,
         \/ socket' = socket /\ retryTimer' = retryTimer
         \/ socket' = "none"
  PROVE  ClientInv'
<1>1. PICK s \in 1 .. source : ShownInv(s)
  BY DEF ClientInv
<1>2. PICK l : l = view.last + Len(pending)
  OBVIOUS
<1>3. wire \in Seq(Deliveries) /\ pending \in Seq(Deliveries) /\ subscribed \in BOOLEAN
  BY DEF ClientInv, ClientTypes
<1>4. /\ Tail(wire) \in Seq(Deliveries) /\ Head(wire) = wire[1]
  BY <1>3, Behind
<1>5. wire[1].kind \notin {"snapshot", "update"}
  BY <1>4 DEF Ended
<1>6. Continues(wire, s, l, source, frames, subscribed)
  BY <1>1, <1>2, <1>5 DEF ShownInv, Stream
<1>7. l \in Int
  BY <1>1, <1>2, <1>3, BoundsAssumption DEF ShownInv, Shows
<1>8. Continues(Tail(wire), s, l, source, frames, subscribed) /\ ~subscribed
  BY <1>3, <1>5, <1>6, <1>7, ContinuesEnd
<1>9. Stream(Tail(wire), s, l, <<>>, source, frames, subscribed)
  BY <1>4, <1>8, ContinuesIsStream
<1>10. /\ Shows(view', <<>>, s, source, frames)
       /\ view'.last + 0 = l /\ pending' = <<>> /\ Len(<<>>) = 0
  <2>1. /\ Shows(Updated(view, pending), <<>>, s, source, frames)
        /\ Updated(view, pending).last = l
    BY <1>1, <1>2, <1>3, FlushedShows DEF ShownInv
  <2>2. l + 0 = l /\ Len(<<>>) = 0
    BY <1>7
  <2>3. QED
    BY <2>1, <2>2 DEF Flush
<1>11. ShownInv(s)'
  BY <1>9, <1>10 DEF ShownInv
<1>12. ClientTypes' /\ SocketInv'
  <2>1. <<>> \in Seq(Deliveries)
    OBVIOUS
  <2>2. QED
    BY <1>4, <1>8, <1>10, <2>1 DEF ClientInv, ClientTypes, SocketInv
<1>13. QED
  BY <1>11, <1>12 DEF ClientInv

LEMMA EndSteps ==
  ASSUME ClientInv, OnClose \/ \E e \in Ended : OnServiceState(e)
  PROVE  ClientInv'
<1>1. /\ socket = "open" /\ wire # <<>> /\ Head(wire).kind \in Ended \cup {"close"}
      /\ wire' = Tail(wire) /\ Flush /\ UNCHANGED <<source, frames, subscribed>>
  BY DEF OnClose, OnServiceState, Receive, Close, server
<1>2. \/ socket' = socket /\ retryTimer' = retryTimer
      \/ socket' = "none"
  BY DEF OnClose, OnServiceState, Close
<1>3. QED
  BY <1>1, <1>2, EndReceived

\* A socket that never opened, or is replaced, takes nothing with it.
LEMMA Disconnected ==
  ASSUME ClientInv, Flush, UNCHANGED <<source, frames>>,
         wire' \in Seq(Deliveries), subscribed' = FALSE,
         \/ socket' = "none"
         \/ socket' = "connecting" /\ ~retryTimer'
  PROVE  ClientInv'
<1>1. PICK s \in 1 .. source : ShownInv(s)
  BY DEF ClientInv
<1>2. pending \in Seq(Deliveries) /\ pending' = <<>> /\ view' = Updated(view, pending)
  BY DEF ClientInv, ClientTypes, Flush
<1>3. Shows(Updated(view, pending), <<>>, s, source, frames)
  BY <1>1, <1>2, FlushedShows DEF ShownInv
<1>4. ShownInv(s)'
  BY <1>2, <1>3 DEF ShownInv
<1>5. ClientTypes' /\ SocketInv'
  <2>1. <<>> \in Seq(Deliveries)
    OBVIOUS
  <2>2. QED
    BY <1>2, <2>1 DEF ClientInv, ClientTypes, SocketInv
<1>6. QED
  BY <1>4, <1>5 DEF ClientInv

LEMMA DisconnectSteps ==
  ASSUME ClientInv, ConnectFails \/ RerunEffect
  PROVE  ClientInv'
<1>1. Flush /\ UNCHANGED <<source, frames>>
  BY DEF ConnectFails, RerunEffect, Close
<1>2. wire' \in Seq(Deliveries)
  <2>1. <<>> \in Seq(Deliveries)
    OBVIOUS
  <2>2. QED
    BY <2>1 DEF ConnectFails, RerunEffect, ClientInv, ClientTypes
<1>3. subscribed' = FALSE
  BY DEF ConnectFails, RerunEffect, ClientInv, ClientTypes, SocketInv
<1>4. \/ socket' = "none"
      \/ socket' = "connecting" /\ ~retryTimer'
  BY DEF ConnectFails, RerunEffect, Close, Connect
<1>5. QED
  BY <1>1, <1>2, <1>3, <1>4, Disconnected

LEMMA RetryStep ==
  ASSUME ClientInv, Retry
  PROVE  ClientInv'
<1>1. PICK s \in 1 .. source : ShownInv(s)
  BY DEF ClientInv
<1>2. /\ retryTimer /\ retryTimer' = FALSE /\ socket' = "connecting" /\ wire' = <<>>
      /\ UNCHANGED <<source, frames, subscribed, pending, view>>
  BY DEF Retry, Connect, server, refs
<1>3. ~subscribed /\ pending = <<>>
  BY <1>2 DEF ClientInv, SocketInv
<1>4. ShownInv(s)'
  BY <1>1, <1>2 DEF ShownInv
<1>5. ClientTypes' /\ SocketInv'
  <2>1. <<>> \in Seq(Deliveries)
    OBVIOUS
  <2>2. QED
    BY <1>2, <1>3, <2>1 DEF ClientInv, ClientTypes, SocketInv
<1>6. QED
  BY <1>2, <1>4, <1>5 DEF ClientInv

LEMMA InitClient == Init => ClientInv
<1> SUFFICES ASSUME Init PROVE ClientInv
  OBVIOUS
<1>1. /\ source = 1 /\ frames = 0 /\ subscribed = FALSE /\ wire = <<>>
      /\ socket = "connecting" /\ ~retryTimer /\ pending = <<>> /\ view = EmptyView
  BY DEF Init
<1>2. EmptyView = ViewAt(1, None, FALSE)
  <2>1. None + 1 = 0 /\ 0 - 1 = -1 /\ 0 .. (0 - 1) = {}
    BY DEF None
  <2>2. \A m : LatestFrame(m, 0) = None
    <3> SUFFICES ASSUME NEW m PROVE LatestFrame(m, 0) = None
      OBVIOUS
    <3>1. {None} \cup {k \in 0 .. 0 - 1 : MessageOf[k] = m} = {None}
      BY <2>1
    <3>2. {None} \in SUBSET Int /\ None \in {None} /\ \A y \in {None} : None >= y
      BY DEF None
    <3>3. Max({None}) = None
      BY <3>2, MaxIs
    <3>4. QED
      BY <3>1, <3>3 DEF LatestFrame
  <2>3. SamplesAfter(0, 0) = SamplesAfter(1, 0)
    BY <2>2 DEF SamplesAfter
  <2>4. QED
    BY <2>1, <2>3 DEF EmptyView, ViewAt
<1>3. Follows(<<>>, 1, None) /\ Len(<<>>) = 0
  BY DEF Follows
<1>4. None \in -1 .. MaxFrames - 1 /\ None + 0 < 0 /\ 1 \in 1 .. 1 /\ 1 \in 1 .. MaxSources
  BY BoundsAssumption DEF None
<1>5. ViewAt(1, None, FALSE).last = None /\ ViewAt(1, None, FALSE).initialized = FALSE
  BY DEF ViewAt
<1>6. Shows(view, <<>>, 1, 1, 0)
  BY <1>1, <1>2, <1>3, <1>4, <1>5 DEF Shows
<1>7. ShownInv(1)
  BY <1>1, <1>6 DEF ShownInv
<1>8. ClientTypes /\ SocketInv
  <2>1. <<>> \in Seq(Deliveries)
    OBVIOUS
  <2>2. source \in 1 .. MaxSources /\ frames \in 0 .. MaxFrames
    BY <1>1, BoundsAssumption
  <2>3. ClientTypes
    BY <1>1, <2>1, <2>2 DEF ClientTypes
  <2>4. SocketInv
    BY <1>1 DEF SocketInv
  <2>5. QED
    BY <2>3, <2>4
<1>9. QED
  BY <1>1, <1>4, <1>7, <1>8 DEF ClientInv

-----------------------------------------------------------------------------
\* The results.

\* View, queue and deliveries fit together through every event of the socket,
\* retry, replay, and effect that runs again (telemetry-provider.tsx).
THEOREM ClientInvariant == Spec => []ClientInv
<1>1. Init => ClientInv
  BY InitClient
<1>2. ClientInv /\ [Next]_vars => ClientInv'
  BY QuietSteps, PublishStep, EndStep, BreakStep, AcceptStep, ReplayStep, OpenStep,
     SnapshotStep, UpdateStep, EndSteps, DisconnectSteps, RetryStep DEF Next, Events
<1>3. QED
  BY <1>1, <1>2, PTL DEF Spec

\* What the page shows is what the engine of one source showed after some frame,
\* and the queued updates continue exactly there (the reducer of state.ts fed by
\* telemetry-provider.tsx).
THEOREM ViewIsPrefixOfOneSourceHolds == Spec => []ViewIsPrefixOfOneSource
<1>1. ASSUME ClientInv
      PROVE  ViewIsPrefixOfOneSource
  <2>1. PICK s \in 1 .. source : ShownInv(s)
    BY <1>1 DEF ClientInv
  <2>2. PICK l : l = view.last
    OBVIOUS
  <2>3. /\ view = ViewAt(s, l, view.initialized) /\ l \in Int
        /\ Follows(pending, s, l) /\ (s = source => l + Len(pending) < frames)
    BY <2>1, <2>2, BoundsAssumption DEF ShownInv, Shows
  <2>4. /\ DOMAIN pending = 1 .. Len(pending) /\ Len(pending) \in Nat /\ frames \in Int
    BY <1>1, BoundsAssumption DEF ClientInv, ClientTypes
  <2>5. s = source => l < frames
    BY <2>3, <2>4
  <2>6. /\ view.samples = SamplesAfter(s, l + 1) /\ view.counts = CountsAfter(l + 1)
        /\ view.total = l + 1
    BY <2>3 DEF ViewAt
  <2>7. ViewOf(s)
    BY <2>2, <2>5, <2>6 DEF ViewOf
  <2>8. \A i \in DOMAIN pending : pending[i].source = s /\ pending[i].n = view.last + i
    BY <2>2, <2>3, <2>4 DEF Follows
  <2>9. QED
    BY <2>7, <2>8 DEF ViewIsPrefixOfOneSource
<1>2. QED
  BY <1>1, ClientInvariant, PTL

\* The reducer never warns of a gap or a repetition in a stream that has none
\* (ApplyUpdate in state.ts).
THEOREM NoFalseStreamWarningHolds == Spec => []NoFalseStreamWarning
<1>1. ClientInv => NoFalseStreamWarning
  BY DEF ClientInv, ShownInv, Shows, ViewAt, NoFalseStreamWarning
<1>2. QED
  BY <1>1, ClientInvariant, PTL
=============================================================================
