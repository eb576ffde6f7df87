----------------------------- MODULE CanFeedProofs -----------------------------
(***************************************************************************)
(* The frame pipeline and a client of its CAN events, for sources of any    *)
(* length, any catalog and any capacities.                                  *)
(*                                                                         *)
(* The telemetry engine keeps its latest values, its histories and its      *)
(* counters apart; EngineInv says what each of them is of the one log,       *)
(* naming the positions at which a signal was updated.  PipelineInv relates  *)
(* the engine to the explorer, which is a frame ahead while a frame is        *)
(* decoded and stays so when it is refused.  FeedInv says who may still hold *)
(* events of the source: nobody once a replay may start.                    *)
(***************************************************************************)
EXTENDS CanFeed, FiniteSetTheorems, TLAPS

-----------------------------------------------------------------------------
\* The telemetry engine.

LogRecords == [message : Messages, signals : SUBSET Keys, at : Time]

LogInv ==
  /\ log \in Seq(LogRecords)
  /\ frames = Len(log)
  /\ clock = IF log = <<>> THEN None ELSE log[Len(log)].at
  /\ \A i, j \in 1..Len(log) : i <= j => log[i].at <= log[j].at

\* The frames that carried key k, and the sample each gave.
Positions(k) == {i \in DOMAIN log : k \in log[i].signals}
SampleAt(n) == [at |-> log[n].at, sequence |-> n - 1]

\* p is the positions of k in order.
Enumerates(p, k) ==
  /\ IsFiniteSet(Positions(k)) /\ Cardinality(Positions(k)) = Len(p)
  /\ \A n \in Positions(k) : \E i \in 1..Len(p) : p[i] = n
  /\ \A i \in 1..Len(p) :
       /\ p[i] \in Positions(k) /\ p[i] <= p[Len(p)]
       /\ Cardinality({j \in Positions(k) : j <= p[i]}) = i

\* The engine has kept the last of them.
Keeps(p, k) ==
  LET n == Len(p)
      h == Len(histories[k])
  IN  /\ latest[k] = IF n = 0 THEN NoSample ELSE SampleAt(p[n])
      /\ h = IF n <= HistoryCapacity THEN n ELSE HistoryCapacity
      /\ \A i \in 1..h : histories[k][i] = SampleAt(p[n - h + i])

SampleInv ==
  /\ latest \in [Keys -> [at : Int, sequence : Int]]
  /\ histories \in [Keys -> Seq([at : Int, sequence : Int])]
  /\ \A k \in Keys : \E p \in Seq(Nat) : Enumerates(p, k) /\ Keeps(p, k)

Pairs == {p \in (DOMAIN log) \X Keys : p[2] \in log[p[1]].signals}
OfMessage(m) == {i \in DOMAIN log : log[i].message = m}

TotalInv ==
  /\ IsFiniteSet(Pairs) /\ updates = Cardinality(Pairs)
  /\ byId \in [Messages -> Nat]
  /\ \A m \in Messages : IsFiniteSet(OfMessage(m)) /\ byId[m] = Cardinality(OfMessage(m))

EngineInv == LogInv /\ SampleInv /\ TotalInv

LEMMA SameSequence ==
  ASSUME NEW A, NEW s \in Seq(A), NEW t \in Seq(A), Len(s) = Len(t),
         \A i \in 1..Len(s) : s[i] = t[i]
  PROVE  s = t
  OBVIOUS

\* What ingest appends to the log.
LEMMA Logged ==
  ASSUME LogInv, NEW m, NEW signals, NEW t \in Time, Ingest(m, signals, t)
  PROVE  /\ m \in Messages /\ signals \subseteq Signals[m] /\ signals \subseteq Keys
         /\ Len(log) \in Nat /\ Len(log') = Len(log) + 1 /\ log' \in Seq(LogRecords)
         /\ DOMAIN log = 1..Len(log) /\ DOMAIN log' = 1..(Len(log) + 1)
         /\ \A i \in 1..Len(log) : log'[i] = log[i] /\ log[i] \in LogRecords
         /\ log'[Len(log) + 1] = [message |-> m, signals |-> signals, at |-> t]
<1>1. /\ m \in Messages /\ signals \subseteq Signals[m]
      /\ log' = Append(log, [message |-> m, signals |-> signals, at |-> t])
  BY DEF Ingest, Accepts, Known
<1>2. signals \subseteq Keys
  BY <1>1 DEF Keys
<1>3. [message |-> m, signals |-> signals, at |-> t] \in LogRecords /\ log \in Seq(LogRecords)
  BY <1>1, <1>2 DEF LogRecords, LogInv
<1>4. QED
  BY <1>1, <1>2, <1>3

LEMMA LogStep ==
  ASSUME LogInv, NEW m, NEW signals, NEW t \in Time, Ingest(m, signals, t)
  PROVE  LogInv'
<1> DEFINE n == Len(log)
<1>1. /\ n \in Nat /\ Len(log') = n + 1 /\ log' \in Seq(LogRecords)
      /\ \A i \in 1..n : log'[i] = log[i] /\ log[i] \in LogRecords
      /\ log'[n + 1] = [message |-> m, signals |-> signals, at |-> t]
  BY Logged
<1>2. t >= clock /\ clock' = t /\ frames' = frames + 1 /\ frames = n
  BY DEF Ingest, Accepts, LogInv
<1>3. log'[n + 1].at = t /\ log' # <<>> /\ t \in Nat
  BY <1>1, EngineAssumption
<1>4. \A i \in 1..n : log[i].at \in Nat
  BY <1>1, EngineAssumption DEF LogRecords
<1>5. \A i \in 1..n : log[i].at <= t
  <2> SUFFICES ASSUME NEW i \in 1..n PROVE log[i].at <= t
    OBVIOUS
  <2>1. n \in 1..n /\ log # <<>> /\ i <= n
    BY <1>1
  <2>2. clock = log[n].at /\ log[i].at <= log[n].at
    BY <2>1 DEF LogInv
  <2>3. log[n].at \in Nat /\ log[i].at \in Nat
    BY <1>4, <2>1
  <2>4. QED
    BY <1>2, <1>3, <2>2, <2>3
<1>6. \A i, j \in 1..n : i <= j => log[i].at <= log[j].at
  BY DEF LogInv
<1> HIDE DEF n
<1>7. ASSUME NEW i \in 1..(n + 1), NEW j \in 1..(n + 1), i <= j
      PROVE  log'[i].at <= log'[j].at
  <2>1. CASE j \in 1..n
    <3>1. i \in 1..n
      BY <1>1, <1>7, <2>1
    <3>2. QED
      BY <1>1, <1>6, <1>7, <2>1, <3>1
  <2>2. CASE j = n + 1 /\ i \in 1..n
    BY <1>1, <1>3, <1>5, <2>2
  <2>3. CASE j = n + 1 /\ i = n + 1
    BY <1>3, <2>3
  <2>4. QED
    BY <1>1, <1>7, <2>1, <2>2, <2>3
<1>8. QED
  BY <1>1, <1>2, <1>3, <1>7 DEF LogInv

LEMMA PositionsGrow ==
  ASSUME LogInv, NEW m, NEW signals, NEW t \in Time, Ingest(m, signals, t), NEW k
  PROVE  /\ Positions(k) \in SUBSET (1..Len(log))
         /\ Positions(k)' = IF k \in signals THEN Positions(k) \cup {Len(log) + 1}
                            ELSE Positions(k)
         /\ \A i \in 1..Len(log) : SampleAt(i)' = SampleAt(i)
         /\ [at |-> log'[Len(log) + 1].at, sequence |-> (Len(log) + 1) - 1]
              = [at |-> t, sequence |-> frames]
<1> DEFINE n == Len(log)
           r == [message |-> m, signals |-> signals, at |-> t]
<1>1. /\ n \in Nat /\ DOMAIN log = 1..n /\ DOMAIN log' = 1..(n + 1)
      /\ \A i \in 1..n : log'[i] = log[i]
      /\ log'[n + 1] = r /\ r.signals = signals /\ r.at = t
  BY Logged
<1>2. Positions(k) \in SUBSET (1..n)
  BY <1>1 DEF Positions
<1>3. \A i \in 1..n : SampleAt(i)' = SampleAt(i)
  BY <1>1 DEF SampleAt
<1>4. frames = n /\ (n + 1) - 1 = n
  BY <1>1 DEF LogInv
<1> HIDE DEF n, r
<1>5. 1..(n + 1) = 1..n \cup {n + 1}
  BY <1>1
<1>6. Positions(k)' = IF k \in signals THEN Positions(k) \cup {n + 1} ELSE Positions(k)
  BY <1>1, <1>5 DEF Positions
<1>7. QED
  BY <1>1, <1>2, <1>3, <1>4, <1>6 DEF n

\* One more position, later than all others.
LEMMA EnumerationGrows ==
  ASSUME LogInv, NEW m, NEW signals, NEW t \in Time, Ingest(m, signals, t), NEW k \in signals,
         NEW p \in Seq(Nat), Enumerates(p, k), NEW q, q = Append(p, Len(log) + 1)
  PROVE  Enumerates(q, k)'
<1> DEFINE n == Len(log)
           c == Len(p)
           P == Positions(k)
           N == n + 1
<1>1. /\ n \in Nat /\ P \in SUBSET (1..n) /\ Positions(k)' = P \cup {N}
  BY PositionsGrow, Logged
<1>2. /\ IsFiniteSet(P) /\ Cardinality(P) = c
      /\ \A x \in P : \E i \in 1..c : p[i] = x
      /\ \A i \in 1..c : p[i] \in P /\ Cardinality({j \in P : j <= p[i]}) = i
  BY DEF Enumerates
<1>3. /\ c \in Nat /\ N \in Nat /\ Len(q) = c + 1 /\ q \in Seq(Nat)
      /\ \A i \in 1..c : q[i] = p[i]
      /\ q[c + 1] = N
  BY <1>1
<1>4. \A x \in P : x \in Nat /\ x < N /\ x <= N /\ ~(N <= x)
  BY <1>1
<1> HIDE DEF n, c, P, N
<1>5. N \notin P
  BY <1>3, <1>4
<1>6. IsFiniteSet(P \cup {N}) /\ Cardinality(P \cup {N}) = c + 1
  BY <1>2, <1>5, FS_AddElement
<1>7. ASSUME NEW x \in P \cup {N}
      PROVE  \E i \in 1..(c + 1) : q[i] = x
  <2>1. CASE x \in P
    <3>1. PICK i \in 1..c : p[i] = x
      BY <1>2, <2>1
    <3>2. i \in 1..(c + 1) /\ q[i] = x
      BY <1>3, <3>1
    <3>3. QED
      BY <3>2
  <2>2. CASE x = N
    <3>1. c + 1 \in 1..(c + 1) /\ q[c + 1] = x
      BY <1>3, <2>2
    <3>2. QED
      BY <3>1
  <2>3. QED
    BY <2>1, <2>2
<1>8. ASSUME NEW i \in 1..(c + 1)
      PROVE  /\ q[i] \in P \cup {N} /\ q[i] <= q[c + 1]
             /\ Cardinality({j \in P \cup {N} : j <= q[i]}) = i
  <2>1. CASE i \in 1..c
    <3>1. q[i] = p[i] /\ p[i] \in P /\ Cardinality({j \in P : j <= p[i]}) = i
      BY <1>2, <1>3, <2>1
    <3>2. {j \in P \cup {N} : j <= p[i]} = {j \in P : j <= p[i]}
      BY <1>4, <3>1
    <3>3. q[i] <= q[c + 1]
      BY <1>3, <1>4, <3>1
    <3>4. QED
      BY <3>1, <3>2, <3>3
  <2>2. CASE i = c + 1
    <3>1. q[i] = N
      BY <1>3, <2>2
    <3>2. {j \in P \cup {N} : j <= N} = P \cup {N}
      BY <1>3, <1>4
    <3>3. q[i] <= q[c + 1]
      BY <1>3, <2>2
    <3>4. QED
      BY <1>6, <2>2, <3>1, <3>2, <3>3
  <2>3. i \in 1..c \/ i = c + 1
    BY <1>3
  <2>4. QED
    BY <2>1, <2>2, <2>3
<1>9. QED
  BY <1>1, <1>3, <1>6, <1>7, <1>8 DEF Enumerates

LEMMA SampleStep ==
  ASSUME LogInv, SampleInv, NEW m, NEW signals, NEW t \in Time, Ingest(m, signals, t)
  PROVE  SampleInv'
<1> DEFINE R == [at : Int, sequence : Int]
           n == Len(log)
           sample == [at |-> t, sequence |-> frames]
<1>1. /\ signals \subseteq Keys /\ n \in Nat /\ frames = n /\ t \in Nat
  BY Logged, EngineAssumption DEF LogInv
<1>2. /\ histories' = [k \in Keys |->
             IF k \in signals THEN Push(histories[k], sample) ELSE histories[k]]
      /\ latest' = [k \in Keys |-> IF k \in signals THEN sample ELSE latest[k]]
  BY DEF Ingest
<1>3. sample \in R /\ latest \in [Keys -> R] /\ histories \in [Keys -> Seq(R)]
  BY <1>1 DEF SampleInv
<1> HIDE DEF R, sample
<1>4. latest' \in [Keys -> R]
  BY <1>2, <1>3
<1>5. ASSUME NEW k \in Keys
      PROVE  Push(histories[k], sample) \in Seq(R)
  <2>1. histories[k] \in Seq(R) /\ HistoryCapacity \in Nat \ {0}
    BY <1>3, EngineAssumption
  <2>2. QED
    BY <1>3, <2>1 DEF Push
<1>6. histories' \in [Keys -> Seq(R)]
  BY <1>2, <1>3, <1>5
<1>7. ASSUME NEW k \in Keys
      PROVE  \E p \in Seq(Nat) : (Enumerates(p, k) /\ Keeps(p, k))'
  <2>1. PICK p \in Seq(Nat) : Enumerates(p, k) /\ Keeps(p, k)
    BY DEF SampleInv
  <2>0. PICK c, h : c = Len(p) /\ h = Len(histories[k])
    OBVIOUS
  <2>2. /\ latest[k] = IF c = 0 THEN NoSample ELSE SampleAt(p[c])
        /\ h = IF c <= HistoryCapacity THEN c ELSE HistoryCapacity
        /\ \A i \in 1..h : histories[k][i] = SampleAt(p[c - h + i])
    BY <2>0, <2>1 DEF Keeps
  <2>3. c \in Nat /\ h \in Nat /\ HistoryCapacity \in Nat \ {0} /\ h <= c
    BY <1>3, <2>0, <2>2, EngineAssumption
  <2>4. /\ Positions(k) \in SUBSET (1..n)
        /\ Positions(k)' = IF k \in signals THEN Positions(k) \cup {n + 1} ELSE Positions(k)
        /\ \A i \in 1..n : SampleAt(i)' = SampleAt(i)
        /\ [at |-> log'[n + 1].at, sequence |-> (n + 1) - 1] = sample
    BY PositionsGrow DEF sample
  <2>5. \A i \in 1..c : p[i] \in 1..n /\ SampleAt(p[i])' = SampleAt(p[i])
    BY <2>0, <2>1, <2>4 DEF Enumerates
  <2> HIDE DEF n
  <2>6. CASE k \notin signals
    <3>1. Enumerates(p, k)'
      BY <2>1, <2>4, <2>6 DEF Enumerates
    <3>2. latest'[k] = latest[k] /\ histories'[k] = histories[k]
      BY <1>2, <2>6
    <3>3. latest'[k] = IF c = 0 THEN NoSample ELSE SampleAt(p[c])'
      <4>1. c # 0 => c \in 1..c
        BY <2>3
      <4>2. QED
        BY <2>2, <2>5, <3>2, <4>1
    <3>4. \A i \in 1..h : histories'[k][i] = SampleAt(p[c - h + i])'
      <4>1. \A i \in 1..h : c - h + i \in 1..c
        BY <2>3
      <4>2. QED
        BY <2>2, <2>5, <3>2, <4>1
    <3>5. Keeps(p, k)'
      BY <2>0, <2>2, <3>2, <3>3, <3>4 DEF Keeps
    <3>6. QED
      BY <3>1, <3>5
  <2>7. CASE k \in signals
    <3>1. PICK q : q = Append(p, n + 1)
      OBVIOUS
    <3>2. /\ q \in Seq(Nat) /\ Len(q) = c + 1 /\ q[c + 1] = n + 1
          /\ \A i \in 1..c : q[i] = p[i]
      BY <1>1, <2>0, <3>1
    <3>3. Enumerates(q, k)'
      BY <2>1, <2>7, <3>1, EnumerationGrows DEF n
    <3>4. /\ SampleAt(q[c + 1])' = sample
          /\ \A i \in 1..c : SampleAt(q[i])' = SampleAt(p[i])
      BY <2>4, <2>5, <3>2 DEF SampleAt
    <3>5. latest'[k] = sample /\ histories'[k] = Push(histories[k], sample)
      BY <1>2, <2>7
    <3>6. CASE h = HistoryCapacity
      <4>1. histories'[k] = Append(Tail(histories[k]), sample)
        BY <2>0, <3>5, <3>6 DEF Push
      <4>2. /\ Len(histories'[k]) = h /\ histories'[k][h] = sample
            /\ \A i \in 1..(h - 1) : histories'[k][i] = histories[k][i + 1]
        <5>1. histories[k] \in Seq(R) /\ histories[k] # <<>> /\ Len(histories[k]) = h
          BY <1>3, <2>0, <2>3, <3>6
        <5>2. Tail(histories[k]) \in Seq(R) /\ Len(Tail(histories[k])) = h - 1
              /\ \A i \in 1..(h - 1) : Tail(histories[k])[i] = histories[k][i + 1]
          BY <5>1
        <5>3. QED
          BY <1>3, <2>3, <4>1, <5>2
      <4>3. \A i \in 1..h : histories'[k][i] = SampleAt(q[(c + 1) - h + i])'
        <5> SUFFICES ASSUME NEW i \in 1..h
                     PROVE  histories'[k][i] = SampleAt(q[(c + 1) - h + i])'
          OBVIOUS
        <5>1. CASE i = h
          BY <2>3, <3>4, <4>2, <5>1
        <5>2. CASE i # h
          <6>1. i \in 1..(h - 1) /\ i + 1 \in 1..h /\ c - h + (i + 1) \in 1..c
                /\ c - h + (i + 1) = (c + 1) - h + i
            BY <2>3, <5>2
          <6>2. histories'[k][i] = SampleAt(p[c - h + (i + 1)])
            BY <2>2, <4>2, <6>1
          <6>3. QED
            BY <3>4, <6>1, <6>2
        <5>3. QED
          BY <5>1, <5>2
      <4>4. h = IF c + 1 <= HistoryCapacity THEN c + 1 ELSE HistoryCapacity
        BY <2>3, <3>6
      <4>5. Keeps(q, k)'
        BY <2>3, <3>2, <3>4, <3>5, <4>2, <4>3, <4>4 DEF Keeps
      <4>6. QED
        BY <3>2, <3>3, <4>5
    <3>7. CASE h # HistoryCapacity
      <4>1. histories'[k] = Append(histories[k], sample)
        BY <2>0, <3>5, <3>7 DEF Push
      <4>2. /\ Len(histories'[k]) = h + 1 /\ histories'[k][h + 1] = sample
            /\ \A i \in 1..h : histories'[k][i] = histories[k][i]
        <5>1. histories[k] \in Seq(R) /\ Len(histories[k]) = h
          BY <1>3, <2>0
        <5>2. QED
          BY <1>3, <4>1, <5>1
      <4>3. h = c /\ c + 1 <= HistoryCapacity
        BY <2>2, <2>3, <3>7
      <4>4. \A i \in 1..(h + 1) : histories'[k][i] = SampleAt(q[(c + 1) - (h + 1) + i])'
        <5> SUFFICES ASSUME NEW i \in 1..(h + 1)
                     PROVE  histories'[k][i] = SampleAt(q[(c + 1) - (h + 1) + i])'
          OBVIOUS
        <5>1. (c + 1) - (h + 1) + i = i /\ c - h + i = i /\ (i \in 1..h \/ i = h + 1)
          BY <2>3, <4>3
        <5>2. CASE i = h + 1
          BY <3>4, <4>2, <4>3, <5>1, <5>2
        <5>3. CASE i \in 1..h
          BY <2>2, <3>4, <4>2, <4>3, <5>1, <5>3
        <5>4. QED
          BY <5>1, <5>2, <5>3
      <4>5. Keeps(q, k)'
        BY <2>3, <3>2, <3>4, <3>5, <4>2, <4>3, <4>4 DEF Keeps
      <4>6. QED
        BY <3>2, <3>3, <4>5
    <3>8. QED
      BY <3>6, <3>7
  <2>8. QED
    BY <2>6, <2>7
<1>8. QED
  BY <1>4, <1>6, <1>7 DEF SampleInv, R

LEMMA TotalStep ==
  ASSUME LogInv, TotalInv, NEW m, NEW signals, NEW t \in Time, Ingest(m, signals, t)
  PROVE  TotalInv'
<1> DEFINE r == [message |-> m, signals |-> signals, at |-> t]
<1>1. PICK n : n = Len(log)
  OBVIOUS
<1>2. /\ m \in Messages /\ signals \subseteq Signals[m] /\ signals \subseteq Keys
      /\ n \in Nat /\ DOMAIN log = 1..n /\ DOMAIN log' = 1..(n + 1)
      /\ \A i \in 1..n : log'[i] = log[i]
      /\ log'[n + 1] = r /\ r.signals = signals /\ r.message = m
  BY <1>1, Logged
<1>3. updates' = updates + Cardinality(signals) /\ byId' = [byId EXCEPT ![m] = @ + 1]
  BY DEF Ingest, UpdatesOf
<1>4. 1..(n + 1) = 1..n \cup {n + 1} /\ n + 1 \notin 1..n
  BY <1>2
<1> HIDE DEF r
<1>5. /\ IsFiniteSet(Pairs) /\ updates = Cardinality(Pairs) /\ byId \in [Messages -> Nat]
      /\ \A x \in Messages : IsFiniteSet(OfMessage(x)) /\ byId[x] = Cardinality(OfMessage(x))
  BY DEF TotalInv
<1>6. IsFiniteSet(signals) /\ Cardinality(signals) \in Nat
  BY <1>2, SignalsAssumption, FS_Subset, FS_CardinalityType
<1>7. IsFiniteSet(Pairs') /\ updates' = Cardinality(Pairs')
  <2> DEFINE New == {n + 1} \X signals
  <2>1. Pairs' = Pairs \cup New
    <3>1. \A p \in Pairs' : p \in Pairs \cup New
      BY <1>2, <1>4 DEF Pairs
    <3>2. \A p \in Pairs : p \in Pairs'
      BY <1>2, <1>4 DEF Pairs
    <3>3. \A p \in New : p \in Pairs'
      BY <1>2, <1>4 DEF Pairs
    <3>4. QED
      BY <3>1, <3>2, <3>3
  <2>2. Pairs \cap New = {}
    BY <1>2, <1>4 DEF Pairs
  <2>3. IsFiniteSet({n + 1}) /\ Cardinality({n + 1}) = 1
    BY FS_Singleton
  <2>4. IsFiniteSet(New) /\ Cardinality(New) = Cardinality(signals)
    BY <1>6, <2>3, FS_Product
  <2> HIDE DEF New
  <2>5. /\ IsFiniteSet(Pairs \cup New)
        /\ Cardinality(Pairs \cup New) = Cardinality(Pairs) + Cardinality(New) - 0
    <3>1. Cardinality(Pairs \cap New) = 0
      BY <2>2, FS_EmptySet
    <3>2. /\ IsFiniteSet(Pairs \cup New)
          /\ Cardinality(Pairs \cup New) =
               Cardinality(Pairs) + Cardinality(New) - Cardinality(Pairs \cap New)
      BY <1>5, <2>4, FS_Union
    <3>3. QED
      BY <3>1, <3>2
  <2>6. Cardinality(Pairs) \in Nat
    BY <1>5, FS_CardinalityType
  <2>7. Cardinality(Pairs \cup New) = updates'
    BY <1>3, <1>5, <1>6, <2>4, <2>5, <2>6
  <2>8. QED
    BY <2>1, <2>5, <2>7
<1>8. byId' \in [Messages -> Nat]
  BY <1>2, <1>3, <1>5
<1>9. ASSUME NEW x \in Messages
      PROVE  IsFiniteSet(OfMessage(x)') /\ byId'[x] = Cardinality(OfMessage(x)')
  <2>1. OfMessage(x)' = IF x = m THEN OfMessage(x) \cup {n + 1} ELSE OfMessage(x)
    BY <1>2, <1>4 DEF OfMessage
  <2>2. n + 1 \notin OfMessage(x)
    BY <1>2, <1>4 DEF OfMessage
  <2>3. byId'[x] = IF x = m THEN byId[x] + 1 ELSE byId[x]
    BY <1>2, <1>3, <1>5
  <2>4. CASE x = m
    <3>1. /\ IsFiniteSet(OfMessage(x) \cup {n + 1})
          /\ Cardinality(OfMessage(x) \cup {n + 1}) = Cardinality(OfMessage(x)) + 1
      BY <1>5, <2>2, FS_AddElement
    <3>2. QED
      BY <1>5, <2>1, <2>3, <2>4, <3>1
  <2>5. CASE x # m
    BY <1>5, <2>1, <2>3, <2>5
  <2>6. QED
    BY <2>4, <2>5
<1>10. QED
  BY <1>7, <1>8, <1>9 DEF TotalInv

LEMMA EngineStep ==
  ASSUME EngineInv, NEW m, NEW signals, NEW t \in Time, Ingest(m, signals, t)
  PROVE  EngineInv'
BY LogStep, SampleStep, TotalStep DEF EngineInv

LEMMA EngineStarts ==
  ASSUME Init
  PROVE  EngineInv
<1>1. /\ latest = [k \in Keys |-> NoSample] /\ histories = [k \in Keys |-> <<>>]
      /\ frames = 0 /\ updates = 0 /\ byId = [m \in Messages |-> 0]
      /\ clock = None /\ log = <<>>
  BY DEF Init
<1>2. DOMAIN log = {} /\ Len(log) = 0 /\ 1..0 = {}
  BY <1>1
<1>3. LogInv
  BY <1>1, <1>2 DEF LogInv
<1>4. SampleInv
  <2>1. NoSample \in [at : Int, sequence : Int] /\ <<>> \in Seq([at : Int, sequence : Int])
    BY DEF NoSample, None
  <2>2. ASSUME NEW k \in Keys
        PROVE  Enumerates(<<>>, k) /\ Keeps(<<>>, k)
    <3>1. Positions(k) = {}
      BY <1>2 DEF Positions
    <3>2. Enumerates(<<>>, k)
      BY <1>2, <3>1, FS_EmptySet DEF Enumerates
    <3>3. histories[k] = <<>> /\ latest[k] = NoSample /\ Len(histories[k]) = 0
      BY <1>1
    <3>4. Keeps(<<>>, k)
      BY <1>2, <3>3, EngineAssumption DEF Keeps
    <3>5. QED
      BY <3>2, <3>4
  <2>3. <<>> \in Seq(Nat)
    OBVIOUS
  <2>4. latest \in [Keys -> [at : Int, sequence : Int]]
        /\ histories \in [Keys -> Seq([at : Int, sequence : Int])]
    BY <1>1, <2>1
  <2>5. QED
    BY <2>2, <2>3, <2>4 DEF SampleInv
<1>5. TotalInv
  <2>1. Pairs = {} /\ \A m \in Messages : OfMessage(m) = {}
    BY <1>2 DEF Pairs, OfMessage
  <2>2. QED
    BY <1>1, <2>1, FS_EmptySet DEF TotalInv
<1>6. QED
  BY <1>3, <1>4, <1>5 DEF EngineInv

LEMMA EngineResets ==
  ASSUME Reset
  PROVE  EngineInv'
<1>1. Init'
  BY DEF Reset, Init
<1>2. Init' => EngineInv'
  BY EngineStarts, PTL
<1>3. QED
  BY <1>1, <1>2

-----------------------------------------------------------------------------
\* What the routes of the telemetry page read.

LEMMA LargerOf ==
  ASSUME NEW a \in Int, NEW b \in Int
  PROVE  Max({a, b}) = IF b >= a THEN b ELSE a
<1> DEFINE m == IF b >= a THEN b ELSE a
           S == {a, b}
<1>1. m \in S /\ S \in SUBSET Int /\ \A y \in S : m >= y
  OBVIOUS
<1> HIDE DEF m, S
<1>2. Max(S) \in S /\ \A y \in S : Max(S) >= y
  BY <1>1, Zenon DEF Max
<1>3. Max(S) >= m /\ m >= Max(S) /\ m \in Int /\ Max(S) \in Int
  BY <1>1, <1>2
<1>4. Max(S) = m
  BY <1>3
<1>5. QED
  BY <1>4 DEF m, S

\* The abstract samples of a key are the samples at its positions.
LEMMA SamplesEnumerated ==
  ASSUME NEW k, NEW p \in Seq(Nat), Enumerates(p, k)
  PROVE  /\ SamplesOf(k) = [i \in 1..Len(p) |-> SampleAt(p[i])]
         /\ Len(SamplesOf(k)) = Len(p)
<1> DEFINE P == Positions(k)
           Nth(i) == CHOOSE n \in P : Cardinality({j \in P : j <= n}) = i
<1>1. /\ Cardinality(P) = Len(p) /\ Len(p) \in Nat
      /\ \A n \in P : \E i \in 1..Len(p) : p[i] = n
      /\ \A i \in 1..Len(p) : p[i] \in P /\ Cardinality({j \in P : j <= p[i]}) = i
  BY DEF Enumerates
<1>2. SamplesOf(k) = [i \in 1..Cardinality(P) |-> SampleAt(Nth(i))]
  BY DEF SamplesOf, Positions, SampleAt
<1>3. ASSUME NEW i \in 1..Len(p)
      PROVE  Nth(i) = p[i]
  <2> HIDE DEF P
  <2>1. \E n \in P : Cardinality({j \in P : j <= n}) = i
    BY <1>1
  <2>2. Nth(i) \in P /\ Cardinality({j \in P : j <= Nth(i)}) = i
    BY <2>1, Zenon
  <2> HIDE DEF Nth
  <2>3. PICK j \in 1..Len(p) : p[j] = Nth(i)
    BY <1>1, <2>2
  <2>4. j = i
    BY <1>1, <2>2, <2>3
  <2>5. QED
    BY <2>3, <2>4
<1> HIDE DEF P, Nth
<1>4. SamplesOf(k) = [i \in 1..Len(p) |-> SampleAt(p[i])]
  BY <1>1, <1>2, <1>3
<1>5. QED
  BY <1>1, <1>4

LEMMA EnumeratedFacts ==
  ASSUME NEW k, NEW p \in Seq(Nat), Enumerates(p, k)
  PROVE  /\ Len(p) \in Nat
         /\ \A n \in Positions(k) : \E i \in 1..Len(p) : p[i] = n
         /\ \A i \in 1..Len(p) : p[i] \in Positions(k) /\ p[i] <= p[Len(p)]
<1>1. Len(p) \in Nat
  OBVIOUS
<1>2. \A n \in Positions(k) : \E i \in 1..Len(p) : p[i] = n
  BY Zenon DEF Enumerates
<1>3. \A i \in 1..Len(p) : p[i] \in Positions(k) /\ p[i] <= p[Len(p)]
  BY Zenon DEF Enumerates
<1>4. QED
  BY <1>1, <1>2, <1>3

LEMMA EngineViews ==
  ASSUME EngineInv
  PROVE  ViewsAgree
<1> DEFINE R == [at : Int, sequence : Int]
<1>1. /\ log \in Seq(LogRecords) /\ DOMAIN log = 1..Len(log) /\ Len(log) \in Nat
      /\ frames = Len(log)
  BY DEF EngineInv, LogInv
<1>2. /\ latest \in [Keys -> R] /\ histories \in [Keys -> Seq(R)]
      /\ \A k \in Keys : \E p \in Seq(Nat) : Enumerates(p, k) /\ Keeps(p, k)
  BY DEF EngineInv, SampleInv
<1>3. \A n \in DOMAIN log : SampleAt(n) \in R /\ SampleAt(n) # NoSample
  <2> SUFFICES ASSUME NEW n \in DOMAIN log PROVE SampleAt(n) \in R /\ SampleAt(n) # NoSample
    OBVIOUS
  <2>0. log[n] \in LogRecords /\ n \in 1..Len(log)
    BY <1>1
  <2>1. log[n].at \in Time /\ n \in Int
    BY <2>0 DEF LogRecords
  <2>2. log[n].at \in Nat
    BY <2>1, EngineAssumption
  <2>3. SampleAt(n).at \in Nat /\ NoSample.at = -1 /\ SampleAt(n) \in R
    BY <2>1, <2>2 DEF SampleAt, NoSample, None
  <2>4. QED
    BY <2>3
<1> HIDE DEF R
\* Histories.
<1>4. ASSUME NEW k \in Keys, NEW limit \in HistoryLimits
      PROVE  History(k, limit) =
               SubSeq(SamplesOf(k), Max({1, Len(SamplesOf(k)) - limit + 1}), Len(SamplesOf(k)))
  <2>1. PICK p \in Seq(Nat) : Enumerates(p, k) /\ Keeps(p, k)
    BY <1>2
  <2> DEFINE n == Len(p)
             h == Len(histories[k])
             all == SamplesOf(k)
             H == histories[k]
  <2>2. all = [i \in 1..n |-> SampleAt(p[i])] /\ Len(all) = n /\ n \in Nat
    BY <2>1, SamplesEnumerated
  <2>3. /\ h = IF n <= HistoryCapacity THEN n ELSE HistoryCapacity
        /\ \A i \in 1..h : H[i] = SampleAt(p[n - h + i])
    BY <2>1 DEF Keeps
  <2>4. /\ H \in Seq(R) /\ h \in Nat /\ limit \in Nat \ {0} /\ limit <= HistoryCapacity
        /\ HistoryCapacity \in Nat
    BY <1>2, EngineAssumption DEF HistoryLimits
  <2>5. \A i \in 1..n : SampleAt(p[i]) \in R
    BY <1>3, <2>1 DEF Enumerates, Positions
  <2>6. all \in Seq(R)
    BY <2>2, <2>5
  <2>7. History(k, limit) = SubSeq(H, Max({1, h - limit + 1}), h)
    BY DEF History
  <2> HIDE DEF n, h, all, H
  <2>8. /\ Max({1, h - limit + 1}) = IF h - limit + 1 >= 1 THEN h - limit + 1 ELSE 1
        /\ Max({1, n - limit + 1}) = IF n - limit + 1 >= 1 THEN n - limit + 1 ELSE 1
    BY <2>2, <2>4, LargerOf, SMTT(20)
  <2> DEFINE a == Max({1, h - limit + 1})
             b == Max({1, n - limit + 1})
  <2>9. /\ a \in Nat \ {0} /\ b \in Nat \ {0} /\ h - a = n - b /\ a <= h + 1 /\ b <= n + 1
        /\ h <= n /\ n - h = b - a
    <3>1. CASE n <= HistoryCapacity
      <4>1. h = n
        BY <2>3, <3>1
      <4>2. a = b /\ a \in Nat \ {0} /\ a <= h + 1
        BY <2>2, <2>4, <2>8, <4>1
      <4>3. QED
        BY <2>2, <2>4, <4>1, <4>2
    <3>2. CASE ~(n <= HistoryCapacity)
      <4>1. h = HistoryCapacity
        BY <2>3, <3>2
      <4>2. a = h - limit + 1 /\ b = n - limit + 1
        BY <2>2, <2>4, <2>8, <3>2, <4>1
      <4>3. QED
        BY <2>2, <2>4, <3>2, <4>1, <4>2
    <3>3. QED
      BY <3>1, <3>2
  <2> HIDE DEF a, b
  <2>10. /\ SubSeq(H, a, h) \in Seq(R) /\ Len(SubSeq(H, a, h)) = h - a + 1
         /\ \A i \in 1..(h - a + 1) : SubSeq(H, a, h)[i] = H[a + i - 1]
    BY <2>4, <2>9 DEF h, H
  <2>11. /\ SubSeq(all, b, n) \in Seq(R) /\ Len(SubSeq(all, b, n)) = n - b + 1
         /\ \A i \in 1..(n - b + 1) : SubSeq(all, b, n)[i] = all[b + i - 1]
    BY <2>2, <2>6, <2>9
  <2>12. ASSUME NEW i \in 1..(h - a + 1)
         PROVE  SubSeq(H, a, h)[i] = SubSeq(all, b, n)[i]
    <3>1. /\ a + i - 1 \in 1..h /\ b + i - 1 \in 1..n /\ n - h + (a + i - 1) = b + i - 1
          /\ i \in 1..(n - b + 1)
      BY <2>2, <2>4, <2>9
    <3>2. H[a + i - 1] = SampleAt(p[n - h + (a + i - 1)])
      BY <2>3, <3>1
    <3>3. all[b + i - 1] = SampleAt(p[b + i - 1])
      BY <2>2, <3>1
    <3>4. QED
      BY <2>10, <2>11, <3>1, <3>2, <3>3
  <2>13. SubSeq(H, a, h) = SubSeq(all, b, n)
    <3>1. h - a + 1 = n - b + 1
      BY <2>2, <2>4, <2>9
    <3>2. QED
      BY <2>10, <2>11, <2>12, <3>1, SameSequence
  <2>14. QED
    BY <2>2, <2>7, <2>13 DEF a, b, h, n, all, H
\* The snapshot.
<1>5. ASSUME NEW k \in Keys
      PROVE  /\ latest[k] # NoSample <=> \E i \in DOMAIN log : k \in log[i].signals
             /\ latest[k] # NoSample => latest[k] = Last(SamplesOf(k))
  <2>1. PICK p \in Seq(Nat) : Enumerates(p, k) /\ Keeps(p, k)
    BY <1>2
  <2>2. latest[k] = IF Len(p) = 0 THEN NoSample ELSE SampleAt(p[Len(p)])
    BY <2>1 DEF Keeps
  <2>3. /\ Len(p) \in Nat /\ \A n \in Positions(k) : \E i \in 1..Len(p) : p[i] = n
        /\ \A i \in 1..Len(p) : p[i] \in Positions(k)
    BY <2>1, EnumeratedFacts
  <2>4. CASE Len(p) = 0
    <3>1. Positions(k) = {} /\ latest[k] = NoSample
      BY <2>2, <2>3, <2>4
    <3>2. QED
      BY <3>1 DEF Positions
  <2>5. CASE Len(p) # 0
    <3>1. Len(p) \in 1..Len(p) /\ latest[k] = SampleAt(p[Len(p)])
      BY <2>2, <2>3, <2>5
    <3>2. p[Len(p)] \in DOMAIN log /\ k \in log[p[Len(p)]].signals
      BY <2>3, <3>1 DEF Positions
    <3>3. latest[k] # NoSample
      BY <1>3, <3>1, <3>2
    <3>4. SamplesOf(k)[Len(p)] = SampleAt(p[Len(p)]) /\ Len(SamplesOf(k)) = Len(p)
      BY <2>1, <3>1, SamplesEnumerated
    <3>5. QED
      BY <3>1, <3>2, <3>3, <3>4 DEF Last
  <2>6. QED
    BY <2>4, <2>5
<1>6. /\ DOMAIN Snapshot.signals = {k \in Keys : latest[k] # NoSample}
      /\ \A k \in {k \in Keys : latest[k] # NoSample} : Snapshot.signals[k].sample = latest[k]
  BY DEF Snapshot, LatestOf
<1>7. DOMAIN Snapshot.signals = UNION {log[i].signals : i \in DOMAIN log}
  <2>1. \A i \in DOMAIN log : log[i].signals \subseteq Keys
    <3>1. \A i \in DOMAIN log : log[i] \in LogRecords
      BY <1>1
    <3>2. QED
      BY <3>1 DEF LogRecords
  <2>2. QED
    BY <1>5, <1>6, <2>1
<1>8. \A k \in DOMAIN Snapshot.signals : Snapshot.signals[k].sample = Last(SamplesOf(k))
  BY <1>5, <1>6
\* The totals.
<1>9. Statistics.total = frames /\ Statistics.updates = updates /\ Statistics.byId = byId
  BY DEF Statistics
<1>10. /\ updates = Cardinality({p \in (DOMAIN log) \X Keys : p[2] \in log[p[1]].signals})
       /\ \A m \in Messages : byId[m] = Cardinality({i \in DOMAIN log : log[i].message = m})
  BY DEF EngineInv, TotalInv, Pairs, OfMessage
<1>11. QED
  BY <1>1, <1>4, <1>7, <1>8, <1>9, <1>10 DEF ViewsAgree

LEMMA EngineFreshness ==
  ASSUME EngineInv
  PROVE  FreshMeansRecent
<1> SUFFICES ASSUME NEW k \in Keys
             PROVE  Freshness(k) = "fresh" <=>
                      \E i \in DOMAIN log :
                        k \in log[i].signals /\ clock - log[i].at <= 2 * Period[MessageOf(k)]
  BY DEF FreshMeansRecent
<1>1. /\ log \in Seq(LogRecords) /\ DOMAIN log = 1..Len(log) /\ Len(log) \in Nat
      /\ \A i, j \in 1..Len(log) : i <= j => log[i].at <= log[j].at
      /\ log # <<>> => clock = log[Len(log)].at
  BY DEF EngineInv, LogInv
<1>2. \A i \in 1..Len(log) : log[i].at \in Nat
  <2>1. \A i \in 1..Len(log) : log[i] \in LogRecords
    BY <1>1
  <2>2. QED
    BY <2>1, EngineAssumption DEF LogRecords
<1>3. PICK p \in Seq(Nat) : Enumerates(p, k) /\ Keeps(p, k)
  BY DEF EngineInv, SampleInv
<1>4. /\ Len(p) \in Nat /\ \A n \in Positions(k) : \E i \in 1..Len(p) : p[i] = n
      /\ \A i \in 1..Len(p) : p[i] \in Positions(k) /\ p[i] <= p[Len(p)]
  BY <1>3, EnumeratedFacts
<1>5. latest[k] = IF Len(p) = 0 THEN NoSample ELSE SampleAt(p[Len(p)])
  BY <1>3 DEF Keeps
<1> DEFINE T == Period[MessageOf(k)]
<1>6. T \in Nat
  <2>1. \E m \in Messages : k \in Signals[m]
    BY DEF Keys
  <2>2. MessageOf(k) \in Messages
    BY <2>1, Zenon DEF MessageOf
  <2>3. QED
    BY <2>2, EngineAssumption
<1> HIDE DEF T
<1>7. CASE Len(p) = 0
  <2>1. Freshness(k) = "none"
    BY <1>5, <1>7 DEF Freshness
  <2>2. Positions(k) = {}
    BY <1>4, <1>7
  <2>3. QED
    BY <2>1, <2>2 DEF Positions
<1>8. CASE Len(p) # 0
  <2> DEFINE n == p[Len(p)]
  <2>1. Len(p) \in 1..Len(p) /\ latest[k] = SampleAt(n)
    BY <1>4, <1>5, <1>8
  <2>2. n \in 1..Len(log) /\ k \in log[n].signals
    BY <1>1, <1>4, <2>1 DEF Positions
  <2> HIDE DEF n
  <2>3. /\ latest[k].at = log[n].at /\ log[n].at \in Nat /\ latest[k] # NoSample
    <3>1. log[n].at \in Nat
      BY <1>2, <2>2
    <3>2. SampleAt(n).at = log[n].at /\ NoSample.at = -1
      BY DEF SampleAt, NoSample, None
    <3>3. QED
      BY <2>1, <3>1, <3>2
  <2>4. clock \in Nat
    <3>1. log # <<>> /\ Len(log) \in 1..Len(log)
      BY <1>1, <2>2
    <3>2. QED
      BY <1>1, <1>2, <3>1
  <2>5. Freshness(k) = "fresh" <=> clock - log[n].at <= 2 * T
    <3>1. Freshness(k) = IF clock - latest[k].at <= T * 2 THEN "fresh" ELSE "stale"
      BY <2>3 DEF Freshness, FRESHNESS_PERIOD_MULTIPLIER, T
    <3>2. T * 2 = 2 * T
      BY <1>6
    <3>3. QED
      BY <2>3, <3>1, <3>2
  <2>6. ASSUME NEW i \in DOMAIN log, k \in log[i].signals, clock - log[i].at <= 2 * T
        PROVE  clock - log[n].at <= 2 * T
    <3>1. i \in Positions(k) /\ i \in 1..Len(log)
      BY <1>1, <2>6 DEF Positions
    <3>2. i <= n
      BY <1>4, <3>1 DEF n
    <3>3. log[i].at <= log[n].at /\ log[i].at \in Nat
      BY <1>1, <1>2, <2>2, <3>1, <3>2
    <3>4. QED
      BY <1>6, <2>3, <2>4, <2>6, <3>3
  <2>7. QED
    BY <1>1, <2>2, <2>5, <2>6 DEF T
<1>9. QED
  BY <1>7, <1>8

-----------------------------------------------------------------------------
\* The explorer beside the engine.

SeenIds == Messages \cup {Foreign}
Seen == [sequence : Nat, id : SeenIds, at : Time, dlc : Lengths,
         status : {"decoded", "unknown", "error"}]
Counters == [retained : Int, total : Nat, first : Int, latest : Int, dlc : Lengths \cup {None}]

\* How many frames have been evicted.
Gone == Len(seen) - Len(window)

WindowInv ==
  /\ seen \in Seq(Seen) /\ window \in Seq(Seen)
  /\ observed = Len(seen)
  /\ Len(window) = IF Len(seen) <= ExplorerCapacity THEN Len(seen) ELSE ExplorerCapacity
  /\ \A i \in 1..Len(window) : window[i] = seen[Gone + i]
  /\ \A i \in 1..Len(seen) : seen[i].sequence = i - 1

\* The positions of an ID among the frames seen.
OfId(id) == {i \in 1..Len(seen) : seen[i].id = id}
After(S, n) == {i \in S : i > n}

\* first and latest are those of the first and the last of them.
Spans(stats, S) ==
  \E f, l \in S :
    /\ \A i \in S : f <= i /\ i <= l
    /\ stats.first = seen[f].at /\ stats.latest = seen[l].at /\ stats.dlc = seen[l].dlc

CountersInv ==
  /\ perId \in [SeenIds -> Counters]
  /\ \A id \in SeenIds :
       /\ IsFiniteSet(OfId(id))
       /\ perId[id].total = Cardinality(OfId(id))
       /\ perId[id].retained = Cardinality(After(OfId(id), Gone))
       /\ IF OfId(id) = {} THEN perId[id] = Explorer!Unseen ELSE Spans(perId[id], OfId(id))

ExplorerInv == WindowInv /\ CountersInv

\* A frame the engine has not taken in.
Untaken == Len(seen) = Len(log) + 1

AgreeInv ==
  /\ stage \in {"reading", "decoding", "completed", "failed", "stopped"}
  /\ Untaken \/ Len(seen) = Len(log)
  /\ stage = "decoding" => Untaken
  /\ stage \in {"reading", "completed"} => ~Untaken
  /\ Untaken /\ stage # "decoding" => ~Decoded
  /\ \A i \in 1..Len(log) :
       log[i].message = seen[i].id /\ log[i].at = seen[i].at /\ seen[i].status = "decoded"
  /\ \A m \in Messages :
       perId[m].total = byId[m] + (IF Untaken /\ seen[Len(seen)].id = m THEN 1 ELSE 0)

PipelineInv == EngineInv /\ ExplorerInv /\ AgreeInv

\* A frame is appended and pushes out the oldest of a full window.
LEMMA WindowStep ==
  ASSUME WindowInv, NEW id \in SeenIds, NEW t \in Time, NEW dlc \in Lengths,
         Explorer!Ingest(id, t, dlc)
  PROVE  /\ WindowInv'
         /\ Len(seen) \in Nat /\ Len(seen') = Len(seen) + 1
         /\ \A i \in 1..Len(seen) : seen'[i] = seen[i]
         /\ LET last == seen'[Len(seen) + 1]
            IN  last.id = id /\ last.at = t /\ last.dlc = dlc
         /\ Gone \in Nat
         /\ Gone' = IF Len(window) = ExplorerCapacity THEN Gone + 1 ELSE Gone
<1> DEFINE status == Explorer!DecodeStatus(id, dlc)
           frame == [sequence |-> observed, id |-> id, at |-> t, dlc |-> dlc, status |-> status]
<1>1. /\ seen' = Append(seen, frame)
      /\ window' = Append(IF Len(window) = ExplorerCapacity THEN Tail(window) ELSE window, frame)
      /\ observed' = observed + 1
  BY DEF Explorer!Ingest, Explorer!Push
<1>2. /\ seen \in Seq(Seen) /\ window \in Seq(Seen) /\ observed = Len(seen)
      /\ Len(seen) \in Nat /\ Len(window) \in Nat
      /\ ExplorerCapacity \in Nat \ {0}
  BY PipelineAssumption DEF WindowInv
<1>3. status \in {"decoded", "unknown", "error"}
  BY DEF Explorer!DecodeStatus
<1> HIDE DEF status
<1>4. /\ frame \in Seen /\ frame.id = id /\ frame.at = t /\ frame.dlc = dlc
      /\ frame.sequence = Len(seen)
  BY <1>2, <1>3 DEF Seen
<1> HIDE DEF frame
<1>5. /\ seen' \in Seq(Seen) /\ Len(seen') = Len(seen) + 1
      /\ \A i \in 1..Len(seen) : seen'[i] = seen[i]
      /\ seen'[Len(seen) + 1] = frame
  BY <1>1, <1>2, <1>4
<1>6. Len(window) <= Len(seen) /\ Gone \in Nat
  BY <1>2 DEF WindowInv, Gone
<1>7. \A i \in 1..Len(seen') : seen'[i].sequence = i - 1
  <2> SUFFICES ASSUME NEW i \in 1..Len(seen') PROVE seen'[i].sequence = i - 1
    OBVIOUS
  <2>1. CASE i \in 1..Len(seen)
    BY <1>5, <2>1 DEF WindowInv
  <2>2. CASE i = Len(seen) + 1
    BY <1>2, <1>4, <1>5, <2>2
  <2>3. QED
    BY <1>2, <1>5, <2>1, <2>2
<1>8. CASE Len(window) = ExplorerCapacity
  <2>0. window # <<>>
    BY <1>2, <1>8
  <2>1. PICK w \in Seq(Seen) : w = Tail(window)
    <3>1. Tail(window) \in Seq(Seen)
      BY <1>2, <2>0
    <3>2. QED
      BY <3>1
  <2>2. /\ Len(w) = Len(window) - 1
        /\ \A i \in 1..Len(w) : w[i] = window[i + 1]
    BY <1>2, <2>0, <2>1
  <2>3. /\ window' \in Seq(Seen) /\ Len(window') = Len(window)
        /\ \A i \in 1..(Len(window) - 1) : window'[i] = window[i + 1]
        /\ window'[Len(window)] = frame
    <3>1. window' = Append(w, frame)
      BY <1>1, <1>8, <2>1
    <3>2. /\ window' \in Seq(Seen) /\ Len(window') = Len(w) + 1
          /\ \A i \in 1..Len(w) : window'[i] = w[i]
          /\ window'[Len(w) + 1] = frame
      BY <1>4, <3>1
    <3>3. QED
      BY <1>2, <2>2, <3>2
  <2>4. Gone' = Gone + 1
    BY <1>2, <1>5, <2>3 DEF Gone
  <2>5. ASSUME NEW i \in 1..Len(window')
        PROVE  window'[i] = seen'[Gone' + i]
    <3>1. CASE i \in 1..(Len(window) - 1)
      <4>1. i + 1 \in 1..Len(window) /\ Gone + (i + 1) \in 1..Len(seen)
            /\ Gone + (i + 1) = Gone' + i
        <5>1. Len(window) \in Nat /\ Len(seen) \in Nat /\ i \in 1..(Len(window) - 1)
          BY <1>2, <3>1
        <5>2. Gone + Len(window) = Len(seen)
          BY <5>1 DEF Gone
        <5> HIDE DEF Gone
        <5>3. QED
          BY <1>6, <2>4, <5>1, <5>2
      <4>2. window[i + 1] = seen[Gone + (i + 1)]
        BY <4>1 DEF WindowInv
      <4>3. seen'[Gone + (i + 1)] = seen[Gone + (i + 1)]
        BY <1>5, <4>1
      <4>4. window'[i] = window[i + 1]
        BY <2>3, <3>1
      <4>5. QED
        BY <4>1, <4>2, <4>3, <4>4
    <3>2. CASE i = Len(window)
      <4>1. Gone' + i = Len(seen) + 1
        BY <1>2, <2>4, <3>2 DEF Gone
      <4>2. QED
        BY <1>5, <2>3, <3>2, <4>1
    <3>3. QED
      BY <1>2, <2>3, <3>1, <3>2
  <2>6. Len(window') = IF Len(seen') <= ExplorerCapacity THEN Len(seen') ELSE ExplorerCapacity
    BY <1>2, <1>5, <1>6, <1>8, <2>3
  <2>7. WindowInv'
    BY <1>1, <1>2, <1>5, <1>7, <2>3, <2>5, <2>6 DEF WindowInv
  <2>8. QED
    BY <1>2, <1>4, <1>5, <1>6, <1>8, <2>4, <2>7
<1>9. CASE Len(window) # ExplorerCapacity
  <2>1. Len(window) = Len(seen) /\ Len(seen) < ExplorerCapacity /\ Gone = 0
    BY <1>2, <1>9 DEF WindowInv, Gone
  <2>2. /\ window' \in Seq(Seen) /\ Len(window') = Len(window) + 1
        /\ \A i \in 1..Len(window) : window'[i] = window[i]
        /\ window'[Len(window) + 1] = frame
    BY <1>1, <1>2, <1>4, <1>9
  <2>3. Gone' = 0
    BY <1>2, <1>5, <2>1, <2>2 DEF Gone
  <2>4. ASSUME NEW i \in 1..Len(window')
        PROVE  window'[i] = seen'[Gone' + i]
    <3>1. CASE i \in 1..Len(window)
      <4>1. window[i] = seen[Gone + i] /\ Gone + i = i /\ Gone' + i = i
        BY <2>1, <2>3, <3>1 DEF WindowInv
      <4>2. QED
        BY <1>5, <2>1, <2>2, <3>1, <4>1
    <3>2. CASE i = Len(window) + 1
      BY <1>2, <1>5, <2>1, <2>2, <2>3, <3>2
    <3>3. QED
      BY <1>2, <2>2, <3>1, <3>2
  <2>5. Len(window') = IF Len(seen') <= ExplorerCapacity THEN Len(seen') ELSE ExplorerCapacity
    BY <1>2, <1>5, <2>1, <2>2
  <2>6. WindowInv'
    BY <1>1, <1>2, <1>5, <1>7, <2>2, <2>4, <2>5 DEF WindowInv
  <2>7. QED
    BY <1>2, <1>4, <1>5, <1>6, <1>9, <2>1, <2>3, <2>6
<1>10. QED
  BY <1>8, <1>9

\* The bookkeeping before the append leaves each ID with the frames that stay.
LEMMA EvictStep ==
  ASSUME ExplorerInv, NEW stats, stats = Explorer!Evict(perId),
         NEW gone, gone = IF Len(window) = ExplorerCapacity THEN Gone + 1 ELSE Gone
  PROVE  /\ stats \in [SeenIds -> Counters]
         /\ \A id \in SeenIds :
              /\ stats[id].total = perId[id].total
              /\ stats[id].retained = Cardinality(After(OfId(id), gone))
              /\ IF OfId(id) = {} THEN stats[id] = Explorer!Unseen
                 ELSE Spans(stats[id], OfId(id))
<1>1. /\ seen \in Seq(Seen) /\ window \in Seq(Seen) /\ perId \in [SeenIds -> Counters]
      /\ Len(window) \in Nat /\ Len(seen) \in Nat /\ Gone \in Int
      /\ \A i \in 1..Len(window) : window[i] = seen[Gone + i]
      /\ Len(window) <= Len(seen) /\ ExplorerCapacity \in Nat \ {0}
  <2>1. /\ seen \in Seq(Seen) /\ window \in Seq(Seen) /\ perId \in [SeenIds -> Counters]
        /\ \A i \in 1..Len(window) : window[i] = seen[Gone + i]
        /\ Len(window) = IF Len(seen) <= ExplorerCapacity THEN Len(seen) ELSE ExplorerCapacity
    BY DEF ExplorerInv, WindowInv, CountersInv
  <2>2. Len(window) \in Nat /\ Len(seen) \in Nat
    BY <2>1
  <2>3. Gone \in Int /\ Len(window) <= Len(seen) /\ ExplorerCapacity \in Nat \ {0}
    BY <2>1, <2>2, PipelineAssumption DEF Gone
  <2>4. QED
    BY <2>1, <2>2, <2>3
<1>2. CASE Len(window) # ExplorerCapacity
  <2>1. stats = perId /\ gone = Gone
    BY <1>2 DEF Explorer!Evict
  <2>2. QED
    BY <2>1 DEF ExplorerInv, CountersInv
<1>3. CASE Len(window) = ExplorerCapacity
  <2>1. /\ 1 \in 1..Len(window) /\ gone = Gone + 1 /\ gone \in 1..Len(seen)
        /\ Head(window) = seen[gone] /\ seen[gone] \in Seen
    BY <1>1, <1>3 DEF Gone
  <2>2. PICK x \in SeenIds : x = Head(window).id
    BY <2>1 DEF Seen
  <2>3. gone \in OfId(x)
    BY <2>1, <2>2 DEF OfId
  <2>4. stats = [perId EXCEPT ![x] = [perId[x] EXCEPT !.retained = perId[x].retained - 1]]
    BY <1>3, <2>2 DEF Explorer!Evict
  <2>5. PICK s : s = [perId[x] EXCEPT !.retained = perId[x].retained - 1]
    OBVIOUS
  <2>6. /\ s \in Counters /\ s.total = perId[x].total /\ s.first = perId[x].first
        /\ s.latest = perId[x].latest /\ s.dlc = perId[x].dlc
        /\ s.retained = perId[x].retained - 1
    <3>1. perId[x] \in Counters
      BY <1>1
    <3>2. QED
      BY <2>5, <3>1 DEF Counters
  <2>7. /\ stats \in [SeenIds -> Counters] /\ stats[x] = s
        /\ \A id \in SeenIds : id # x => stats[id] = perId[id]
    BY <1>1, <2>4, <2>5, <2>6
  <2>8. ASSUME NEW id \in SeenIds
        PROVE  /\ stats[id].total = perId[id].total
               /\ stats[id].retained = Cardinality(After(OfId(id), gone))
               /\ IF OfId(id) = {} THEN stats[id] = Explorer!Unseen
                  ELSE Spans(stats[id], OfId(id))
    <3>1. /\ IsFiniteSet(OfId(id))
          /\ perId[id].retained = Cardinality(After(OfId(id), Gone))
          /\ IF OfId(id) = {} THEN perId[id] = Explorer!Unseen
             ELSE Spans(perId[id], OfId(id))
      BY DEF ExplorerInv, CountersInv
    <3>2. CASE id = x
      <4>1. After(OfId(x), gone) = After(OfId(x), Gone) \ {gone} /\ gone \in After(OfId(x), Gone)
        BY <1>1, <2>1, <2>3 DEF After, OfId
      <4>2. IsFiniteSet(After(OfId(x), Gone))
        <5>1. After(OfId(x), Gone) \in SUBSET OfId(x)
          BY DEF After
        <5>2. QED
          BY <3>1, <3>2, <5>1, FS_Subset
      <4>3. Cardinality(After(OfId(x), gone)) = Cardinality(After(OfId(x), Gone)) - 1
        BY <4>1, <4>2, FS_RemoveElement
      <4>4. OfId(x) # {} /\ Spans(perId[x], OfId(x))
        BY <2>3, <3>1, <3>2
      <4>5. Spans(s, OfId(x))
        BY <2>6, <4>4 DEF Spans
      <4>6. QED
        BY <2>6, <2>7, <3>1, <3>2, <4>3, <4>4, <4>5
    <3>3. CASE id # x
      <4>1. gone \notin OfId(id)
        BY <2>1, <2>2, <3>3 DEF OfId
      <4>2. After(OfId(id), gone) = After(OfId(id), Gone)
        BY <1>1, <2>1, <4>1 DEF After, OfId
      <4>3. QED
        BY <2>7, <3>1, <3>3, <4>2
    <3>4. QED
      BY <3>2, <3>3
  <2>9. QED
    BY <2>7, <2>8
<1>4. QED
  BY <1>2, <1>3

LEMMA ExplorerStep ==
  ASSUME ExplorerInv, NEW id \in SeenIds, NEW t \in Time, NEW dlc \in Lengths,
         Explorer!Ingest(id, t, dlc)
  PROVE  /\ ExplorerInv'
         /\ Len(seen) \in Nat /\ Len(seen') = Len(seen) + 1
         /\ \A i \in 1..Len(seen) : seen'[i] = seen[i]
         /\ seen'[Len(seen) + 1].id = id
         /\ \A m \in SeenIds :
              perId'[m].total = perId[m].total + (IF m = id THEN 1 ELSE 0)
<1> DEFINE n == Len(seen) + 1
<1>1. /\ WindowInv' /\ Len(seen) \in Nat /\ Len(seen') = n
      /\ \A i \in 1..Len(seen) : seen'[i] = seen[i]
      /\ seen'[n].id = id /\ seen'[n].at = t /\ seen'[n].dlc = dlc
      /\ Gone \in Nat
      /\ Gone' = IF Len(window) = ExplorerCapacity THEN Gone + 1 ELSE Gone
  BY WindowStep DEF ExplorerInv
<1>2. PICK stats : stats = Explorer!Evict(perId)
  OBVIOUS
<1>3. PICK gone : gone = Gone'
  OBVIOUS
<1>4. /\ stats \in [SeenIds -> Counters]
      /\ \A m \in SeenIds :
           /\ stats[m].total = perId[m].total
           /\ stats[m].retained = Cardinality(After(OfId(m), gone))
           /\ IF OfId(m) = {} THEN stats[m] = Explorer!Unseen ELSE Spans(stats[m], OfId(m))
  BY <1>1, <1>2, <1>3, EvictStep
<1>5. PICK counted :
        counted = [retained |-> stats[id].retained + 1, total |-> stats[id].total + 1,
                   first |-> IF stats[id].total = 0 THEN t ELSE stats[id].first,
                   latest |-> t, dlc |-> dlc]
  OBVIOUS
<1>6. counted \in Counters /\ stats[id] \in Counters /\ t \in Int
  <2>1. stats[id] \in Counters /\ t \in Int
    BY <1>4, EngineAssumption
  <2>2. QED
    BY <1>5, <2>1 DEF Counters
<1>7. perId' = [stats EXCEPT ![id] = counted]
  <2>1. perId' = Explorer!Count(Explorer!Evict(perId), id, t, dlc)
    BY DEF Explorer!Ingest
  <2>2. QED
    BY <1>2, <1>5, <2>1 DEF Explorer!Count
<1>8. /\ perId' \in [SeenIds -> Counters] /\ perId'[id] = counted
      /\ \A m \in SeenIds : m # id => perId'[m] = stats[m]
  BY <1>4, <1>6, <1>7
<1>9. /\ OfId(id)' = OfId(id) \cup {n} /\ n \notin OfId(id)
      /\ \A m \in SeenIds : m # id => OfId(m)' = OfId(m)
  <2>1. 1..n = (1..Len(seen)) \cup {n} /\ n \notin 1..Len(seen)
    BY <1>1
  <2>2. QED
    BY <1>1, <2>1 DEF OfId
<1>10. \A m \in SeenIds :
         /\ IsFiniteSet(OfId(m)) /\ IsFiniteSet(After(OfId(m), gone))
         /\ perId[m].total = Cardinality(OfId(m))
  <2> SUFFICES ASSUME NEW m \in SeenIds
               PROVE  /\ IsFiniteSet(OfId(m)) /\ IsFiniteSet(After(OfId(m), gone))
                      /\ perId[m].total = Cardinality(OfId(m))
    OBVIOUS
  <2>1. IsFiniteSet(OfId(m)) /\ perId[m].total = Cardinality(OfId(m))
    BY DEF ExplorerInv, CountersInv
  <2>2. After(OfId(m), gone) \in SUBSET OfId(m)
    BY DEF After
  <2>3. QED
    BY <2>1, <2>2, FS_Subset
<1>11. gone \in Nat /\ gone < n
  <2>1. Len(window') = IF n <= ExplorerCapacity THEN n ELSE ExplorerCapacity
    BY <1>1 DEF WindowInv
  <2>2. gone = n - Len(window')
    BY <1>1, <1>3 DEF Gone
  <2>3. PICK k : k = Len(window')
    OBVIOUS
  <2>4. n \in Nat \ {0} /\ ExplorerCapacity \in Nat \ {0}
    BY <1>1, PipelineAssumption
  <2>5. k \in 1..n /\ gone = n - k
    BY <2>1, <2>2, <2>3, <2>4
  <2>6. QED
    BY <2>4, <2>5
<1>12. ASSUME NEW m \in SeenIds, m # id
       PROVE  /\ IsFiniteSet(OfId(m)')
              /\ perId'[m].total = Cardinality(OfId(m)')
              /\ perId'[m].retained = Cardinality(After(OfId(m)', gone))
              /\ IF OfId(m)' = {} THEN perId'[m] = Explorer!Unseen
                 ELSE Spans(perId[m], OfId(m))'
  <2>1. OfId(m)' = OfId(m) /\ perId'[m] = stats[m]
    BY <1>8, <1>9, <1>12
  <2>2. OfId(m) # {} => Spans(perId[m], OfId(m))'
    <3>1. SUFFICES ASSUME OfId(m) # {} PROVE Spans(perId[m], OfId(m))'
      OBVIOUS
    <3>2. Spans(stats[m], OfId(m))
      BY <1>4, <3>1
    <3>3. \A i \in OfId(m) : seen'[i] = seen[i]
      BY <1>1 DEF OfId
    <3>4. QED
      BY <2>1, <3>2, <3>3 DEF Spans
  <2>3. QED
    BY <1>4, <1>10, <2>1, <2>2
<1>13. /\ IsFiniteSet(OfId(id)')
       /\ perId'[id].total = Cardinality(OfId(id)')
       /\ perId'[id].retained = Cardinality(After(OfId(id)', gone))
       /\ OfId(id)' # {} /\ Spans(perId[id], OfId(id))'
  <2>1. After(OfId(id)', gone) = After(OfId(id), gone) \cup {n} /\ n \notin After(OfId(id), gone)
    BY <1>9, <1>11 DEF After
  <2>2. /\ IsFiniteSet(OfId(id)') /\ Cardinality(OfId(id)') = Cardinality(OfId(id)) + 1
        /\ Cardinality(After(OfId(id)', gone)) = Cardinality(After(OfId(id), gone)) + 1
    <3>1. IsFiniteSet(OfId(id)) /\ IsFiniteSet(After(OfId(id), gone))
      BY <1>10
    <3>2. IsFiniteSet(OfId(id) \cup {n}) /\ Cardinality(OfId(id) \cup {n}) = Cardinality(OfId(id)) + 1
      BY <1>9, <3>1, FS_AddElement, Zenon
    <3>3. Cardinality(After(OfId(id), gone) \cup {n}) = Cardinality(After(OfId(id), gone)) + 1
      BY <2>1, <3>1, FS_AddElement, Zenon
    <3>4. QED
      BY <1>9, <2>1, <3>2, <3>3, Zenon
  <2>3. /\ perId'[id].total = Cardinality(OfId(id)')
        /\ perId'[id].retained = Cardinality(After(OfId(id)', gone))
    BY <1>4, <1>5, <1>8, <1>10, <2>2
  <2>4. Spans(perId[id], OfId(id))'
    <3>1. /\ perId'[id].latest = seen'[n].at /\ perId'[id].dlc = seen'[n].dlc
          /\ perId'[id].first = IF stats[id].total = 0 THEN seen'[n].at ELSE stats[id].first
      BY <1>1, <1>5, <1>8
    <3>2. stats[id].total = 0 <=> OfId(id) = {}
      BY <1>4, <1>10, FS_EmptySet
    <3>3. CASE OfId(id) = {}
      <4>1. OfId(id)' = {n} /\ perId'[id].first = seen'[n].at
        BY <1>9, <3>1, <3>2, <3>3
      <4>2. n <= n
        BY <1>1
      <4>3. QED
        BY <3>1, <4>1, <4>2 DEF Spans
    <3>4. CASE OfId(id) # {}
      <4>1. Spans(stats[id], OfId(id))
        BY <1>4, <3>4
      <4>2. PICK f \in OfId(id) : (\A i \in OfId(id) : f <= i) /\ stats[id].first = seen[f].at
        BY <4>1 DEF Spans
      <4>3. f <= n /\ seen'[f] = seen[f]
        BY <1>1 DEF OfId
      <4>4. perId'[id].first = seen'[f].at
        BY <3>1, <3>2, <3>4, <4>2, <4>3
      <4>5. \A i \in OfId(id)' : f <= i /\ i <= n
        BY <1>1, <1>9, <4>2, <4>3 DEF OfId
      <4>6. f \in OfId(id)' /\ n \in OfId(id)'
        BY <1>9
      <4>7. QED
        BY <3>1, <4>4, <4>5, <4>6 DEF Spans
    <3>5. QED
      BY <3>3, <3>4
  <2>5. QED
    BY <1>9, <2>2, <2>3, <2>4
<1>14. CountersInv'
  <2>1. \A m \in SeenIds : After(OfId(m), Gone)' = After(OfId(m)', gone)
    BY <1>3 DEF After
  <2>2. \A m \in SeenIds : IF OfId(m)' = {} THEN perId'[m] = Explorer!Unseen
                           ELSE Spans(perId[m], OfId(m))'
    BY <1>12, <1>13
  <2>3. \A m \in SeenIds :
          /\ IsFiniteSet(OfId(m)')
          /\ perId'[m].total = Cardinality(OfId(m)')
          /\ perId'[m].retained = Cardinality(After(OfId(m), Gone)')
    BY <1>12, <1>13, <2>1
  <2>4. QED
    BY <1>8, <2>2, <2>3 DEF CountersInv, Explorer!Unseen, Explorer!None
<1>15. ASSUME NEW m \in SeenIds
       PROVE  perId'[m].total = perId[m].total + (IF m = id THEN 1 ELSE 0)
  <2>1. perId[m] \in Counters
    BY DEF ExplorerInv, CountersInv
  <2>2. perId[m].total \in Nat
    BY <2>1 DEF Counters
  <2>3. QED
    BY <1>4, <1>5, <1>8, <2>2
<1>16. QED
  BY <1>1, <1>14, <1>15 DEF ExplorerInv

LEMMA ExplorerUnchanged ==
  ASSUME UNCHANGED <<window, perId, observed, seen>>
  PROVE  ExplorerInv' <=> ExplorerInv
<1>1. WindowInv' <=> WindowInv
  BY DEF WindowInv, Gone
<1>2. CountersInv' <=> CountersInv
  BY DEF CountersInv, OfId, After, Gone, Spans
<1>3. QED
  BY <1>1, <1>2 DEF ExplorerInv

LEMMA EngineUnchanged ==
  ASSUME UNCHANGED vars
  PROVE  /\ EngineInv' <=> EngineInv
         /\ UNCHANGED <<latest, histories, frames, updates, byId, clock, log>>
<1>1. UNCHANGED <<latest, histories, frames, updates, byId, clock, log>>
  BY DEF vars
<1>2. LogInv' <=> LogInv
  BY <1>1 DEF LogInv
<1>3. \A k : Positions(k)' = Positions(k)
  BY <1>1 DEF Positions
<1>4. \A k \in Keys, p \in Seq(Nat) :
        (Enumerates(p, k)' <=> Enumerates(p, k)) /\ (Keeps(p, k)' <=> Keeps(p, k))
  <2> SUFFICES ASSUME NEW k \in Keys, NEW p \in Seq(Nat)
               PROVE  /\ Enumerates(p, k)' <=> Enumerates(p, k)
                      /\ Keeps(p, k)' <=> Keeps(p, k)
    OBVIOUS
  <2>1. Enumerates(p, k)' <=> Enumerates(p, k)
    BY <1>3 DEF Enumerates
  <2>2. \A n : SampleAt(n)' = SampleAt(n)
    BY <1>1 DEF SampleAt
  <2>3. Keeps(p, k)' <=> Keeps(p, k)
    BY <1>1, <2>2 DEF Keeps
  <2>4. QED
    BY <2>1, <2>3
<1>5. SampleInv' <=> SampleInv
  BY <1>1, <1>4 DEF SampleInv
<1>6. TotalInv' <=> TotalInv
  BY <1>1 DEF TotalInv, Pairs, OfMessage
<1>7. QED
  BY <1>1, <1>2, <1>5, <1>6 DEF EngineInv

LEMMA ObserveStep ==
  ASSUME PipelineInv, NEW id \in Messages \cup {Foreign}, NEW t \in Time, NEW dlc \in Lengths,
         Observe(id, t, dlc)
  PROVE  PipelineInv'
<1>1. stage = "reading" /\ stage' = "decoding" /\ Explorer!Ingest(id, t, dlc) /\ UNCHANGED vars
  BY DEF Observe
<1>2. EngineInv' /\ UNCHANGED <<log, byId>>
  BY <1>1, EngineUnchanged DEF PipelineInv
<1>3. /\ ExplorerInv'
      /\ Len(seen) \in Nat /\ Len(seen') = Len(seen) + 1
      /\ \A i \in 1..Len(seen) : seen'[i] = seen[i]
      /\ seen'[Len(seen) + 1].id = id
      /\ \A m \in Messages : perId'[m].total = perId[m].total + (IF m = id THEN 1 ELSE 0)
  BY <1>1, ExplorerStep DEF PipelineInv, SeenIds
<1>4. ~Untaken /\ Len(seen) = Len(log)
  BY <1>1 DEF PipelineInv, AgreeInv
<1>5. Untaken' /\ seen'[Len(seen')].id = id
  BY <1>2, <1>3, <1>4 DEF Untaken
<1>6. \A i \in 1..Len(log') :
        /\ log'[i].message = seen'[i].id /\ log'[i].at = seen'[i].at
        /\ seen'[i].status = "decoded"
  BY <1>2, <1>3, <1>4 DEF PipelineInv, AgreeInv
<1>7. ASSUME NEW m \in Messages
      PROVE  perId'[m].total =
               byId'[m] + (IF Untaken' /\ seen'[Len(seen')].id = m THEN 1 ELSE 0)
  <2>1. perId[m].total = byId[m] + 0
    BY <1>4 DEF PipelineInv, AgreeInv
  <2>2. byId[m] \in Nat
    BY DEF PipelineInv, EngineInv, TotalInv
  <2>3. QED
    BY <1>2, <1>3, <1>5, <2>1, <2>2
<1>8. AgreeInv'
  BY <1>1, <1>5, <1>6, <1>7 DEF AgreeInv
<1>9. QED
  BY <1>2, <1>3, <1>8 DEF PipelineInv

LEMMA AcceptStep ==
  ASSUME PipelineInv, Accept
  PROVE  PipelineInv'
<1> DEFINE last == seen[Len(seen)]
<1>1. /\ stage = "decoding" /\ stage' = "reading" /\ Decoded
      /\ Ingest(last.id, Signals[last.id], last.at)
      /\ UNCHANGED <<window, perId, observed, seen>>
  BY DEF Accept, explorer, Last
<1>2. Untaken /\ seen \in Seq(Seen) /\ log \in Seq(LogRecords)
  BY <1>1 DEF PipelineInv, AgreeInv, ExplorerInv, WindowInv, EngineInv, LogInv
<1>3. Len(seen) \in Nat /\ Len(log) \in Nat /\ Len(seen) = Len(log) + 1
  BY <1>2 DEF Untaken
<1>4. Len(seen) \in 1..Len(seen)
  BY <1>3
<1>5. last \in Seen
  BY <1>2, <1>4
<1>6. last.status = "decoded" /\ last.at \in Time
  BY <1>1, <1>5 DEF Decoded, Seen, Last
<1>7. PICK m, signals, t : m = last.id /\ signals = Signals[last.id] /\ t = last.at
  OBVIOUS
<1>8. Ingest(m, signals, t) /\ t \in Time
  BY <1>1, <1>6, <1>7
<1>9. EngineInv'
  BY <1>8, EngineStep DEF PipelineInv
<1>10. /\ m \in Messages /\ Len(log') = Len(log) + 1
       /\ \A i \in 1..Len(log) : log'[i] = log[i]
       /\ log'[Len(log) + 1] = [message |-> m, signals |-> signals, at |-> t]
  BY <1>8, Logged DEF PipelineInv, EngineInv
<1>11. byId' = [byId EXCEPT ![m] = @ + 1]
  BY <1>8 DEF Ingest
<1>12. ~Untaken' /\ Len(seen') = Len(log')
  BY <1>1, <1>3, <1>10 DEF Untaken
<1>13. ExplorerInv'
  BY <1>1, ExplorerUnchanged DEF PipelineInv
<1>14. ASSUME NEW i \in 1..Len(log')
       PROVE  /\ log'[i].message = seen'[i].id /\ log'[i].at = seen'[i].at
              /\ seen'[i].status = "decoded"
  <2>1. CASE i \in 1..Len(log)
    BY <1>1, <1>10, <2>1 DEF PipelineInv, AgreeInv
  <2>2. CASE i = Len(log) + 1
    <3>1. seen'[i] = last /\ log'[i].message = m /\ log'[i].at = t
      BY <1>1, <1>3, <1>10, <2>2
    <3>2. QED
      BY <1>6, <1>7, <3>1
  <2>3. i \in 1..Len(log) \/ i = Len(log) + 1
    BY <1>3, <1>10
  <2>4. QED
    BY <2>1, <2>2, <2>3
<1>15. ASSUME NEW x \in Messages
       PROVE  perId'[x].total = byId'[x]
  <2>1. perId[x].total = byId[x] + (IF m = x THEN 1 ELSE 0)
    BY <1>2, <1>7 DEF PipelineInv, AgreeInv
  <2>2. byId \in [Messages -> Nat]
    BY DEF PipelineInv, EngineInv, TotalInv
  <2>3. QED
    BY <1>1, <1>10, <1>11, <2>1, <2>2
<1>16. \A x \in Messages : byId'[x] \in Nat
  BY <1>9 DEF EngineInv, TotalInv
<1>17. AgreeInv'
  BY <1>1, <1>12, <1>14, <1>15, <1>16 DEF AgreeInv
<1>18. QED
  BY <1>9, <1>13, <1>17 DEF PipelineInv

\* How a source ends.
LEMMA EndStep ==
  ASSUME PipelineInv, Refuse \/ Complete \/ Stop
  PROVE  PipelineInv'
<1>1. /\ UNCHANGED <<vars, window, perId, observed, seen>>
      /\ stage' \in {"failed", "completed", "stopped"}
      /\ stage' = "failed" => ~Decoded
      /\ stage' = "completed" => stage = "reading"
      /\ stage = "decoding" => ~Decoded
  BY DEF Refuse, Complete, Stop, explorer
<1>2. EngineInv' /\ UNCHANGED <<log, byId, clock>>
  BY <1>1, EngineUnchanged DEF PipelineInv
<1>3. ExplorerInv'
  BY <1>1, ExplorerUnchanged DEF PipelineInv
<1>4. (Untaken' <=> Untaken) /\ (Decoded' <=> Decoded)
  BY <1>1, <1>2 DEF Untaken, Decoded, Accepts, Known, Last
<1>5. AgreeInv'
  BY <1>1, <1>2, <1>4 DEF PipelineInv, AgreeInv
<1>6. QED
  BY <1>2, <1>3, <1>5 DEF PipelineInv

LEMMA PipelineStarts ==
  ASSUME PipelineInit
  PROVE  PipelineInv
<1>1. Init /\ stage = "reading" /\ log = <<>> /\ byId = [m \in Messages |-> 0]
  BY DEF PipelineInit, Init
<1>2. /\ window = <<>> /\ seen = <<>> /\ observed = 0
      /\ perId = [id \in Messages \cup {Foreign} |-> Explorer!Unseen]
  BY DEF PipelineInit, Explorer!Init
<1>3. Explorer!Unseen \in Counters /\ Explorer!Unseen.total = 0
  BY DEF Explorer!Unseen, Explorer!None, Counters, None
<1>4. EngineInv
  BY <1>1, EngineStarts
<1>5. ExplorerInv
  <2>1. WindowInv
    BY <1>2, PipelineAssumption DEF WindowInv, Gone
  <2>2. \A id : OfId(id) = {} /\ After(OfId(id), Gone) = {}
    BY <1>2 DEF OfId, After
  <2>3. perId \in [SeenIds -> Counters] /\ \A id \in SeenIds : perId[id] = Explorer!Unseen
    BY <1>2, <1>3 DEF SeenIds
  <2>4. Explorer!Unseen.retained = 0
    BY DEF Explorer!Unseen
  <2>5. CountersInv
    BY <1>3, <2>2, <2>3, <2>4, FS_EmptySet DEF CountersInv
  <2>6. QED
    BY <2>1, <2>5 DEF ExplorerInv
<1>6. Len(seen) = 0 /\ Len(log) = 0 /\ ~Untaken
  BY <1>1, <1>2 DEF Untaken
<1>7. AgreeInv
  BY <1>1, <1>2, <1>3, <1>6 DEF AgreeInv
<1>8. QED
  BY <1>4, <1>5, <1>7 DEF PipelineInv

LEMMA RestartStep ==
  ASSUME Restart
  PROVE  PipelineInv'
<1>1. PipelineInit'
  BY DEF Restart, Reset, Explorer!Reset, PipelineInit, Init, Explorer!Init
<1>2. PipelineInit' => PipelineInv'
  BY PipelineStarts, PTL
<1>3. QED
  BY <1>1, <1>2

\* The pages.
LEMMA PipelinePages ==
  ASSUME PipelineInv
  PROVE  PagesAgree
<1>1. /\ seen \in Seq(Seen) /\ log \in Seq(LogRecords)
      /\ seen # <<>> => window[Len(window)] = seen[Len(seen)]
  <2>1. WindowInv /\ log \in Seq(LogRecords)
    BY DEF PipelineInv, ExplorerInv, EngineInv, LogInv
  <2>2. seen \in Seq(Seen) /\ Len(seen) \in Nat /\ (seen # <<>> => Len(seen) > 0)
    BY <2>1 DEF WindowInv
  <2>3. seen # <<>> => Len(window) \in 1..Len(window) /\ Gone + Len(window) = Len(seen)
    BY <2>1, <2>2, PipelineAssumption DEF WindowInv, Gone
  <2>4. QED
    BY <2>1, <2>2, <2>3 DEF WindowInv
<1>2. Len(seen) \in Nat /\ Len(log) \in Nat /\ DOMAIN log = 1..Len(log)
  BY <1>1
<1>3. \A i \in 1..Len(log) :
        log[i].message = seen[i].id /\ log[i].at = seen[i].at /\ seen[i].status = "decoded"
  BY DEF PipelineInv, AgreeInv
<1>4. ASSUME seen # <<>>, Len(seen) = Len(log)
      PROVE  Decoded
  <2> DEFINE n == Len(log)
  <2>1. n \in 1..n /\ log # <<>>
    BY <1>1, <1>2, <1>4
  <2>2. clock = log[n].at /\ log[n] \in LogRecords
    BY <1>1, <2>1 DEF PipelineInv, EngineInv, LogInv
  <2>3. log[n].message \in Messages /\ log[n].at \in Time
    BY <2>2 DEF LogRecords
  <2>4. Last(seen) = seen[n]
    BY <1>4 DEF Last
  <2>5. clock >= clock
    <3>1. clock \in Nat
      BY <2>2, <2>3, EngineAssumption
    <3>2. QED
      BY <3>1
  <2>6. /\ Last(seen).status = "decoded" /\ Last(seen).id \in Messages
        /\ Last(seen).at = clock
    BY <1>3, <2>1, <2>2, <2>3, <2>4
  <2>7. QED
    BY <2>5, <2>6 DEF Decoded, Accepts, Known
<1>5. Ahead <=> Untaken
  <2>1. ASSUME Untaken PROVE Ahead
    <3>1. seen # <<>>
      BY <1>1, <1>2, <2>1 DEF Untaken
    <3>2. QED
      BY <2>1, <3>1 DEF Ahead, PipelineInv, AgreeInv
  <2>2. ASSUME Ahead, ~Untaken PROVE FALSE
    <3>1. Len(seen) = Len(log) /\ stage # "decoding" /\ seen # <<>> /\ ~Decoded
      BY <2>2 DEF Ahead, PipelineInv, AgreeInv
    <3>2. QED
      BY <1>4, <3>1
  <2>3. QED
    BY <2>1, <2>2
<1>6. Len(seen) = Len(log) + (IF Ahead THEN 1 ELSE 0)
  BY <1>2, <1>5 DEF Untaken, PipelineInv, AgreeInv
<1>7. Ahead => stage \notin {"reading", "completed"} /\ Last(window) = Last(seen)
  BY <1>1, <1>5 DEF Ahead, Last, PipelineInv, AgreeInv
<1>8. ASSUME NEW m \in Messages
      PROVE  byId[m] = perId[m].total - (IF Ahead /\ Last(seen).id = m THEN 1 ELSE 0)
  <2>1. perId[m].total = byId[m] + (IF Ahead /\ Last(seen).id = m THEN 1 ELSE 0)
    BY <1>5 DEF PipelineInv, AgreeInv, Last
  <2>2. byId[m] \in Nat
    BY DEF PipelineInv, EngineInv, TotalInv
  <2>3. QED
    BY <2>1, <2>2
<1>9. QED
  BY <1>2, <1>3, <1>6, <1>7, <1>8 DEF PagesAgree

\* The routes.
LEMMA ExplorerMaxIs ==
  ASSUME NEW S \in SUBSET Int, NEW x \in S, \A y \in S : x >= y
  PROVE  Explorer!Max(S) = x
<1>1. Explorer!Max(S) \in S /\ \A y \in S : Explorer!Max(S) >= y
  BY Zenon DEF Explorer!Max
<1>2. Explorer!Max(S) \in Int /\ x \in Int /\ Explorer!Max(S) >= x /\ x >= Explorer!Max(S)
  BY <1>1
<1>3. QED
  BY <1>2

LEMMA ExplorerMinIs ==
  ASSUME NEW S \in SUBSET Int, NEW x \in S, \A y \in S : x <= y
  PROVE  Explorer!Min(S) = x
<1>1. Explorer!Min(S) \in S /\ \A y \in S : Explorer!Min(S) <= y
  BY Zenon DEF Explorer!Min
<1>2. Explorer!Min(S) \in Int /\ x \in Int /\ Explorer!Min(S) <= x /\ x <= Explorer!Min(S)
  BY <1>1
<1>3. QED
  BY <1>2

LEMMA ExplorerCardinality == \A S : Explorer!Cardinality(S) = Cardinality(S)
BY DEF Explorer!Cardinality, Cardinality

\* The entries of the end of a sequence.
LEMMA TailEntry ==
  ASSUME NEW A, NEW s \in Seq(A), NEW m \in 1..(Len(s) + 1), NEW i \in 1..(Len(s) - m + 1)
  PROVE  SubSeq(s, m, Len(s))[i] = s[m + i - 1]
<1>1. \A j \in m..Len(s) : s[j] \in A
  OBVIOUS
<1>2. QED
  BY <1>1

\* The window is the newest part of what was seen.
LEMMA WindowIsNewest ==
  ASSUME WindowInv
  PROVE  /\ Explorer!Newest(seen, ExplorerCapacity) = window
         /\ Explorer!Min({Len(seen), ExplorerCapacity}) = Len(window)
         /\ Len(seen) \in Nat /\ Len(window) \in 0..Len(seen) /\ Gone \in Nat
         /\ Len(window) <= ExplorerCapacity
         /\ Gone = 0 \/ Gone = Len(seen) - ExplorerCapacity
         /\ ExplorerCapacity \in Nat \ {0}
<1> DEFINE n == Len(seen)
           w == Len(window)
<1>1. /\ seen \in Seq(Seen) /\ window \in Seq(Seen) /\ ExplorerCapacity \in Nat \ {0}
      /\ w = IF n <= ExplorerCapacity THEN n ELSE ExplorerCapacity
      /\ \A i \in 1..w : window[i] = seen[Gone + i]
  BY PipelineAssumption DEF WindowInv
<1>2. n \in Nat /\ w \in 0..n /\ w <= ExplorerCapacity /\ Gone = n - w /\ Gone \in Nat
  BY <1>1 DEF Gone
<1>3. Explorer!Min({n, ExplorerCapacity}) = w
  <2>1. /\ {n, ExplorerCapacity} \in SUBSET Int /\ w \in {n, ExplorerCapacity}
        /\ \A y \in {n, ExplorerCapacity} : w <= y
    BY <1>1, <1>2
  <2> HIDE DEF n, w
  <2>2. QED
    BY <2>1, ExplorerMinIs
<1>4. Explorer!Newest(seen, ExplorerCapacity) = SubSeq(seen, n - w + 1, n)
  <2>1. {ExplorerCapacity, n} = {n, ExplorerCapacity}
    OBVIOUS
  <2>2. QED
    BY <1>3, <2>1 DEF Explorer!Newest
<1>5. PICK s : s = SubSeq(seen, n - w + 1, n)
  OBVIOUS
<1>6. s \in Seq(Seen) /\ Len(s) = w /\ \A i \in 1..w : s[i] = seen[n - w + i]
  <2>1. n - w + 1 \in 1..(n + 1) /\ n - (n - w + 1) + 1 = w
    BY <1>2
  <2>2. s \in Seq(Seen)
    <3>1. \A i \in (n - w + 1)..n : seen[i] \in Seen
      BY <1>1, <1>2
    <3>2. QED
      BY <1>2, <1>5, <3>1
  <2>3. Len(s) = w
    BY <1>1, <1>2, <1>5, <2>1
  <2>4. \A i \in 1..w : s[i] = seen[n - w + i]
    <3> SUFFICES ASSUME NEW i \in 1..w PROVE s[i] = seen[n - w + i]
      OBVIOUS
    <3>1. PICK m \in 1..(n + 1) : m = n - w + 1
      BY <2>1
    <3>2. i \in 1..(n - m + 1) /\ m + i - 1 = n - w + i
      BY <1>2, <2>1, <3>1
    <3>3. s = SubSeq(seen, m, n)
      BY <1>5, <3>1
    <3>4. s[i] = seen[m + i - 1]
      BY <1>1, <3>2, <3>3, TailEntry
    <3>5. QED
      BY <3>2, <3>4
  <2>5. QED
    BY <2>2, <2>3, <2>4
<1>7. s = window
  <2>1. \A i \in 1..Len(s) : s[i] = window[i]
    BY <1>1, <1>2, <1>6
  <2>2. QED
    BY <1>1, <1>6, <2>1, SameSequence
<1>8. Gone = 0 \/ Gone = n - ExplorerCapacity
  BY <1>1, <1>2
<1>9. Explorer!Newest(seen, ExplorerCapacity) = window
  BY <1>4, <1>5, <1>7
<1>10. QED
  BY <1>1, <1>2, <1>3, <1>8, <1>9

LEMMA ExplorerQueries ==
  ASSUME ExplorerInv
  PROVE  Explorer!QueriesOfLog
<1> DEFINE n == Len(seen)
           w == Len(window)
<1>1. /\ Explorer!Newest(seen, ExplorerCapacity) = window
      /\ n \in Nat /\ w \in 0..n /\ Gone \in Nat /\ w <= ExplorerCapacity
      /\ Gone = 0 \/ Gone = n - ExplorerCapacity
      /\ ExplorerCapacity \in Nat \ {0}
  BY WindowIsNewest DEF ExplorerInv
<1>2. /\ window \in Seq(Seen) /\ DOMAIN window = 1..w /\ observed = n /\ Gone = n - w
      /\ \A i \in 1..w : window[i] = seen[Gone + i]
      /\ \A i \in 1..n : seen[i].sequence = i - 1
  BY DEF ExplorerInv, WindowInv, Gone
<1>3. ASSUME NEW limit, NEW ids
      PROVE  Explorer!FramesOf(limit, ids)
               = Explorer!Newest(Explorer!Passing(Explorer!Newest(seen, ExplorerCapacity), ids), limit)
  BY <1>1 DEF Explorer!FramesOf
<1>4. \A i \in 1..w : window[i].sequence = Gone + i - 1
  <2> SUFFICES ASSUME NEW i \in 1..w PROVE window[i].sequence = Gone + i - 1
    OBVIOUS
  <2>1. Gone + i \in 1..n
    BY <1>1, <1>2
  <2>2. QED
    BY <1>2, <2>1
<1>5. ASSUME NEW k \in 0..observed
      PROVE  Explorer!FrameAt(k) =
               IF k < observed /\ k >= observed - ExplorerCapacity THEN seen[k + 1]
               ELSE Explorer!None
  <2> DEFINE found == {i \in DOMAIN window : window[i].sequence = k}
             there == k < observed /\ k >= observed - ExplorerCapacity
  <2>1. Explorer!FrameAt(k) = IF found = {} THEN Explorer!None ELSE window[Explorer!Min(found)]
    BY DEF Explorer!FrameAt
  <2>2. CASE there
    <3>1. PICK i : i = k + 1 - Gone
      OBVIOUS
    <3>2. i \in 1..w /\ Gone + i = k + 1 /\ Gone + i - 1 = k
      BY <1>1, <1>2, <2>2, <3>1
    <3>3. \A j \in 1..w : Gone + j - 1 = k => j = i
      BY <1>1, <3>2
    <3>4. found = {i}
      BY <1>2, <1>4, <3>2, <3>3
    <3>5. Explorer!Min({i}) = i
      <4>1. {i} \in SUBSET Int /\ i \in {i} /\ \A y \in {i} : i <= y
        BY <3>2
      <4>2. QED
        BY <4>1, ExplorerMinIs
    <3>6. window[i] = seen[k + 1]
      BY <1>2, <3>2
    <3> HIDE DEF found
    <3>7. QED
      BY <2>1, <2>2, <3>4, <3>5, <3>6
  <2>3. CASE ~there
    <3>1. ASSUME NEW i \in 1..w, Gone + i - 1 = k PROVE FALSE
      BY <1>1, <1>2, <2>3, <3>1
    <3>2. found = {}
      BY <1>2, <1>4, <3>1
    <3> HIDE DEF found
    <3>3. QED
      BY <2>1, <2>3, <3>2
  <2>4. QED
    BY <2>2, <2>3
<1>6. QED
  BY <1>3, <1>5 DEF Explorer!QueriesOfLog

LEMMA ExplorerRecount ==
  ASSUME ExplorerInv
  PROVE  Explorer!StatisticsAgree
<1> DEFINE n == Len(seen)
           w == Len(window)
<1>1. /\ Explorer!Newest(seen, ExplorerCapacity) = window
      /\ Explorer!Min({n, ExplorerCapacity}) = w
      /\ n \in Nat /\ w \in 0..n /\ Gone \in Nat /\ w <= ExplorerCapacity
      /\ Gone = 0 \/ Gone = n - ExplorerCapacity
      /\ ExplorerCapacity \in Nat \ {0}
  BY WindowIsNewest DEF ExplorerInv
<1>2. /\ seen \in Seq(Seen) /\ window \in Seq(Seen)
      /\ DOMAIN window = 1..w /\ DOMAIN seen = 1..n /\ observed = n /\ Gone = n - w
      /\ \A i \in 1..w : window[i] = seen[Gone + i]
      /\ \A i \in 1..n : seen[i].sequence = i - 1
  BY DEF ExplorerInv, WindowInv, Gone
<1>3. /\ perId \in [SeenIds -> Counters]
      /\ \A id \in SeenIds :
           /\ IsFiniteSet(OfId(id))
           /\ perId[id].total = Cardinality(OfId(id))
           /\ perId[id].retained = Cardinality(After(OfId(id), Gone))
           /\ IF OfId(id) = {} THEN perId[id] = Explorer!Unseen ELSE Spans(perId[id], OfId(id))
  BY DEF ExplorerInv, CountersInv
<1>4. Explorer!Statistics.total = n /\ Explorer!Statistics.retained = w
  BY <1>2 DEF Explorer!Statistics
<1>5. Explorer!Statistics.unique = Cardinality({seen[i].id : i \in DOMAIN seen})
  <2>1. \A id \in SeenIds : perId[id] # Explorer!Unseen <=> OfId(id) # {}
    <3> SUFFICES ASSUME NEW id \in SeenIds, OfId(id) # {} PROVE perId[id] # Explorer!Unseen
      BY <1>3
    <3>1. Cardinality(OfId(id)) # 0
      BY <1>3, FS_EmptySet
    <3>2. Explorer!Unseen.total = 0
      BY DEF Explorer!Unseen
    <3>3. QED
      BY <1>3, <3>1, <3>2
  <2>2. \A i \in 1..n : seen[i].id \in SeenIds
    <3>1. \A i \in 1..n : seen[i] \in Seen
      BY <1>2
    <3>2. QED
      BY <3>1 DEF Seen
  <2>3. {id \in SeenIds : perId[id] # Explorer!Unseen} = {seen[i].id : i \in DOMAIN seen}
    BY <1>2, <2>1, <2>2 DEF OfId
  <2>4. Explorer!Statistics.unique
          = Explorer!Cardinality({id \in Messages \cup {Foreign} : perId[id] # Explorer!Unseen})
    BY DEF Explorer!Statistics
  <2>5. QED
    BY <2>3, <2>4, ExplorerCardinality, Zenon DEF SeenIds
<1>6. ASSUME seen # <<>>
      PROVE  /\ Explorer!Statistics.newest = Explorer!Last(seen).at
             /\ Explorer!Statistics.last = Explorer!Last(seen).sequence
             /\ Explorer!Statistics.oldest = Head(Explorer!Newest(seen, ExplorerCapacity)).at
  <2>1. n > 0
    BY <1>2, <1>6
  <2>2. w > 0 /\ w \in 1..w /\ Gone + w = n /\ n \in 1..n
    BY <1>1, <1>2, <2>1
  <2>3. window # <<>> /\ window[w] = seen[n] /\ seen[n].sequence = n - 1
    BY <1>2, <2>2
  <2>4. Explorer!Last(window) = Explorer!Last(seen) /\ Explorer!Last(seen) = seen[n]
    BY <2>3 DEF Explorer!Last
  <2>5. Explorer!Statistics.newest = Explorer!Last(window).at
    BY <2>3 DEF Explorer!Statistics
  <2>6. Explorer!Statistics.oldest = Head(window).at
    BY <2>3 DEF Explorer!Statistics
  <2>7. Explorer!Statistics.last = n - 1
    BY <1>2, <2>1 DEF Explorer!Statistics
  <2>8. QED
    BY <1>1, <2>3, <2>4, <2>5, <2>6, <2>7
<1>7. ASSUME NEW id \in SeenIds
      PROVE  LET all == Explorer!Positions(id)
                 of == Explorer!MessageStatistics(id)
             IN  /\ of.retained = Cardinality({i \in all : i > Len(seen) - ExplorerCapacity})
                 /\ of.total = Cardinality(all)
                 /\ all # {} => of.dlc = seen[Explorer!Max(all)].dlc
                 /\ Cardinality(all) >= 2 =>
                      of.span = seen[Explorer!Max(all)].at - seen[Explorer!Min(all)].at
  <2> DEFINE of == Explorer!MessageStatistics(id)
             S == OfId(id)
  <2>1. Explorer!Positions(id) = S
    BY <1>2 DEF Explorer!Positions, OfId
  <2>2. {i \in S : i > n - ExplorerCapacity} = After(S, Gone)
    BY <1>1, <1>2 DEF OfId, After
  <2>3. /\ of.retained = perId[id].retained /\ of.total = perId[id].total
        /\ of.dlc = perId[id].dlc
        /\ perId[id].total >= 2 => of.span = perId[id].latest - perId[id].first
    BY DEF Explorer!MessageStatistics
  <2>4. ASSUME S # {}
        PROVE  /\ perId[id].dlc = seen[Explorer!Max(S)].dlc
               /\ perId[id].latest = seen[Explorer!Max(S)].at
               /\ perId[id].first = seen[Explorer!Min(S)].at
    <3>1. PICK f, l \in S :
            /\ \A i \in S : f <= i /\ i <= l
            /\ perId[id].first = seen[f].at /\ perId[id].latest = seen[l].at
            /\ perId[id].dlc = seen[l].dlc
      BY <1>3, <2>4 DEF Spans
    <3>2. S \in SUBSET Int
      BY DEF OfId
    <3>3. \A i \in S : l >= i
      BY <3>1, <3>2
    <3> HIDE DEF S
    <3>4. Explorer!Max(S) = l
      BY <3>2, <3>3, ExplorerMaxIs
    <3>5. Explorer!Min(S) = f
      BY <3>1, <3>2, ExplorerMinIs
    <3>6. QED
      BY <3>1, <3>4, <3>5
  <2>5. Cardinality(S) >= 2 => S # {}
    BY FS_EmptySet
  <2>6. perId[id].total = Cardinality(S) /\ perId[id].retained = Cardinality(After(S, Gone))
    BY <1>3
  <2> HIDE DEF of, S
  <2>7. QED
    BY <2>1, <2>2, <2>3, <2>4, <2>5, <2>6 DEF of
<1>8. \A id \in Messages \cup {Foreign} : id \in SeenIds
  BY DEF SeenIds
<1> HIDE DEF w
<1>9. QED
  BY <1>1, <1>4, <1>5, <1>6, <1>7, <1>8, ExplorerCardinality, Zenon DEF Explorer!StatisticsAgree

-----------------------------------------------------------------------------
\* The client.

Items == [kind : {"none", "frame", "end", "closed"}, source : Nat]

FeedInv ==
  /\ source \in Nat /\ subscribed \in BOOLEAN
  /\ queue \in Seq(Items) /\ hand \in Items
  /\ handler = "absent" => ~subscribed /\ slow = "no" /\ queue = <<>>
  /\ handler # "absent" /\ slow = "no" =>
       /\ subscribed
       /\ \A i \in 1..Len(queue) : queue[i].source = source
       /\ handler = "labelling" => hand.source = source

LEMMA PublishStep ==
  ASSUME FeedInv, NEW kind \in {"frame", "end"}, Publish(kind)
  PROVE  FeedInv'
<1> DEFINE room == Len(queue) < QueueCapacity
<1>1. /\ queue' = IF subscribed /\ room THEN Append(queue, Item(kind)) ELSE queue
      /\ subscribed' = (subscribed /\ room)
      /\ slow' = IF subscribed /\ ~room THEN "posted" ELSE slow
      /\ UNCHANGED <<source, handler, hand>>
  BY DEF Publish
<1>2. queue \in Seq(Items) /\ Item(kind) \in Items /\ Item(kind).source = source
  BY DEF FeedInv, Item, Items
<1> HIDE DEF room
<1>3. CASE subscribed /\ room
  <2>1. queue' = Append(queue, Item(kind)) /\ subscribed' = TRUE /\ slow' = slow
    BY <1>1, <1>3
  <2>2. /\ queue' \in Seq(Items) /\ Len(queue) \in Nat /\ Len(queue') = Len(queue) + 1
        /\ \A i \in 1..Len(queue) : queue'[i] = queue[i]
        /\ queue'[Len(queue) + 1] = Item(kind)
    BY <1>2, <2>1
  <2>3. handler # "absent"
    BY <1>3 DEF FeedInv
  <2>4. ASSUME slow = "no"
        PROVE  \A i \in 1..Len(queue') : queue'[i].source = source
    <3> SUFFICES ASSUME NEW i \in 1..Len(queue') PROVE queue'[i].source = source
      OBVIOUS
    <3>1. CASE i \in 1..Len(queue)
      BY <2>2, <2>3, <2>4, <3>1 DEF FeedInv
    <3>2. CASE i = Len(queue) + 1
      BY <1>2, <2>2, <3>2
    <3>3. i \in 1..Len(queue) \/ i = Len(queue) + 1
      BY <2>2
    <3>4. QED
      BY <3>1, <3>2, <3>3
  <2>5. QED
    BY <1>1, <2>1, <2>2, <2>3, <2>4 DEF FeedInv
<1>4. CASE subscribed /\ ~room
  <2>1. queue' = queue /\ subscribed' = FALSE /\ slow' = "posted"
    BY <1>1, <1>4
  <2>2. handler # "absent"
    BY <1>4 DEF FeedInv
  <2>3. QED
    BY <1>1, <2>1, <2>2 DEF FeedInv
<1>5. CASE ~subscribed
  <2>1. queue' = queue /\ subscribed' = FALSE /\ slow' = slow
    BY <1>1, <1>5
  <2>2. QED
    BY <1>1, <1>5, <2>1 DEF FeedInv
<1>6. QED
  BY <1>3, <1>4, <1>5 DEF FeedInv

LEMMA FeedStarts ==
  ASSUME FeedInit
  PROVE  PipelineInv /\ FeedInv
<1>1. PipelineInv
  BY PipelineStarts DEF FeedInit
<1>2. /\ source = 0 /\ subscribed = FALSE /\ slow = "no" /\ queue = <<>> /\ handler = "absent"
      /\ hand = Item("none")
  BY DEF FeedInit
<1>3. Item("none") \in Items /\ queue \in Seq(Items)
  BY <1>2 DEF Item, Items
<1>4. FeedInv
  BY <1>2, <1>3 DEF FeedInv
<1>5. QED
  BY <1>1, <1>4

LEMMA PipelineUnchanged ==
  ASSUME PipelineInv, UNCHANGED allVars
  PROVE  PipelineInv'
<1>1. UNCHANGED <<vars, window, perId, observed, seen, stage>>
  BY DEF allVars, explorer
<1>2. EngineInv' /\ UNCHANGED <<log, byId, clock>>
  BY <1>1, EngineUnchanged DEF PipelineInv
<1>3. ExplorerInv'
  BY <1>1, ExplorerUnchanged DEF PipelineInv
<1>4. (Untaken' <=> Untaken) /\ (Decoded' <=> Decoded)
  BY <1>1, <1>2 DEF Untaken, Decoded, Accepts, Known, Last
<1>5. AgreeInv'
  BY <1>1, <1>2, <1>4 DEF PipelineInv, AgreeInv
<1>6. QED
  BY <1>2, <1>3, <1>5 DEF PipelineInv

LEMMA FeedStep ==
  ASSUME PipelineInv, FeedInv, [FeedNext]_feedVars
  PROVE  PipelineInv' /\ FeedInv'
<1>1. CASE Work
  <2>1. CASE \E id \in Messages \cup {Foreign}, t \in Time, dlc \in Lengths :
               Observe(id, t, dlc) /\ Publish("frame")
    BY <2>1, ObserveStep, PublishStep
  <2>2. CASE Accept /\ UNCHANGED feed
    <3>1. UNCHANGED <<source, subscribed, slow, queue, handler, hand>>
      BY <2>2 DEF feed, subscription
    <3>2. QED
      BY <2>2, <3>1, AcceptStep DEF FeedInv
  <2>3. CASE (Refuse \/ Complete \/ Stop) /\ Publish("end")
    BY <2>3, EndStep, PublishStep
  <2>4. QED
    BY <1>1, <2>1, <2>2, <2>3 DEF Work
<1>2. CASE StartReplay
  <2>1. /\ ~subscribed /\ Restart /\ source' = source + 1
        /\ UNCHANGED <<subscribed, slow, queue, handler, hand>>
    BY <1>2 DEF StartReplay, subscription
  <2>2. QED
    BY <2>1, RestartStep DEF FeedInv
<1>3. CASE SubscribeCan
  <2>1. /\ subscribed' = TRUE /\ queue' = <<>> /\ handler' \in {"closing", "receiving"}
        /\ UNCHANGED <<allVars, source, hand>>
    BY <1>3 DEF SubscribeCan
  <2>2. /\ queue' \in Seq(Items) /\ 1..Len(queue') = {}
        /\ handler' # "labelling" /\ handler' # "absent" /\ subscribed' \in BOOLEAN
    BY <2>1
  <2>3. FeedInv'
    BY <2>1, <2>2 DEF FeedInv
  <2>4. QED
    BY <2>1, <2>3, PipelineUnchanged
<1>4. CASE DeliverClosed
  <2>1. /\ slow' = "told" /\ queue' = <<Item("closed")>> /\ slow = "posted"
        /\ UNCHANGED <<allVars, source, subscribed, handler, hand>>
    BY <1>4 DEF DeliverClosed
  <2>2. queue' \in Seq(Items) /\ handler # "absent"
    <3>1. Item("closed") \in Items /\ handler # "absent"
      BY <2>1 DEF FeedInv, Item, Items
    <3>2. QED
      BY <2>1, <3>1
  <2>3. FeedInv'
    BY <2>1, <2>2 DEF FeedInv
  <2>4. QED
    BY <2>1, <2>3, PipelineUnchanged
<1>5. CASE Receive
  <2>1. /\ handler = "receiving" /\ queue # <<>> /\ hand' = Head(queue) /\ queue' = Tail(queue)
        /\ handler' \in {"closing", "labelling"}
        /\ UNCHANGED <<allVars, source, subscribed, slow>>
    BY <1>5 DEF Receive
  <2>2. queue \in Seq(Items)
    BY DEF FeedInv
  <2>3. /\ hand' \in Items /\ queue' \in Seq(Items) /\ Len(queue) \in Nat \ {0}
        /\ hand' = queue[1] /\ Len(queue') = Len(queue) - 1
        /\ \A i \in 1..(Len(queue) - 1) : queue'[i] = queue[i + 1]
    BY <2>1, <2>2
  <2>4. ASSUME slow = "no"
        PROVE  /\ hand'.source = source
               /\ \A i \in 1..Len(queue') : queue'[i].source = source
    <3>1. \A i \in 1..Len(queue) : queue[i].source = source
      BY <2>1, <2>4 DEF FeedInv
    <3>2. 1 \in 1..Len(queue) /\ \A i \in 1..(Len(queue) - 1) : i + 1 \in 1..Len(queue)
      BY <2>3
    <3>3. QED
      BY <2>3, <3>1, <3>2
  <2>5. FeedInv'
    BY <2>1, <2>3, <2>4 DEF FeedInv
  <2>6. QED
    BY <2>1, <2>5, PipelineUnchanged
<1>6. CASE Send
  <2>1. /\ handler = "labelling" /\ handler' \in {"closing", "receiving"}
        /\ UNCHANGED <<allVars, source, subscribed, slow, queue, hand>>
    BY <1>6 DEF Send, subscription
  <2>2. FeedInv'
    BY <2>1 DEF FeedInv
  <2>3. QED
    BY <2>1, <2>2, PipelineUnchanged
<1>7. CASE Close
  <2>1. /\ handler' = "absent" /\ subscribed' = FALSE /\ queue' = <<>> /\ slow' = "no"
        /\ hand' = Item("none") /\ UNCHANGED <<allVars, source>>
    BY <1>7 DEF Close
  <2>2. Item("none") \in Items /\ hand' \in Items /\ queue' \in Seq(Items)
    <3>1. Item("none") \in Items
      BY DEF FeedInv, Item, Items
    <3>2. QED
      BY <2>1, <3>1
  <2>3. FeedInv'
    BY <2>1, <2>2 DEF FeedInv
  <2>4. QED
    BY <2>1, <2>3, PipelineUnchanged
<1>8. CASE UNCHANGED feedVars
  <2>1. UNCHANGED <<allVars, source, subscribed, slow, queue, handler, hand>>
    BY <1>8 DEF feedVars, feed, subscription
  <2>2. FeedInv'
    BY <2>1 DEF FeedInv
  <2>3. QED
    BY <2>1, <2>2, PipelineUnchanged
<1>9. QED
  BY <1>1, <1>2, <1>3, <1>4, <1>5, <1>6, <1>7, <1>8 DEF FeedNext

-----------------------------------------------------------------------------
\* Theorems.

\* The inductive invariant of the worker's pipeline and its CAN client (service.py
\* _ingest_can_explorer and ingest_decoded, app.py can_websocket).
THEOREM FeedInvariant == FeedSpec => [](PipelineInv /\ FeedInv)
<1>1. FeedInit => PipelineInv /\ FeedInv
  BY FeedStarts
<1>2. PipelineInv /\ FeedInv /\ [FeedNext]_feedVars => PipelineInv' /\ FeedInv'
  BY FeedStep
<1>3. QED
  BY <1>1, <1>2, PTL DEF FeedSpec

\* Histories, snapshots and totals of TelemetryEngine are views of one log, for
\* every capacity, limit, catalog and length of the source, and across restarts
\* (engine.py ingest, history, snapshot and statistics).
THEOREM ViewsAgreeHolds == FeedSpec => []ViewsAgree
<1>1. PipelineInv => ViewsAgree
  BY EngineViews DEF PipelineInv
<1>2. QED
  BY <1>1, FeedInvariant, PTL

\* Fresh means that a frame with the signal came within twice its period
\* (engine.py freshness).
THEOREM FreshMeansRecentHolds == FeedSpec => []FreshMeansRecent
<1>1. PipelineInv => FreshMeansRecent
  BY EngineFreshness DEF PipelineInv
<1>2. QED
  BY <1>1, FeedInvariant, PTL

\* Every answer of the CAN explorer's routes comes from the newest part of what
\* was observed, and its counters are what a recount would give, for every
\* capacity, filter, limit and length of the source (explorer.py ingest and the
\* queries).
THEOREM ExplorerExactHolds == FeedSpec => []ExplorerExact
<1>1. PipelineInv => ExplorerExact
  BY ExplorerQueries, ExplorerRecount DEF PipelineInv, ExplorerExact
<1>2. QED
  BY <1>1, FeedInvariant, PTL

\* The telemetry engine has what the explorer has, under the same numbers, but
\* for the frame that is being decoded or was refused (service.py, the two locked
\* sections a worker runs for every frame).
THEOREM PagesAgreeHolds == FeedSpec => []PagesAgree
<1>1. PipelineInv => PagesAgree
  BY PipelinePages
<1>2. QED
  BY <1>1, FeedInvariant, PTL

\* A CAN event leaves under the name of the source that produced it, for queues
\* of any capacity and any number of replays (app.py can_websocket; start_replay
\* refuses while a subscriber is registered).
THEOREM LabelledBySourceHolds == FeedSpec => []LabelledBySource
<1>1. FeedInv => LabelledBySource
  <2> SUFFICES ASSUME FeedInv, handler = "labelling", slow = "no"
               PROVE  Labelled(hand) = hand
    BY DEF LabelledBySource
  <2>1. hand \in Items /\ hand.source = source
    BY DEF FeedInv
  <2>2. hand = [kind |-> hand.kind, source |-> hand.source]
    BY <2>1 DEF Items
  <2>3. QED
    BY <2>1, <2>2 DEF Labelled
<1>2. QED
  BY <1>1, FeedInvariant, PTL
=============================================================================
