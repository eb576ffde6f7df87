--------------------------- MODULE TelemetryEngine ---------------------------
(***************************************************************************)
(* The latest values, bounded histories, statistics and freshness that       *)
(* backend/src/tuneros/telemetry/engine.py derives from decoded frames.      *)
(*                                                                         *)
(* A sample is abstracted to its timestamp and its frame sequence; the       *)
(* sequence identifies the value.  catalog.py's definitions_for_frame is    *)
(* the constant Signals: a frame names a message and some of its signals.   *)
(* Times are simulation microseconds; -1 stands for Python's None.           *)
(***************************************************************************)
EXTENDS Integers, Sequences, FiniteSets, FiniteSetsExt, SequencesExt

CONSTANTS
  Messages,         \* message names of the catalog, one per arbitration ID
  Signals,          \* Signals[m]: the signal keys of message m
  Period,           \* Period[m]: expected_period_microseconds
  Foreign,          \* a message or signal the catalog does not know
  HistoryCapacity,  \* maxlen of each history deque
  Time,             \* bound: the timestamps frames carry
  MaxFrames         \* bound: frames accepted between resets

Keys == UNION {Signals[m] : m \in Messages}

ASSUME SignalsAssumption ==
  /\ \A m \in Messages : IsFiniteSet(Signals[m])
  /\ \A m, n \in Messages : m # n => Signals[m] \cap Signals[n] = {}
  /\ Foreign \notin Messages \cup Keys
ASSUME EngineAssumption ==
  /\ Period \in [Messages -> Nat \ {0}]
  /\ HistoryCapacity \in Nat \ {0} /\ Time \subseteq Nat /\ MaxFrames \in Nat

None == -1
FRESHNESS_PERIOD_MULTIPLIER == 2
NoSample == [at |-> None, sequence |-> None]
Samples == [at : Time, sequence : Nat]
MessageOf(k) == CHOOSE m \in Messages : k \in Signals[m]

VARIABLES
  latest,     \* latest[k]: the latest sample of key k, or NoSample
  histories,  \* histories[k]: the retained samples of key k, oldest first
  frames,     \* _total_frames, which is also _next_frame_sequence
  updates,    \* _total_signal_updates
  byId,       \* _frames_by_arbitration_id
  clock,      \* _latest_timestamp_microseconds
  log         \* history: every frame accepted since the last reset

vars == <<latest, histories, frames, updates, byId, clock, log>>

Init ==
  /\ latest = [k \in Keys |-> NoSample]
  /\ histories = [k \in Keys |-> <<>>]
  /\ frames = 0 /\ updates = 0
  /\ byId = [m \in Messages |-> 0]
  /\ clock = None
  /\ log = <<>>

\* definitions_for_frame: the message and every signal must be in the catalog.
Known(m, signals) == m \in Messages /\ signals \subseteq Signals[m]

\* The checks of ingest, all of them before its first mutation.
Accepts(m, signals, t) == t >= clock /\ Known(m, signals)

\* A deque with maxlen.
Push(h, sample) ==
  IF Len(h) = HistoryCapacity THEN Append(Tail(h), sample) ELSE Append(h, sample)

UpdatesOf(signals) == Cardinality(signals)

Ingest(m, signals, t) ==
  /\ Accepts(m, signals, t)
  /\ frames < MaxFrames
  /\ LET sample == [at |-> t, sequence |-> frames]
     IN  /\ histories' = [k \in Keys |->
              IF k \in signals THEN Push(histories[k], sample) ELSE histories[k]]
         /\ latest' = [k \in Keys |-> IF k \in signals THEN sample ELSE latest[k]]
  /\ frames' = frames + 1
  /\ updates' = updates + UpdatesOf(signals)
  /\ byId' = [byId EXCEPT ![m] = @ + 1]
  /\ clock' = t
  /\ log' = Append(log, [message |-> m, signals |-> signals, at |-> t])

Reset ==
  /\ latest' = [k \in Keys |-> NoSample]
  /\ histories' = [k \in Keys |-> <<>>]
  /\ frames' = 0 /\ updates' = 0
  /\ byId' = [m \in Messages |-> 0]
  /\ clock' = None
  /\ log' = <<>>

\* A rejected frame raises and leaves the engine as it is.
Next ==
  \/ \E m \in Messages \cup {Foreign}, t \in Time :
       \E signals \in (SUBSET (Keys \cup {Foreign})) \ {{}} : Ingest(m, signals, t)
  \/ Reset

Spec == Init /\ [][Next]_vars

-----------------------------------------------------------------------------
\* Mutant: a sample exactly two periods old is stale.
FreshnessStrict(k) ==
  IF latest[k] = NoSample THEN "none"
  ELSE IF clock - latest[k].at < Period[MessageOf(k)] * FRESHNESS_PERIOD_MULTIPLIER
       THEN "fresh" ELSE "stale"

\* freshness(key) at the observation time of the engine: an unseen key has none.
Freshness(k) ==
  IF latest[k] = NoSample THEN "none"
  ELSE IF clock - latest[k].at <= Period[MessageOf(k)] * FRESHNESS_PERIOD_MULTIPLIER
       THEN "fresh" ELSE "stale"

\* latest(key), as TelemetryService.latest answers it.
LatestOf(k) == [sample |-> latest[k], freshness |-> Freshness(k)]

\* Mutant: the oldest retained samples are returned.
HistoryOldest(k, limit) == SubSeq(histories[k], 1, Min({limit, Len(histories[k])}))

\* The limits the route accepts.
HistoryLimits == 1..HistoryCapacity

\* history(key, limit).
History(k, limit) ==
  LET n == Len(histories[k]) IN SubSeq(histories[k], Max({1, n - limit + 1}), n)

\* statistics(), with _last_frame_sequence.
Statistics ==
  [total |-> frames, updates |-> updates, at |-> clock, byId |-> byId,
   last |-> IF frames = 0 THEN None ELSE frames - 1]

\* snapshot(): every signal seen, at one observation time.
Snapshot ==
  [at |-> clock, statistics |-> Statistics,
   signals |-> [k \in {k \in Keys : latest[k] # NoSample} |-> LatestOf(k)]]

-----------------------------------------------------------------------------
\* Properties.

TypeOK ==
  /\ latest \in [Keys -> Samples \cup {NoSample}]
  /\ histories \in [Keys -> Seq(Samples)]
  /\ \A k \in Keys : Len(histories[k]) <= HistoryCapacity
  /\ frames \in Nat /\ updates \in Nat /\ byId \in [Messages -> Nat]
  /\ clock \in Time \cup {None}

\* The samples key k has had since the last reset, from the log.
SamplesOf(k) ==
  LET seen == {i \in DOMAIN log : k \in log[i].signals}
  IN  [i \in 1..Cardinality(seen) |->
        LET n == CHOOSE n \in seen : Cardinality({j \in seen : j <= n}) = i
        IN  [at |-> log[n].at, sequence |-> n - 1]]

\* Everything the routes read is a view of one log, although the engine keeps
\* the parts separately: a history, cut to any limit, ends with the last sample
\* of its key and misses none; a snapshot has exactly the keys that have been
\* seen, each with the last sample of its history; and the totals are those of
\* the frames taken in.
ViewsAgree ==
  /\ \A k \in Keys, limit \in HistoryLimits :
       LET all == SamplesOf(k)
       IN  History(k, limit) = SubSeq(all, Max({1, Len(all) - limit + 1}), Len(all))
  /\ DOMAIN Snapshot.signals = UNION {log[i].signals : i \in DOMAIN log}
  /\ \A k \in DOMAIN Snapshot.signals : Snapshot.signals[k].sample = Last(SamplesOf(k))
  /\ Statistics.total = Len(log)
  /\ Statistics.updates = Cardinality({p \in (DOMAIN log) \X Keys : p[2] \in log[p[1]].signals})
  /\ \A m \in Messages :
       Statistics.byId[m] = Cardinality({i \in DOMAIN log : log[i].message = m})

\* A signal is fresh exactly when a frame with it came within twice its
\* period of the newest frame of any message.
FreshMeansRecent ==
  \A k \in Keys :
    Freshness(k) = "fresh" <=>
      \E i \in DOMAIN log : k \in log[i].signals /\ clock - log[i].at <= 2 * Period[MessageOf(k)]
=============================================================================
