--------------------------- MODULE DiagnosticEngine ---------------------------
(***************************************************************************)
(* The DTC lifecycle of backend/src/tuneros/diagnostics/engine.py.          *)
(*                                                                         *)
(* DiagnosticEngine.ingest evaluates every catalog rule, in catalog order, *)
(* against one coherent telemetry snapshot; the loop over the rules is one  *)
(* step per rule, and the service lock keeps clear() and reset() out of it. *)
(* A rule's reading of a snapshot is abstracted to where its signals stand: *)
(*   "unavailable"  some required signal is missing or stale               *)
(*   "clear"        beyond the recovery threshold (or context false)       *)
(*   "band"         between the recovery and the activation threshold      *)
(*   "fault"        beyond the activation threshold                        *)
(* All times are simulation microseconds; -1 stands for Python's None.      *)
(***************************************************************************)
EXTENDS Integers, Sequences, FiniteSets

CONSTANTS
  Catalog,        \* sequence of diagnostic codes in catalog (evaluation) order
  Confirmation,   \* Confirmation[c]: confirmation_duration_microseconds
  Recovery,       \* Recovery[c]: recovery_duration_microseconds
  EventCapacity,  \* maxlen of the event deque
  MaxTime,        \* bound: latest simulation time of a snapshot
  MaxFrames       \* bound: telemetry frame sequences are below this

Codes == {Catalog[i] : i \in DOMAIN Catalog}

ASSUME CatalogAssumption ==
  /\ Catalog \in Seq(Codes)
  /\ \A i, j \in DOMAIN Catalog : Catalog[i] = Catalog[j] => i = j
ASSUME DurationAssumption ==
  /\ Confirmation \in [Codes -> Nat]
  /\ Recovery \in [Codes -> Nat]
ASSUME BoundAssumption ==
  EventCapacity \in Nat \ {0} /\ MaxTime \in Nat /\ MaxFrames \in Nat

None == -1
Time == 0..MaxTime
Readings == {"unavailable", "clear", "band", "fault"}
Recorded == {"pending", "active", "historical", "cleared"}
Statuses == Recorded \cup {"none"}     \* "none": no DTC record, or Python None
EventTypes == {"condition_detected", "condition_cleared", "dtc_confirmed",
               "dtc_recovered", "dtc_cleared"}

VARIABLES
  rule,        \* rule[c]: the _RuleState of code c, its DTC record inlined
  events,      \* the bounded deque of retained DiagnosticEvents
  nextEvent,   \* _next_event_sequence
  observed,    \* _observation_timestamp_microseconds
  frame,       \* _latest_telemetry_frame_sequence
  cursor,      \* position of the loop of ingest in Catalog; 0 outside ingest
  evaluated    \* history: evaluated[c] is the time of the last evaluation of c

vars == <<rule, events, nextEvent, observed, frame, cursor, evaluated>>

NoFreeze == [at |-> None, sequence |-> None]

\* _RuleState() with no DTC record.
Blank == [status |-> "none", first |-> None, confirmed |-> None, seen |-> None,
          resolved |-> None, cleared |-> None, occurrences |-> 0,
          available |-> FALSE, started |-> None, recovery |-> None,
          origin |-> "none", freeze |-> NoFreeze]

RuleStates ==
  [status : Statuses, first : Time \cup {None}, confirmed : Time \cup {None},
   seen : Time \cup {None}, resolved : Time \cup {None}, cleared : Time \cup {None},
   occurrences : Nat, available : BOOLEAN, started : Time \cup {None},
   recovery : Time \cup {None}, origin : Statuses,
   freeze : [at : Time \cup {None}, sequence : Nat \cup {None}]]

Events == [sequence : Nat, at : Time, code : Codes, type : EventTypes,
           prior : Statuses, new : Statuses]

-----------------------------------------------------------------------------
\* Evaluation of one rule.

\* _inputs_are_fresh followed by rule.condition.evaluate(active=...): the
\* recovery threshold decides while the DTC is active, the activation
\* threshold otherwise.
Evaluate(s, reading) ==
  IF reading = "unavailable" THEN "unavailable"
  ELSE IF reading = "fault" \/ (reading = "band" /\ s.status = "active")
       THEN "violation" ELSE "normal"

\* _pending_record and the bookkeeping around it.
Detect(s, t) ==
  [s EXCEPT !.origin = s.status, !.started = t, !.status = "pending",
            !.first = IF s.status = "none" THEN t ELSE @, !.seen = t]

\* A condition that is already pending: keep, or restart, its timer.
Sustain(s, t) ==
  [s EXCEPT !.started = IF @ = None THEN t ELSE @, !.seen = t]

\* The record once the violation has started or gone on, before confirmation.
Pend(s, t) == IF s.status = "pending" THEN Sustain(s, t) ELSE Detect(s, t)

Confirms(c, s, t) ==
  s.status # "active" /\ t - Pend(s, t).started >= Confirmation[c]

\* Mutant: timestamps of the previous occurrence survive the confirmation.
ConfirmStale(s, t, n) ==
  [s EXCEPT !.freeze = IF @ = NoFreeze THEN [at |-> t, sequence |-> n] ELSE @,
            !.status = "active", !.confirmed = t, !.seen = t,
            !.occurrences = @ + 1, !.available = TRUE,
            !.started = None, !.origin = "none"]

\* Mutant: every confirmation captures a new freeze frame.
ConfirmRefreezing(s, t, n) ==
  [s EXCEPT !.freeze = [at |-> t, sequence |-> n],
            !.status = "active", !.confirmed = t, !.seen = t,
            !.resolved = None, !.cleared = None,
            !.occurrences = @ + 1, !.available = TRUE,
            !.started = None, !.origin = "none"]

\* _capture_freeze_frame happens on the first activation only.
Confirm(s, t, n) ==
  [s EXCEPT !.freeze = IF @ = NoFreeze THEN [at |-> t, sequence |-> n] ELSE @,
            !.status = "active", !.confirmed = t, !.seen = t,
            !.resolved = None, !.cleared = None,
            !.occurrences = @ + 1, !.available = TRUE,
            !.started = None, !.origin = "none"]

HandleViolation(c, s0, t, n) ==
  LET s == [s0 EXCEPT !.recovery = None]
  IN  IF s.status = "active" THEN [s EXCEPT !.seen = t]
      ELSE IF Confirms(c, s, t) THEN Confirm(Pend(s, t), t, n)
      ELSE Pend(s, t)

\* Mutant: a pending condition that normalizes always drops its record.
RetractAll(s) == [Blank EXCEPT !.recovery = s.recovery, !.freeze = s.freeze]

\* A pending condition that normalizes: back to its origin, or no record.
Retract(s) ==
  IF s.origin = "none" THEN [Blank EXCEPT !.recovery = s.recovery, !.freeze = s.freeze]
  ELSE [s EXCEPT !.status = s.origin, !.origin = "none"]

RecoveryStart(s, t) == IF s.recovery = None THEN t ELSE s.recovery

Recovers(c, s, t) ==
  s.status = "active" /\ t - RecoveryStart(s, t) >= Recovery[c]

HandleNormal(c, s0, t) ==
  LET s == [s0 EXCEPT !.started = None]
  IN  CASE s.status = "none" -> s
        [] s.status = "pending" -> Retract(s)
        [] s.status \in {"historical", "cleared"} -> [s EXCEPT !.recovery = None]
        [] s.status = "active" ->
             IF Recovers(c, s, t)
             THEN [s EXCEPT !.status = "historical", !.resolved = t, !.recovery = None]
             ELSE [s EXCEPT !.recovery = RecoveryStart(s, t)]

\* Unavailable inputs only stop both timers.
HandleUnavailable(s) == [s EXCEPT !.started = None, !.recovery = None]

\* _evaluate_rule: the rule state after one snapshot.
EvaluateRule(c, s, reading, t, n) ==
  CASE Evaluate(s, reading) = "unavailable" -> HandleUnavailable(s)
    [] Evaluate(s, reading) = "violation" -> HandleViolation(c, s, t, n)
    [] Evaluate(s, reading) = "normal" -> HandleNormal(c, s, t)

Event(c, t, type, prior, new) ==
  [code |-> c, at |-> t, type |-> type, prior |-> prior, new |-> new]

\* Mutant: the event of an immediate confirmation hides the detection.
EventsOfConfirmed(c, s, reading, t) ==
  CASE Evaluate(s, reading) = "violation" /\ s.status # "active" ->
         IF Confirms(c, s, t) THEN <<Event(c, t, "dtc_confirmed", "pending", "active")>>
         ELSE IF s.status = "pending" THEN <<>>
         ELSE <<Event(c, t, "condition_detected", s.status, "pending")>>
    [] Evaluate(s, reading) = "normal" /\ s.status = "pending" ->
         <<Event(c, t, "condition_cleared", "pending", "none")>>
    [] Evaluate(s, reading) = "normal" /\ Recovers(c, s, t) ->
         <<Event(c, t, "dtc_recovered", "active", "historical")>>
    [] OTHER -> <<>>

\* _evaluate_rule: the transition events it generates, oldest first.
EventsOf(c, s, reading, t) ==
  CASE Evaluate(s, reading) = "violation" /\ s.status # "active" ->
         (IF s.status = "pending" THEN <<>>
          ELSE <<Event(c, t, "condition_detected", s.status, "pending")>>)
         \o (IF Confirms(c, s, t)
             THEN <<Event(c, t, "dtc_confirmed", "pending", "active")>> ELSE <<>>)
    [] Evaluate(s, reading) = "normal" /\ s.status = "pending" ->
         <<Event(c, t, "condition_cleared", "pending", s.origin)>>
    [] Evaluate(s, reading) = "normal" /\ Recovers(c, s, t) ->
         <<Event(c, t, "dtc_recovered", "active", "historical")>>
    [] OTHER -> <<>>

-----------------------------------------------------------------------------
\* The event deque.

\* A deque with maxlen keeps the newest entries.
Latest(s) ==
  IF Len(s) <= EventCapacity THEN s
  ELSE SubSeq(s, Len(s) - EventCapacity + 1, Len(s))

Numbered(e, n) ==
  [sequence |-> n, at |-> e.at, code |-> e.code, type |-> e.type,
   prior |-> e.prior, new |-> e.new]

\* _append_event for each event in turn.
AppendEvents(new) ==
  /\ events' = Latest(events \o [i \in 1..Len(new) |-> Numbered(new[i], nextEvent + i - 1)])
  /\ nextEvent' = nextEvent + Len(new)

-----------------------------------------------------------------------------
Init ==
  /\ rule = [c \in Codes |-> Blank]
  /\ events = <<>>
  /\ nextEvent = 0
  /\ observed = None
  /\ frame = None
  /\ cursor = 0
  /\ evaluated = [c \in Codes |-> None]

\* ingest(snapshot) up to its loop: a snapshot that moves backward raises
\* before any mutation, one of an engine that has seen no frame is ignored.
\* The telemetry engine numbers its frames, so each snapshot has a later one.
Ingest(t, n) ==
  /\ cursor = 0
  /\ t >= observed
  /\ n > frame
  /\ observed' = t
  /\ frame' = n
  /\ cursor' = IF Catalog = <<>> THEN 0 ELSE 1
  /\ UNCHANGED <<rule, events, nextEvent, evaluated>>

\* One iteration of the loop: _evaluate_rule of the rule at the cursor.
EvaluateNext(reading) ==
  /\ cursor # 0
  /\ LET c == Catalog[cursor]
     IN  /\ rule' = [rule EXCEPT ![c] = EvaluateRule(c, @, reading, observed, frame)]
         /\ AppendEvents(EventsOf(c, rule[c], reading, observed))
         /\ evaluated' = [evaluated EXCEPT ![c] = observed]
  /\ cursor' = IF cursor = Len(Catalog) THEN 0 ELSE cursor + 1
  /\ UNCHANGED <<observed, frame>>

\* clear(code): only a historical DTC changes; the other cases raise or
\* return the cleared record.
Clear(c) ==
  /\ cursor = 0
  /\ rule[c].status = "historical"
  /\ rule' = [rule EXCEPT ![c].status = "cleared", ![c].cleared = observed]
  /\ AppendEvents(<<Event(c, observed, "dtc_cleared", "historical", "cleared")>>)
  /\ UNCHANGED <<observed, frame, cursor, evaluated>>

\* reset(): called when a live or replay source starts.
Reset ==
  /\ cursor = 0
  /\ rule' = [c \in Codes |-> Blank]
  /\ events' = <<>>
  /\ nextEvent' = 0
  /\ observed' = None
  /\ frame' = None
  /\ cursor' = 0
  /\ evaluated' = [c \in Codes |-> None]

Next ==
  \/ \E t \in Time, n \in 0..(MaxFrames - 1) : Ingest(t, n)
  \/ \E reading \in Readings : EvaluateNext(reading)
  \/ \E c \in Codes : Clear(c)
  \/ Reset

Spec == Init /\ [][Next]_vars

-----------------------------------------------------------------------------
\* Queries.

\* dtcs(status): the places in the catalog of the records listed, which are
\* returned in that order.
Dtcs(statuses) ==
  {i \in DOMAIN Catalog : rule[Catalog[i]].status \in statuses \ {"none"}}

\* events(limit).
EventsUpTo(limit) ==
  LET n == Len(events) IN SubSeq(events, IF n > limit THEN n - limit + 1 ELSE 1, n)

\* snapshot(): the numbers of the summary.
Summary ==
  [retained |-> Len(events), total |-> nextEvent,
   latest |-> IF nextEvent = 0 THEN None ELSE nextEvent - 1,
   count |-> [status \in {"pending", "active", "historical", "cleared"} |->
                Cardinality(Dtcs({status}))]]

-----------------------------------------------------------------------------
\* Properties.

TypeOK ==
  /\ rule \in [Codes -> RuleStates]
  /\ events \in Seq(Events)
  /\ Len(events) <= EventCapacity
  /\ nextEvent \in Nat
  /\ observed \in Time \cup {None}
  /\ frame \in (0..(MaxFrames - 1)) \cup {None}
  /\ cursor \in 0..Len(Catalog)
  /\ evaluated \in [Codes -> Time \cup {None}]

\* Until another source starts, the record of a code that has been confirmed is
\* never lost, through every later pending episode, however that ends, and
\* every recovery and clear(): it keeps the time of its first detection, the
\* freeze frame of its first confirmation, the time of its last one, and its
\* count, which grows by one just when the DTC becomes active.  A code that was
\* never confirmed has none of this.
ConfirmedRecordKept ==
  [][Reset \/ \A c \in Codes :
       LET was == rule[c]
           is == rule'[c]
           activated == was.status # "active" /\ is.status = "active"
       IN  /\ is.occurrences = was.occurrences + (IF activated THEN 1 ELSE 0)
           /\ was.occurrences >= 1 =>
                /\ is.status # "none" /\ is.first = was.first /\ is.freeze = was.freeze
                /\ activated \/ is.confirmed = was.confirmed
           /\ is.available <=> is.occurrences >= 1
           /\ is.freeze # NoFreeze <=> is.occurrences >= 1]_vars

\* What stands about a code while a condition of it may be pending.
Standing(s) == IF s.status = "pending" THEN s.origin ELSE s.status

\* The timestamps of a record tell its life in order: detected, frozen at the
\* first confirmation, confirmed, resolved, cleared, seen; a record that
\* stands at a status has the timestamps of that status and not those of a
\* later one left over from the occurrence before.
Timeline ==
  \A c \in Codes :
    LET s == rule[c]
        standing == Standing(s)
    IN  /\ s.status # "none" => 0 <= s.first /\ s.first <= s.seen /\ s.seen <= observed
        /\ s.occurrences >= 1 =>
             s.first <= s.freeze.at /\ s.freeze.at <= s.confirmed /\ s.confirmed <= s.seen
        /\ standing = "active" => s.resolved = None /\ s.cleared = None
        /\ standing \in {"historical", "cleared"} => s.resolved >= s.confirmed
        /\ standing = "historical" => s.cleared = None
        /\ standing = "cleared" => s.cleared >= s.resolved

Lifecycle == INSTANCE DtcLifecycle WITH
  settled <- [c \in Codes |-> Standing(rule[c])],
  pending <- {c \in Codes : rule[c].status = "pending"},
  occurrences <- [c \in Codes |-> rule[c].occurrences],
  frozen <- [c \in Codes |-> rule[c].freeze.sequence],
  Frames <- 0..(MaxFrames - 1),
  NoFrame <- None

\* The engine implements the lifecycle its documentation draws: whatever the
\* readings, the timers and the calls of clear() and reset(), every step is one
\* of DtcLifecycle's, or none of its concern.
ImplementsLifecycle == Lifecycle!Spec

EventsFor(c) == {i \in DOMAIN events : events[i].code = c}

\* The codes whose last retained event left them in the status.
LeftIn(status) ==
  {c \in Codes : \E i \in EventsFor(c) :
     events[i].new = status /\ \A j \in EventsFor(c) : j <= i}

\* What the routes list explains the present: the events they return, to any
\* limit, are numbered without a gap up to the one the summary names, in time
\* order; consecutive events of a code chain (one's new status is the next
\* one's prior); the last one left the code in its present status; with nothing
\* evicted, every confirmation counted in the record is among them, and the
\* counts of the summary are the ones the events lead to.
EventsExplainStatus ==
  /\ \A limit \in 1..(EventCapacity + 1) :
       LET listed == EventsUpTo(limit)
       IN  /\ \A i \in DOMAIN listed : listed[i].sequence = Summary.latest - Len(listed) + i
           /\ limit >= Summary.retained => Len(listed) = Summary.retained
  /\ \A i, j \in DOMAIN events : i < j => events[i].at <= events[j].at
  /\ \A c \in Codes :
       /\ \A i \in EventsFor(c) :
            IF \E j \in EventsFor(c) : j > i
            THEN \E j \in EventsFor(c) :
                   /\ j > i /\ \A k \in EventsFor(c) : k > i => j <= k
                   /\ events[j].prior = events[i].new
            ELSE events[i].new = rule[c].status
       /\ Summary.total = Summary.retained =>
            /\ EventsFor(c) = {} => rule[c].status = "none"
            /\ Cardinality({i \in EventsFor(c) : events[i].type = "dtc_confirmed"})
                 = rule[c].occurrences
  /\ Summary.total = Summary.retained =>
       \A status \in DOMAIN Summary.count : Summary.count[status] = Cardinality(LeftIn(status))
=============================================================================
