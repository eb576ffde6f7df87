------------------------- MODULE MonitoredDiagnostics -------------------------
(***************************************************************************)
(* The diagnostic engine over the rules of the default catalog: each rule    *)
(* reads the values of its signals, and its DTC follows.  The snapshot is    *)
(* chosen rule by rule, so two rules that share a signal may see different   *)
(* values of it: that allows more behaviours than the code has, none fewer.  *)
(***************************************************************************)
EXTENDS DiagnosticEngine, DiagnosticRules

CONSTANT
  SnapshotsFor(_)   \* SnapshotsFor(c): the snapshots tried on the rule of c

ASSUME MonitoredAssumption ==
  /\ Codes \subseteq DefaultCodes
  /\ \A c \in Codes : SnapshotsFor(c) \subseteq Snapshots

VARIABLE
  evidence   \* history: since when each description of each code has held

monitored == <<vars, evidence>>

NoEvidence == [activation |-> None, recovery |-> None]

\* The time since which a description has held, once it has been read again.
Since(since, holds, t) ==
  IF ~holds THEN None ELSE IF since = None THEN t ELSE since

Observe(e, c, snapshot, t) ==
  IF ~InputsAreFresh(c, snapshot) THEN NoEvidence
  ELSE [activation |-> Since(e.activation, ActivationDescribed(c, snapshot), t),
        recovery |-> Since(e.recovery, RecoveryDescribed(c, snapshot), t)]

MonitoredInit == Init /\ evidence = [c \in Codes |-> NoEvidence]

\* _evaluate_rule of the rule at the cursor.
EvaluateSnapshot(snapshot) ==
  LET c == Catalog[cursor]
  IN  /\ EvaluateNext(Reading(c, snapshot))
      /\ evidence' = [evidence EXCEPT ![c] = Observe(@, c, snapshot, observed)]

\* TelemetryService.ingest_decoded: the engine numbers each frame it accepts and
\* its snapshot is evaluated at once, so no number is left out.
IngestFrame(t) ==
  /\ frame + 1 < MaxFrames
  /\ Ingest(t, frame + 1)
  /\ UNCHANGED evidence

MonitoredNext ==
  \/ \E t \in Time : IngestFrame(t)
  \/ /\ cursor # 0
     /\ \E snapshot \in SnapshotsFor(Catalog[cursor]) : EvaluateSnapshot(snapshot)
  \/ \E c \in Codes : Clear(c) /\ UNCHANGED evidence
  \/ Reset /\ evidence' = [c \in Codes |-> NoEvidence]

MonitoredSpec == MonitoredInit /\ [][MonitoredNext]_monitored

-----------------------------------------------------------------------------
Lasts(since, until, duration) == since # None /\ until - since >= duration

\* What the catalog tells the user is what happens: a DTC becomes active only
\* when its activation description has held, freshly observed and without a
\* break, for the confirmation duration, and leaves the active state only when
\* its recovery description has for the recovery duration; and once either has
\* lasted that long, the DTC is active, or no longer active.  The thresholds
\* the engine compares with change with the status, so this takes both the
\* hysteresis of rules.py and the timers of engine.py.
TransitionsAsDescribed ==
  [][\A c \in Codes :
       LET was == rule[c].status
           is == rule'[c].status
           activated == Lasts(evidence'[c].activation, evaluated'[c], Confirmation[c])
           recovered == Lasts(evidence'[c].recovery, evaluated'[c], Recovery[c])
       IN  /\ (was # "active" /\ is = "active") => activated
           /\ (was = "active" /\ is = "historical") => recovered
           /\ activated => is = "active"
           /\ recovered => is # "active"]_monitored
=============================================================================
