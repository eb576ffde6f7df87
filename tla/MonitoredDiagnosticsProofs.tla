---------------------- MODULE MonitoredDiagnosticsProofs ----------------------
(***************************************************************************)
(* The diagnostics for every catalog of default rules, all durations,        *)
(* all values of the signals and any number of snapshots.                   *)
(*                                                                         *)
(* The argument: a rule's reading says which of its descriptions hold        *)
(* (ReadingAsDescribed), so the timer of a pending DTC started when its      *)
(* activation description began to hold, that of an active one when its      *)
(* recovery description did, and neither has reached its duration yet, or    *)
(* the step that read it would have left the state (CodeInv).               *)
(***************************************************************************)
EXTENDS MonitoredDiagnostics, FiniteSetTheorems, FunctionTheorems, WellFoundedInduction,
        TLAPS

-----------------------------------------------------------------------------
\* The rules.

\* Which class evaluates a rule (rules.py).
LEMMA KindEvaluates ==
  ASSUME NEW r, NEW s, NEW status
  PROVE  /\ r.kind = "high" => (Violates(r, s, status) <=> HighThreshold(r, s, status))
         /\ r.kind = "low" => (Violates(r, s, status) <=> LowWhileTrue(r, s, status))
         /\ r.kind = "outside" =>
              (Violates(r, s, status) <=> OutsideRangeWhileTrue(r, s, status))
         /\ r.kind = "disagreement" =>
              (Violates(r, s, status) <=> SignalDisagreement(r, s, status))
BY DEF Violates

\* The numeric values a snapshot gives are integers.
LEMMA ValueTypes ==
  ASSUME NEW s \in Snapshots
  PROVE  /\ s.running \in BOOLEAN
         /\ \A x \in {"Coolant", "Oil", "Battery", "ManifoldPressure", "VehicleSpeed"} :
              s.value[x] \in Int
         /\ \A w \in Wheels : s.value[w] \in Int
BY DEF Snapshots, Numeric

\* The thresholds of rules.py, on the constants of catalog.py, are those of the
\* catalog's texts.
LEMMA ThresholdsAsDescribed ==
  ASSUME NEW c \in DefaultCodes, NEW s \in Snapshots
  PROVE  /\ Violates(Rule(c), s, "none") <=> ActivationDescribed(c, s)
         /\ ~Violates(Rule(c), s, "active") <=> RecoveryDescribed(c, s)
         /\ ~(ActivationDescribed(c, s) /\ RecoveryDescribed(c, s))
<1>1. CASE c = "TUN_DME_001"
  <2>1. Rule(c) = [kind |-> "high", signal |-> "Coolant", activation |-> 1150, recovery |-> 1100]
    BY <1>1 DEF Rule
  <2>2. /\ Violates(Rule(c), s, "none") <=> HighThreshold(Rule(c), s, "none")
        /\ Violates(Rule(c), s, "active") <=> HighThreshold(Rule(c), s, "active")
    BY <2>1, KindEvaluates
  <2>3. /\ ActivationDescribed(c, s) <=> s.value["Coolant"] > 1150
        /\ RecoveryDescribed(c, s) <=> s.value["Coolant"] <= 1100
    BY <1>1 DEF ActivationDescribed, RecoveryDescribed
  <2>4. HighThreshold(Rule(c), s, "none") <=> s.value["Coolant"] > 1150
    BY <2>1, ValueTypes DEF HighThreshold
  <2>5. ~HighThreshold(Rule(c), s, "active") <=> s.value["Coolant"] <= 1100
    BY <2>1, ValueTypes DEF HighThreshold
  <2>6. ~(s.value["Coolant"] > 1150
          /\ s.value["Coolant"] <= 1100)
    BY ValueTypes
  <2>7. QED
    BY <2>2, <2>3, <2>4, <2>5, <2>6
<1>2. CASE c = "TUN_DME_002"
  <2>1. Rule(c) = [kind |-> "high", signal |-> "Oil", activation |-> 1350, recovery |-> 1300]
    BY <1>2 DEF Rule
  <2>2. /\ Violates(Rule(c), s, "none") <=> HighThreshold(Rule(c), s, "none")
        /\ Violates(Rule(c), s, "active") <=> HighThreshold(Rule(c), s, "active")
    BY <2>1, KindEvaluates
  <2>3. /\ ActivationDescribed(c, s) <=> s.value["Oil"] > 1350
        /\ RecoveryDescribed(c, s) <=> s.value["Oil"] <= 1300
    BY <1>2 DEF ActivationDescribed, RecoveryDescribed
  <2>4. HighThreshold(Rule(c), s, "none") <=> s.value["Oil"] > 1350
    BY <2>1, ValueTypes DEF HighThreshold
  <2>5. ~HighThreshold(Rule(c), s, "active") <=> s.value["Oil"] <= 1300
    BY <2>1, ValueTypes DEF HighThreshold
  <2>6. ~(s.value["Oil"] > 1350
          /\ s.value["Oil"] <= 1300)
    BY ValueTypes
  <2>7. QED
    BY <2>2, <2>3, <2>4, <2>5, <2>6
<1>3. CASE c = "TUN_DME_003"
  <2>1. Rule(c) = [kind |-> "low", signal |-> "Battery", activation |-> 125, recovery |-> 130]
    BY <1>3 DEF Rule
  <2>2. /\ Violates(Rule(c), s, "none") <=> LowWhileTrue(Rule(c), s, "none")
        /\ Violates(Rule(c), s, "active") <=> LowWhileTrue(Rule(c), s, "active")
    BY <2>1, KindEvaluates
  <2>3. /\ ActivationDescribed(c, s) <=> (s.running /\ s.value["Battery"] < 125)
        /\ RecoveryDescribed(c, s) <=> (~s.running \/ s.value["Battery"] >= 130)
    BY <1>3 DEF ActivationDescribed, RecoveryDescribed
  <2>4. LowWhileTrue(Rule(c), s, "none") <=> (s.running /\ s.value["Battery"] < 125)
    BY <2>1, ValueTypes DEF LowWhileTrue
  <2>5. ~LowWhileTrue(Rule(c), s, "active") <=> (~s.running \/ s.value["Battery"] >= 130)
    BY <2>1, ValueTypes DEF LowWhileTrue
  <2>6. ~((s.running /\ s.value["Battery"] < 125)
          /\ (~s.running \/ s.value["Battery"] >= 130))
    BY ValueTypes
  <2>7. QED
    BY <2>2, <2>3, <2>4, <2>5, <2>6
<1>4. CASE c = "TUN_DME_004"
  <2>1. Rule(c) = [kind |-> "outside", signal |-> "ManifoldPressure",
                     activationMin |-> 100, activationMax |-> 2500,
                     recoveryMin |-> 150, recoveryMax |-> 2400]
    BY <1>4 DEF Rule
  <2>2. /\ Violates(Rule(c), s, "none") <=> OutsideRangeWhileTrue(Rule(c), s, "none")
        /\ Violates(Rule(c), s, "active") <=> OutsideRangeWhileTrue(Rule(c), s, "active")
    BY <2>1, KindEvaluates
  <2>3. /\ ActivationDescribed(c, s) <=> (s.running /\ (s.value["ManifoldPressure"] < 100 \/ s.value["ManifoldPressure"] > 2500))
        /\ RecoveryDescribed(c, s) <=> (~s.running \/ (150 <= s.value["ManifoldPressure"] /\ s.value["ManifoldPressure"] <= 2400))
    BY <1>4 DEF ActivationDescribed, RecoveryDescribed
  <2>4. OutsideRangeWhileTrue(Rule(c), s, "none") <=> (s.running /\ (s.value["ManifoldPressure"] < 100 \/ s.value["ManifoldPressure"] > 2500))
    BY <2>1, ValueTypes DEF OutsideRangeWhileTrue
  <2>5. ~OutsideRangeWhileTrue(Rule(c), s, "active") <=> (~s.running \/ (150 <= s.value["ManifoldPressure"] /\ s.value["ManifoldPressure"] <= 2400))
    BY <2>1, ValueTypes DEF OutsideRangeWhileTrue
  <2>6. ~((s.running /\ (s.value["ManifoldPressure"] < 100 \/ s.value["ManifoldPressure"] > 2500))
          /\ (~s.running \/ (150 <= s.value["ManifoldPressure"] /\ s.value["ManifoldPressure"] <= 2400)))
    BY ValueTypes
  <2>7. QED
    BY <2>2, <2>3, <2>4, <2>5, <2>6
<1>5. CASE c = "TUN_DSC_001"
  <2>1. Rule(c) = [kind |-> "disagreement", compared |-> Wheels,
                     reference |-> "VehicleSpeed", activation |-> 30, recovery |-> 15]
    BY <1>5 DEF Rule
  <2>2. /\ Violates(Rule(c), s, "none") <=> SignalDisagreement(Rule(c), s, "none")
        /\ Violates(Rule(c), s, "active") <=> SignalDisagreement(Rule(c), s, "active")
    BY <2>1, KindEvaluates
  <2>3. /\ ActivationDescribed(c, s) <=> (\E w \in Wheels : Abs(s.value[w] - s.value["VehicleSpeed"]) > 30)
        /\ RecoveryDescribed(c, s) <=> (\A w \in Wheels : Abs(s.value[w] - s.value["VehicleSpeed"]) <= 15)
    BY <1>5 DEF ActivationDescribed, RecoveryDescribed
  <2>4. SignalDisagreement(Rule(c), s, "none") <=> (\E w \in Wheels : Abs(s.value[w] - s.value["VehicleSpeed"]) > 30)
    BY <2>1, ValueTypes DEF SignalDisagreement
  <2>5. ~SignalDisagreement(Rule(c), s, "active") <=> (\A w \in Wheels : Abs(s.value[w] - s.value["VehicleSpeed"]) <= 15)
    BY <2>1, ValueTypes DEF SignalDisagreement, Abs
  <2>6. ~((\E w \in Wheels : Abs(s.value[w] - s.value["VehicleSpeed"]) > 30)
          /\ (\A w \in Wheels : Abs(s.value[w] - s.value["VehicleSpeed"]) <= 15))
    BY ValueTypes DEF Wheels, Abs
  <2>7. QED
    BY <2>2, <2>3, <2>4, <2>5, <2>6
<1>6. QED
  BY <1>1, <1>2, <1>3, <1>4, <1>5 DEF DefaultCodes

\* A fresh reading is "fault" exactly where the catalog's activation description
\* holds and "clear" exactly where its recovery description does, and the two
\* exclude each other; without fresh inputs there is no reading.
THEOREM ReadingAsDescribed ==
  ASSUME NEW c \in DefaultCodes, NEW s \in Snapshots
  PROVE  /\ ~InputsAreFresh(c, s) <=> Reading(c, s) = "unavailable"
         /\ InputsAreFresh(c, s) =>
              /\ Reading(c, s) \in {"fault", "band", "clear"}
              /\ Reading(c, s) = "fault" <=> ActivationDescribed(c, s)
              /\ Reading(c, s) = "clear" <=> RecoveryDescribed(c, s)
              /\ ~(ActivationDescribed(c, s) /\ RecoveryDescribed(c, s))
BY ThresholdsAsDescribed DEF Reading

-----------------------------------------------------------------------------
\* One evaluation of one rule.

Resting == {"none", "historical", "cleared"}

\* How the state of a rule stands to the evidence its snapshots have given up
\* to the time of the last one.
CodeInv(c, s, e, until) ==
  /\ s.status \in Resting =>
       s.started = None /\ s.recovery = None /\ e.activation = None
  /\ s.status = "pending" =>
       /\ s.origin \in Resting
       /\ s.started = e.activation /\ s.recovery = None
       /\ s.started # None => until - s.started < Confirmation[c]
  /\ s.status = "active" =>
       /\ s.recovery = e.recovery /\ s.started = None
       /\ s.recovery # None => until - s.recovery < Recovery[c]

\* What a violation does to the fields that CodeInv speaks of (_handle_violation).
LEMMA ViolationStep ==
  ASSUME NEW c \in Codes, NEW s \in RuleStates, NEW t \in Time, NEW n
  PROVE  LET x == HandleViolation(c, s, t, n)
             start == IF s.status = "pending" /\ s.started # None THEN s.started ELSE t
         IN  /\ x.recovery = None
             /\ s.status = "active" => x.status = "active" /\ x.started = s.started
             /\ s.status # "active" =>
                  IF t - start >= Confirmation[c]
                  THEN x.status = "active" /\ x.started = None
                  ELSE /\ x.status = "pending" /\ x.started = start
                       /\ x.origin = IF s.status = "pending" THEN s.origin ELSE s.status
BY DEF HandleViolation, Confirms, Confirm, Pend, Sustain, Detect, RuleStates

\* The same for a normal evaluation (_handle_normal).
LEMMA NormalStep ==
  ASSUME NEW c \in Codes, NEW s \in RuleStates, NEW t \in Time
  PROVE  LET x == HandleNormal(c, s, t)
             start == IF s.recovery # None THEN s.recovery ELSE t
         IN  /\ x.started = None
             /\ s.status = "none" => x.status = "none" /\ x.recovery = s.recovery
             /\ s.status = "pending" => x.status = s.origin /\ x.recovery = s.recovery
             /\ s.status \in {"historical", "cleared"} =>
                  x.status = s.status /\ x.recovery = None
             /\ s.status = "active" =>
                  IF t - start >= Recovery[c]
                  THEN x.status = "historical" /\ x.recovery = None
                  ELSE x.status = "active" /\ x.recovery = start
BY DEF HandleNormal, Recovers, RecoveryStart, Retract, Blank, RuleStates, Statuses, Recorded

Evidence == [activation : Time \cup {None}, recovery : Time \cup {None}]

LEMMA ObserveType ==
  ASSUME NEW c, NEW snapshot, NEW e \in Evidence, NEW t \in Time
  PROVE  Observe(e, c, snapshot, t) \in Evidence
BY DEF Observe, Since, Evidence, NoEvidence

\* The updates of engine.py keep the fields of a rule state in their types.
LEMMA TimeUpdateType ==
  ASSUME NEW x \in RuleStates, NEW t \in Time \cup {None}
  PROVE  /\ [x EXCEPT !.started = t] \in RuleStates
         /\ [x EXCEPT !.recovery = t] \in RuleStates
         /\ [x EXCEPT !.seen = t] \in RuleStates
BY DEF RuleStates

LEMMA TimersUpdateType ==
  ASSUME NEW x \in RuleStates, NEW t \in Time \cup {None}, NEW u \in Time \cup {None}
  PROVE  [x EXCEPT !.started = t, !.recovery = u] \in RuleStates
BY DEF RuleStates

LEMMA SustainType ==
  ASSUME NEW x \in RuleStates, NEW t \in Time \cup {None}, NEW u \in Time \cup {None}
  PROVE  [x EXCEPT !.started = t, !.seen = u] \in RuleStates
BY DEF RuleStates

LEMMA RecoverType ==
  ASSUME NEW x \in RuleStates, NEW t \in Time \cup {None}, NEW u \in Time \cup {None}
  PROVE  [x EXCEPT !.status = "historical", !.resolved = t, !.recovery = u] \in RuleStates
BY DEF RuleStates, Statuses, Recorded

LEMMA RetractType ==
  ASSUME NEW x \in RuleStates
  PROVE  [x EXCEPT !.status = x.origin, !.origin = "none"] \in RuleStates
BY DEF RuleStates, Statuses

LEMMA DropType ==
  ASSUME NEW x \in RuleStates, NEW y \in RuleStates
  PROVE  [y EXCEPT !.recovery = x.recovery, !.freeze = x.freeze] \in RuleStates
BY DEF RuleStates

LEMMA DetectType ==
  ASSUME NEW x \in RuleStates, NEW t \in Time, NEW first \in Time \cup {None}
  PROVE  [x EXCEPT !.origin = x.status, !.started = t, !.status = "pending",
                   !.first = first, !.seen = t] \in RuleStates
BY DEF RuleStates, Statuses, Recorded

LEMMA ConfirmType ==
  ASSUME NEW x \in RuleStates, NEW t \in Time, NEW k \in Nat,
         NEW freeze \in [at : Time \cup {None}, sequence : Nat \cup {None}]
  PROVE  [x EXCEPT !.freeze = freeze, !.status = "active", !.confirmed = t, !.seen = t,
                   !.resolved = None, !.cleared = None,
                   !.occurrences = k, !.available = TRUE,
                   !.started = None, !.origin = "none"] \in RuleStates
BY DEF RuleStates, Statuses, Recorded

LEMMA ClearType ==
  ASSUME NEW x \in RuleStates, NEW t \in Time \cup {None}
  PROVE  [x EXCEPT !.status = "cleared", !.cleared = t] \in RuleStates
BY DEF RuleStates, Statuses, Recorded

LEMMA BlankType == Blank \in RuleStates
BY DEF Blank, RuleStates, Statuses, NoFreeze

LEMMA RuleType ==
  ASSUME NEW c \in Codes, NEW s \in RuleStates, NEW t \in Time, NEW n \in Nat,
         NEW reading \in Readings
  PROVE  EvaluateRule(c, s, reading, t, n) \in RuleStates
<1>0. /\ None \in Time \cup {None} /\ t \in Time \cup {None}
      /\ "none" \in Statuses /\ "historical" \in Statuses
  BY DEF Statuses, Recorded
<1>1. HandleUnavailable(s) \in RuleStates
  BY <1>0, TimersUpdateType DEF HandleUnavailable
<1>2. HandleViolation(c, s, t, n) \in RuleStates
  <2>1. ASSUME NEW x \in RuleStates
        PROVE  Pend(x, t) \in RuleStates
    <3>1. (IF x.started = None THEN t ELSE x.started) \in Time \cup {None}
      BY DEF RuleStates
    <3>2. Sustain(x, t) \in RuleStates
      BY <1>0, <3>1, SustainType DEF Sustain
    <3>3. (IF x.status = "none" THEN t ELSE x.first) \in Time \cup {None}
      BY DEF RuleStates
    <3>4. Detect(x, t) \in RuleStates
      BY <3>3, DetectType DEF Detect
    <3>5. QED
      BY <3>2, <3>4 DEF Pend
  <2>2. ASSUME NEW x \in RuleStates
        PROVE  Confirm(x, t, n) \in RuleStates
    <3>1. /\ (IF x.freeze = NoFreeze THEN [at |-> t, sequence |-> n] ELSE x.freeze)
               \in [at : Time \cup {None}, sequence : Nat \cup {None}]
          /\ x.occurrences + 1 \in Nat
      BY DEF RuleStates
    <3>2. QED
      BY <3>1, ConfirmType DEF Confirm
  <2>3. ASSUME NEW x \in RuleStates
        PROVE  /\ [x EXCEPT !.recovery = None] \in RuleStates
               /\ [x EXCEPT !.seen = t] \in RuleStates
    BY <1>0, TimeUpdateType
  <2>4. QED
    BY <2>1, <2>2, <2>3 DEF HandleViolation
<1>3. HandleNormal(c, s, t) \in RuleStates
  <2>1. PICK x : x = [s EXCEPT !.started = None]
    OBVIOUS
  <2>2. x \in RuleStates
    BY <2>1, <1>0, TimeUpdateType
  <2>3. Retract(x) \in RuleStates
    BY <2>2, BlankType, RetractType, DropType DEF Retract
  <2>4. RecoveryStart(x, t) \in Time \cup {None}
    BY <2>2 DEF RecoveryStart, RuleStates
  <2>5. /\ [x EXCEPT !.recovery = None] \in RuleStates
        /\ [x EXCEPT !.recovery = RecoveryStart(x, t)] \in RuleStates
    BY <2>2, <2>4, <1>0, TimeUpdateType
  <2>6. [x EXCEPT !.status = "historical", !.resolved = t, !.recovery = None]
          \in RuleStates
    BY <2>2, <1>0, RecoverType
  <2>7. x.status \in {"none", "pending", "historical", "cleared", "active"}
    BY <2>2 DEF RuleStates, Statuses, Recorded
  <2>8. QED
    BY <2>1, <2>2, <2>3, <2>5, <2>6, <2>7 DEF HandleNormal
<1>4. QED
  BY <1>1, <1>2, <1>3 DEF EvaluateRule, Evaluate

\* One evaluation keeps CodeInv, and a transition it makes is the one described.
LEMMA EvaluationAsDescribed ==
  ASSUME NEW c \in Codes, NEW snapshot \in Snapshots,
         NEW s \in RuleStates, NEW e \in Evidence, NEW t \in Time, NEW n \in Nat,
         NEW until, CodeInv(c, s, e, until)
  PROVE  LET x == EvaluateRule(c, s, Reading(c, snapshot), t, n)
             f == Observe(e, c, snapshot, t)
         IN  /\ CodeInv(c, x, f, t)
             /\ (s.status # "active" /\ x.status = "active") =>
                  Lasts(f.activation, t, Confirmation[c])
             /\ (s.status = "active" /\ x.status = "historical") =>
                  Lasts(f.recovery, t, Recovery[c])
<1> DEFINE x == EvaluateRule(c, s, Reading(c, snapshot), t, n)
           f == Observe(e, c, snapshot, t)
<1>c. c \in DefaultCodes
  BY MonitoredAssumption
<1>t. /\ t \in Int /\ t # None /\ None \in Int
      /\ Confirmation[c] \in Nat /\ Recovery[c] \in Nat
      /\ e.activation \in Time \cup {None} /\ e.recovery \in Time \cup {None}
      /\ \A u \in Time : u \in Int /\ u # None
      /\ s.status \in Statuses
  BY DurationAssumption, BoundAssumption DEF Time, None, Evidence, RuleStates
<1>1. CASE ~InputsAreFresh(c, snapshot)
  <2>1. Reading(c, snapshot) = "unavailable"
    BY <1>c, <1>1, ReadingAsDescribed
  <2>2. x = HandleUnavailable(s)
    BY <2>1 DEF EvaluateRule, Evaluate
  <2>3. f.activation = None /\ f.recovery = None
    BY <1>1 DEF Observe, NoEvidence
  <2>4. /\ x.status = s.status /\ x.origin = s.origin
        /\ x.started = None /\ x.recovery = None
    BY <2>2 DEF HandleUnavailable, RuleStates
  <2>5. QED
    BY <2>3, <2>4 DEF CodeInv, Resting
<1>2. CASE InputsAreFresh(c, snapshot)
  <2>a. ActivationDescribed(c, snapshot) => ~RecoveryDescribed(c, snapshot)
    BY <1>c, <1>2, ReadingAsDescribed
  <2>f. /\ f.activation = IF ~ActivationDescribed(c, snapshot) THEN None
                           ELSE IF e.activation = None THEN t ELSE e.activation
        /\ f.recovery = IF ~RecoveryDescribed(c, snapshot) THEN None
                         ELSE IF e.recovery = None THEN t ELSE e.recovery
    BY <1>2 DEF Observe, Since
  <2>1. CASE Evaluate(s, Reading(c, snapshot)) = "violation"
    <3>1. x = HandleViolation(c, s, t, n)
      BY <2>1 DEF EvaluateRule
    <3>2. CASE s.status = "active"
      <4>1. ~RecoveryDescribed(c, snapshot)
        BY <1>c, <1>2, <2>1, ReadingAsDescribed DEF Evaluate
      <4>2. x.status = "active" /\ x.recovery = None /\ x.started = None
        BY <3>1, <3>2, ViolationStep DEF CodeInv
      <4>3. QED
        BY <3>2, <4>1, <4>2, <2>f DEF CodeInv, Resting
    <3>3. CASE s.status # "active"
      <4>1. ActivationDescribed(c, snapshot) /\ ~RecoveryDescribed(c, snapshot)
        BY <1>c, <1>2, <2>1, <2>a, <3>3, ReadingAsDescribed DEF Evaluate
      <4> DEFINE start == IF s.status = "pending" /\ s.started # None
                          THEN s.started ELSE t
      <4>2. start = f.activation /\ start \in Time
        <5>1. s.status = "pending" => s.started = e.activation
          BY DEF CodeInv
        <5>2. s.status # "pending" => e.activation = None
          BY <3>3, <1>t DEF CodeInv, Resting, Statuses, Recorded
        <5>3. f.activation = IF e.activation = None THEN t ELSE e.activation
          BY <4>1, <2>f
        <5>4. CASE s.status = "pending" /\ s.started # None
          BY <5>1, <5>3, <5>4, <1>t
        <5>5. CASE ~(s.status = "pending" /\ s.started # None)
          BY <5>1, <5>2, <5>3, <5>5
        <5>6. QED
          BY <5>4, <5>5
      <4>3. start \in Int /\ start # None /\ f.recovery = None
        <5>1. f.recovery = None
          BY <4>1, <2>f
        <5>2. start \in Int /\ start # None
          <6> HIDE DEF start
          <6>1. QED
            BY <4>2, <1>t
        <5>3. QED
          BY <5>1, <5>2
      <4>4. CASE t - start >= Confirmation[c]
        <5>1. x.status = "active" /\ x.recovery = None /\ x.started = None
          BY <3>1, <3>3, <4>4, ViolationStep
        <5>2. QED
          BY <5>1, <4>2, <4>3, <4>4, <3>3 DEF CodeInv, Resting, Lasts
      <4>5. CASE ~(t - start >= Confirmation[c])
        <5>1. /\ x.status = "pending" /\ x.recovery = None /\ x.started = start
              /\ x.origin = IF s.status = "pending" THEN s.origin ELSE s.status
          BY <3>1, <3>3, <4>5, ViolationStep
        <5>2. x.origin \in Resting
          BY <5>1, <3>3, <1>t DEF CodeInv, Resting, Statuses, Recorded
        <5>3. t - start < Confirmation[c]
          BY <4>5, <4>3, <1>t
        <5>4. QED
          BY <5>1, <5>2, <5>3, <4>2, <3>3 DEF CodeInv, Resting
      <4>6. QED
        BY <4>4, <4>5
    <3>4. QED
      BY <3>2, <3>3
  <2>2. CASE Evaluate(s, Reading(c, snapshot)) = "normal"
    <3>1. x = HandleNormal(c, s, t)
      BY <2>2 DEF EvaluateRule
    <3>2. ~ActivationDescribed(c, snapshot)
      BY <1>c, <1>2, <2>2, ReadingAsDescribed DEF Evaluate
    <3>3. f.activation = None
      BY <3>2, <2>f
    <3>4. CASE s.status # "active"
      <4>1. x.status \in Resting /\ x.started = None /\ x.recovery = None
        BY <3>1, <3>4, <1>t, NormalStep DEF CodeInv, Resting, Statuses, Recorded
      <4>2. QED
        BY <4>1, <3>3, <3>4 DEF CodeInv, Resting
    <3>5. CASE s.status = "active"
      <4>1. RecoveryDescribed(c, snapshot)
        BY <1>c, <1>2, <2>2, <3>5, ReadingAsDescribed DEF Evaluate
      <4> DEFINE start == IF s.recovery # None THEN s.recovery ELSE t
      <4>2. start = f.recovery /\ start \in Time
        <5>1. s.recovery = e.recovery
          BY <3>5 DEF CodeInv
        <5>2. f.recovery = IF e.recovery = None THEN t ELSE e.recovery
          BY <4>1, <2>f
        <5>3. QED
          BY <5>1, <5>2, <1>t
      <4>3. start \in Int /\ start # None
        <5> HIDE DEF start
        <5>1. QED
          BY <4>2, <1>t
      <4>4. CASE t - start >= Recovery[c]
        <5>1. x.status = "historical" /\ x.recovery = None /\ x.started = None
          BY <3>1, <3>5, <4>4, NormalStep
        <5>2. QED
          BY <5>1, <4>2, <4>3, <4>4, <3>3, <3>5 DEF CodeInv, Resting, Lasts
      <4>5. CASE ~(t - start >= Recovery[c])
        <5>1. x.status = "active" /\ x.recovery = start /\ x.started = None
          BY <3>1, <3>5, <4>5, NormalStep
        <5>2. t - start < Recovery[c]
          BY <4>5, <4>3, <1>t
        <5>3. QED
          BY <5>1, <5>2, <4>2, <3>5 DEF CodeInv, Resting
      <4>6. QED
        BY <4>4, <4>5
    <3>6. QED
      BY <3>4, <3>5
  <2>3. QED
    BY <2>1, <2>2, <1>c, <1>2, ReadingAsDescribed DEF Evaluate
<1>3. QED
  BY <1>1, <1>2

-----------------------------------------------------------------------------
\* The specification.

MonitoredType ==
  /\ rule \in [Codes -> RuleStates]
  /\ evaluated \in [Codes -> Time \cup {None}]
  /\ evidence \in [Codes -> Evidence]
  /\ observed \in Time \cup {None}
  /\ frame \in Nat \cup {None}
  /\ cursor \in 0..Len(Catalog)
  /\ cursor # 0 => observed \in Time /\ frame \in Nat

EvidenceInv ==
  \A c \in Codes : CodeInv(c, rule[c], evidence[c], evaluated[c])

\* A step of a rule as described; the four parts of TransitionsAsDescribed.
Described(c, s, x, f, until) ==
  /\ (s.status # "active" /\ x.status = "active") =>
       Lasts(f.activation, until, Confirmation[c])
  /\ (s.status = "active" /\ x.status = "historical") =>
       Lasts(f.recovery, until, Recovery[c])
  /\ Lasts(f.activation, until, Confirmation[c]) => x.status = "active"
  /\ Lasts(f.recovery, until, Recovery[c]) => x.status # "active"

\* CodeInv already says that what has lasted has had its effect.
LEMMA LastedIsDone ==
  ASSUME NEW c \in Codes, NEW s \in RuleStates, NEW e \in Evidence,
         NEW until \in Int, CodeInv(c, s, e, until)
  PROVE  /\ Lasts(e.activation, until, Confirmation[c]) => s.status = "active"
         /\ Lasts(e.recovery, until, Recovery[c]) => s.status # "active"
<1>1. /\ Confirmation[c] \in Nat /\ Recovery[c] \in Nat
      /\ e.activation \in Int /\ e.recovery \in Int
      /\ s.status \in Resting \cup {"pending", "active"}
  BY DurationAssumption, BoundAssumption
     DEF Time, None, Evidence, RuleStates, Resting, Statuses, Recorded
<1>2. QED
  BY <1>1 DEF CodeInv, Lasts

LEMMA MonitoredInitially == MonitoredInit => MonitoredType /\ EvidenceInv
<1>1. NoEvidence \in Evidence
  BY DEF NoEvidence, Evidence
<1>2. ASSUME NEW c \in Codes, NEW until
      PROVE  CodeInv(c, Blank, NoEvidence, until)
  BY DEF CodeInv, Blank, NoEvidence, Resting
<1>3. Len(Catalog) \in Nat
  BY CatalogAssumption
<1>4. QED
  BY <1>1, <1>2, <1>3, BlankType DEF MonitoredInit, Init, MonitoredType, EvidenceInv

\* The step in which a rule is evaluated.
LEMMA EvaluationStep ==
  ASSUME MonitoredType, EvidenceInv, cursor # 0,
         NEW snapshot \in SnapshotsFor(Catalog[cursor]), EvaluateSnapshot(snapshot)
  PROVE  /\ MonitoredType' /\ EvidenceInv'
         /\ \A d \in Codes : Described(d, rule[d], rule'[d], evidence'[d], evaluated'[d])
<1> DEFINE c == Catalog[cursor]
           reading == Reading(c, snapshot)
           x == EvaluateRule(c, rule[c], reading, observed, frame)
           f == Observe(evidence[c], c, snapshot, observed)
<1>1. c \in Codes /\ Len(Catalog) \in Nat
  BY CatalogAssumption DEF MonitoredType, Codes
<1>2. c \in DefaultCodes /\ snapshot \in Snapshots
  BY <1>1, MonitoredAssumption
<1>3. /\ observed \in Time /\ frame \in Nat
      /\ rule[c] \in RuleStates /\ evidence[c] \in Evidence
  BY <1>1 DEF MonitoredType
<1>4. reading \in Readings
  BY <1>2, ReadingAsDescribed DEF Readings
<1>5. /\ rule' = [rule EXCEPT ![c] = x]
      /\ evaluated' = [evaluated EXCEPT ![c] = observed]
      /\ evidence' = [evidence EXCEPT ![c] = f]
      /\ cursor' = IF cursor = Len(Catalog) THEN 0 ELSE cursor + 1
      /\ observed' = observed /\ frame' = frame
  BY DEF EvaluateSnapshot, EvaluateNext
<1>6. x \in RuleStates /\ f \in Evidence
  BY <1>1, <1>3, <1>4, RuleType, ObserveType
<1>7. CodeInv(c, rule[c], evidence[c], evaluated[c])
  BY <1>1 DEF EvidenceInv
<1>8. /\ CodeInv(c, x, f, observed)
      /\ (rule[c].status # "active" /\ x.status = "active") =>
           Lasts(f.activation, observed, Confirmation[c])
      /\ (rule[c].status = "active" /\ x.status = "historical") =>
           Lasts(f.recovery, observed, Recovery[c])
  BY <1>1, <1>2, <1>3, <1>7, EvaluationAsDescribed
<1> HIDE DEF c, x, f
<1>9. /\ rule'[c] = x /\ evaluated'[c] = observed /\ evidence'[c] = f
       /\ \A d \in Codes \ {c} :
            rule'[d] = rule[d] /\ evaluated'[d] = evaluated[d] /\ evidence'[d] = evidence[d]
  BY <1>1, <1>5 DEF MonitoredType
<1>10. MonitoredType'
  <2>1. cursor' \in 0..Len(Catalog)
    BY <1>1, <1>5 DEF MonitoredType
  <2>2. QED
    BY <1>3, <1>5, <1>6, <2>1 DEF MonitoredType
<1>11. EvidenceInv'
  BY <1>8, <1>9 DEF EvidenceInv
<1>12. ASSUME NEW d \in Codes
       PROVE  Described(d, rule[d], rule'[d], evidence'[d], evaluated'[d])
  <2>1. /\ rule'[d] \in RuleStates /\ evidence'[d] \in Evidence
        /\ evaluated'[d] \in Int
        /\ CodeInv(d, rule'[d], evidence'[d], evaluated'[d])
    BY <1>10, <1>11, BoundAssumption DEF MonitoredType, EvidenceInv, Time, None
  <2>2. /\ Lasts(evidence'[d].activation, evaluated'[d], Confirmation[d])
             => rule'[d].status = "active"
        /\ Lasts(evidence'[d].recovery, evaluated'[d], Recovery[d])
             => rule'[d].status # "active"
    BY <2>1, LastedIsDone
  <2>3. CASE d = c
    BY <2>2, <2>3, <1>8, <1>9 DEF Described
  <2>4. CASE d # c
    BY <2>2, <2>4, <1>9 DEF Described
  <2>5. QED
    BY <2>3, <2>4
<1>13. QED
  BY <1>10, <1>11, <1>12

\* A step that leaves the statuses, evidence and runs alone, or that only clears
\* a historical DTC, is as described because EvidenceInv is.
LEMMA QuietStep ==
  ASSUME MonitoredType', EvidenceInv',
         \A d \in Codes : /\ rule[d].status # "active" => rule'[d].status # "active"
                          /\ rule[d].status = "active" => rule'[d].status # "historical"
  PROVE  \A d \in Codes : Described(d, rule[d], rule'[d], evidence'[d], evaluated'[d])
<1>1. SUFFICES ASSUME NEW d \in Codes
               PROVE  Described(d, rule[d], rule'[d], evidence'[d], evaluated'[d])
  OBVIOUS
<1>2. /\ rule'[d] \in RuleStates /\ evidence'[d] \in Evidence
      /\ evaluated'[d] \in Int
      /\ CodeInv(d, rule'[d], evidence'[d], evaluated'[d])
  BY BoundAssumption DEF MonitoredType, EvidenceInv, Time, None
<1>3. /\ Lasts(evidence'[d].activation, evaluated'[d], Confirmation[d])
           => rule'[d].status = "active"
      /\ Lasts(evidence'[d].recovery, evaluated'[d], Recovery[d])
           => rule'[d].status # "active"
  BY <1>2, LastedIsDone
<1>4. QED
  BY <1>3 DEF Described

LEMMA MonitoredStep ==
  ASSUME MonitoredType, EvidenceInv, MonitoredNext
  PROVE  /\ MonitoredType' /\ EvidenceInv'
         /\ \A d \in Codes : Described(d, rule[d], rule'[d], evidence'[d], evaluated'[d])
<1>n. Len(Catalog) \in Nat /\ (Catalog # <<>> => Len(Catalog) >= 1)
  BY CatalogAssumption
<1>1. ASSUME NEW t \in Time, IngestFrame(t)
      PROVE  /\ MonitoredType' /\ EvidenceInv'
             /\ \A d \in Codes : rule'[d] = rule[d]
  <2>1. /\ rule' = rule /\ evaluated' = evaluated /\ evidence' = evidence
        /\ observed' = t /\ frame' = frame + 1
        /\ cursor' = IF Catalog = <<>> THEN 0 ELSE 1
    BY <1>1 DEF IngestFrame, Ingest
  <2>2. frame' \in Nat
    BY <2>1 DEF MonitoredType, None
  <2>3. cursor' \in 0..Len(Catalog)
    BY <2>1, <1>n
  <2>4. QED
    BY <2>1, <2>2, <2>3 DEF MonitoredType, EvidenceInv
<1>2. ASSUME NEW c \in Codes, Clear(c), UNCHANGED evidence
      PROVE  /\ MonitoredType' /\ EvidenceInv'
             /\ rule'[c].status = "cleared" /\ rule[c].status = "historical"
             /\ \A d \in Codes \ {c} : rule'[d] = rule[d]
  <2>1. /\ rule[c].status = "historical"
        /\ rule' = [rule EXCEPT ![c].status = "cleared", ![c].cleared = observed]
        /\ evaluated' = evaluated /\ evidence' = evidence
        /\ UNCHANGED <<observed, frame, cursor>>
    BY <1>2 DEF Clear
  <2>2. PICK x : x = [rule[c] EXCEPT !.status = "cleared", !.cleared = observed]
    OBVIOUS
  <2>3. x \in RuleStates
    <3>1. rule[c] \in RuleStates /\ observed \in Time \cup {None}
      BY DEF MonitoredType
    <3>2. QED
      BY <2>2, <3>1, ClearType
  <2>4. rule' = [rule EXCEPT ![c] = x]
    BY <2>1, <2>2 DEF MonitoredType
  <2>5. rule'[c] = x /\ \A d \in Codes \ {c} : rule'[d] = rule[d]
    BY <2>4 DEF MonitoredType
  <2>6. /\ x.status = "cleared" /\ x.started = rule[c].started
        /\ x.recovery = rule[c].recovery
    BY <2>2 DEF MonitoredType, RuleStates
  <2>7. MonitoredType'
    BY <2>1, <2>3, <2>4 DEF MonitoredType
  <2>8. CodeInv(c, x, evidence[c], evaluated[c])
    BY <2>1, <2>6 DEF EvidenceInv, CodeInv, Resting
  <2>9. EvidenceInv'
    BY <2>1, <2>5, <2>8 DEF EvidenceInv
  <2>10. QED
    BY <2>1, <2>5, <2>6, <2>7, <2>9
<1>3. ASSUME Reset, evidence' = [c \in Codes |-> NoEvidence]
      PROVE  /\ MonitoredType' /\ EvidenceInv'
             /\ \A d \in Codes : rule'[d] = Blank
  <2>1. NoEvidence \in Evidence
    BY DEF NoEvidence, Evidence
  <2>2. ASSUME NEW c \in Codes, NEW until
        PROVE  CodeInv(c, Blank, NoEvidence, until)
    BY DEF CodeInv, Blank, NoEvidence, Resting
  <2>3. QED
    BY <1>3, <1>n, <2>1, <2>2, BlankType DEF Reset, MonitoredType, EvidenceInv
<1>4. CASE \E t \in Time : IngestFrame(t)
  <2>1. MonitoredType' /\ EvidenceInv' /\ \A d \in Codes : rule'[d] = rule[d]
    BY <1>1, <1>4
  <2>2. QED
    BY <2>1, QuietStep
<1>5. CASE cursor # 0 /\ \E snapshot \in SnapshotsFor(Catalog[cursor]) :
                           EvaluateSnapshot(snapshot)
  BY <1>5, EvaluationStep
<1>6. CASE \E c \in Codes : Clear(c) /\ UNCHANGED evidence
  <2>1. PICK c \in Codes : Clear(c) /\ UNCHANGED evidence
    BY <1>6
  <2>2. /\ MonitoredType' /\ EvidenceInv'
        /\ rule'[c].status = "cleared" /\ rule[c].status = "historical"
        /\ \A d \in Codes \ {c} : rule'[d] = rule[d]
    BY <1>2, <2>1
  <2>3. QED
    BY <2>2, QuietStep
<1>7. CASE Reset /\ evidence' = [c \in Codes |-> NoEvidence]
  <2>1. MonitoredType' /\ EvidenceInv' /\ \A d \in Codes : rule'[d] = Blank
    BY <1>3, <1>7
  <2>2. Blank.status = "none"
    BY DEF Blank
  <2>3. QED
    BY <2>1, <2>2, QuietStep
<1>8. QED
  BY <1>4, <1>5, <1>6, <1>7 DEF MonitoredNext

\* The state of every rule stands to the evidence as CodeInv says, always: the
\* timers of engine.py measure how long a description has held.
THEOREM EvidenceKept == MonitoredSpec => [](MonitoredType /\ EvidenceInv)
<1>1. MonitoredInit => MonitoredType /\ EvidenceInv
  BY MonitoredInitially
<1>2. MonitoredType /\ EvidenceInv /\ [MonitoredNext]_monitored
        => (MonitoredType /\ EvidenceInv)'
  <2>1. CASE MonitoredNext
    BY <2>1, MonitoredStep
  <2>2. CASE UNCHANGED monitored
    BY <2>2 DEF monitored, vars, MonitoredType, EvidenceInv
  <2>3. QED
    BY <2>1, <2>2
<1>3. QED
  BY <1>1, <1>2, PTL DEF MonitoredSpec

\* Every DTC becomes active and recovers exactly as the catalog describes.
THEOREM AsDescribed == MonitoredSpec => TransitionsAsDescribed
<1> DEFINE Steps ==
      \A c \in Codes :
        LET was == rule[c].status
            is == rule'[c].status
            activated == Lasts(evidence'[c].activation, evaluated'[c], Confirmation[c])
            recovered == Lasts(evidence'[c].recovery, evaluated'[c], Recovery[c])
        IN  /\ (was # "active" /\ is = "active") => activated
            /\ (was = "active" /\ is = "historical") => recovered
            /\ activated => is = "active"
            /\ recovered => is # "active"
<1>1. MonitoredType /\ EvidenceInv /\ [MonitoredNext]_monitored => [Steps]_monitored
  BY MonitoredStep DEF Described
<1>2. QED
  BY <1>1, EvidenceKept, PTL DEF MonitoredSpec, TransitionsAsDescribed

-----------------------------------------------------------------------------
(***************************************************************************)
(* The diagnostics implement DtcLifecycle, for every catalog of default      *)
(* rules, all durations and values, and any number of snapshots.             *)
(*                                                                         *)
(* The mapping hides a pending condition under what stands about the code,   *)
(* so the record must come back unchanged when the condition normalizes.     *)
(* That is so because a record that is dropped then was never confirmed and  *)
(* holds no freeze frame (LifeInv).                                        *)
(***************************************************************************)


\* A record that stands at "none" was never confirmed, one that was never
\* confirmed has no freeze frame, and a pending condition rests on a state that
\* is not active.
LifeOf(s) ==
  /\ s.status = "pending" => s.origin \in Resting
  /\ Standing(s) = "none" => s.occurrences = 0
  /\ s.occurrences = 0 <=> s.freeze = NoFreeze

LifeInv ==
  /\ \A c \in Codes : LifeOf(rule[c])
  /\ frame < MaxFrames

\* The steps of the lifecycle, on one record: the condition comes or goes and
\* what stands is kept; it is confirmed in frame n; it recovers.
Kept(s, x) ==
  /\ Standing(x) = Standing(s)
  /\ x.occurrences = s.occurrences
  /\ x.freeze = s.freeze

Confirmed(s, x, n) ==
  /\ Standing(s) # "active"
  /\ x.status = "active"
  /\ x.occurrences = s.occurrences + 1
  /\ x.freeze.sequence = IF s.occurrences = 0 THEN n ELSE s.freeze.sequence

Recovered(s, x) ==
  /\ s.status = "active"
  /\ x.status = "historical"
  /\ x.occurrences = s.occurrences
  /\ x.freeze = s.freeze

-----------------------------------------------------------------------------
\* One evaluation of one rule.

\* _handle_violation detects, sustains or confirms.
LEMMA ViolationLives ==
  ASSUME NEW c \in Codes, NEW s \in RuleStates, LifeOf(s), NEW t \in Time, NEW n \in Nat
  PROVE  LET x == HandleViolation(c, s, t, n)
         IN  LifeOf(x) /\ (Kept(s, x) \/ Confirmed(s, x, n))
<1> DEFINE x == HandleViolation(c, s, t, n)
<1> SUFFICES LifeOf(x) /\ (Kept(s, x) \/ Confirmed(s, x, n))
  OBVIOUS
<1>1. CASE s.status = "active"
  <2>1. /\ x.status = "active" /\ x.occurrences = s.occurrences /\ x.freeze = s.freeze
    BY <1>1 DEF HandleViolation, RuleStates
  <2> HIDE DEF x
  <2>2. QED
    BY <1>1, <2>1 DEF LifeOf, Kept, Standing
<1>2. CASE s.status # "active"
  <2>1. PICK r : r = [s EXCEPT !.recovery = None]
    OBVIOUS
  <2>2. PICK p : p = Pend(r, t)
    OBVIOUS
  <2>3. x = IF Confirms(c, r, t) THEN Confirm(p, t, n) ELSE p
    BY <1>2, <2>1, <2>2 DEF HandleViolation, RuleStates
  <2>4. r \in RuleStates
    BY <2>1, TimeUpdateType
  <2>5. /\ r.status = s.status /\ r.origin = s.origin
        /\ r.occurrences = s.occurrences /\ r.freeze = s.freeze
    BY <2>1 DEF RuleStates
  <2>6. /\ p.status = "pending"
        /\ p.origin = IF s.status = "pending" THEN s.origin ELSE s.status
        /\ p.occurrences = s.occurrences /\ p.freeze = s.freeze
    BY <2>2, <2>4, <2>5 DEF Pend, Sustain, Detect, RuleStates
  <2>7. s.status \in Resting \cup {"pending"}
    BY <1>2 DEF RuleStates, Statuses, Recorded, Resting
  <2>8. p.origin \in Resting
    BY <2>6, <2>7 DEF LifeOf
  <2>9. Standing(p) = Standing(s) /\ Standing(s) # "active"
    BY <2>6, <2>8 DEF Standing, Resting
  <2>10. LifeOf(p) /\ Kept(s, p)
    BY <2>6, <2>8, <2>9 DEF LifeOf, Kept
  <2>11. ASSUME Confirms(c, r, t)
         PROVE  LifeOf(x) /\ Confirmed(s, x, n)
    <3>1. p \in RuleStates
      <4>1. (IF r.started = None THEN t ELSE r.started) \in Time \cup {None}
        BY <2>4 DEF RuleStates
      <4>2. Sustain(r, t) \in RuleStates
        BY <2>4, <4>1, SustainType DEF Sustain
      <4>3. (IF r.status = "none" THEN t ELSE r.first) \in Time \cup {None}
        BY <2>4 DEF RuleStates
      <4>4. Detect(r, t) \in RuleStates
        BY <2>4, <4>3, DetectType DEF Detect
      <4>5. QED
        BY <2>2, <4>2, <4>4 DEF Pend
    <3>2. x = Confirm(p, t, n)
      BY <2>3, <2>11
    <3>3. /\ x.status = "active" /\ x.occurrences = p.occurrences + 1
          /\ x.freeze = IF p.freeze = NoFreeze THEN [at |-> t, sequence |-> n] ELSE p.freeze
      BY <3>1, <3>2 DEF Confirm, RuleStates
    <3> HIDE DEF x
    <3>4. x.freeze # NoFreeze
      BY <3>3 DEF NoFreeze, None
    <3>5. s.occurrences \in Nat
      BY DEF RuleStates
    <3>6. LifeOf(x)
      BY <3>3, <3>4, <3>5, <2>6 DEF LifeOf, Standing
    <3>7. QED
      BY <3>3, <3>5, <3>6, <2>6, <2>9 DEF Confirmed, LifeOf
  <2>12. QED
    BY <2>3, <2>10, <2>11
<1>3. QED
  BY <1>1, <1>2

\* _handle_normal retracts, recovers or leaves what stands.
LEMMA NormalLives ==
  ASSUME NEW c \in Codes, NEW s \in RuleStates, LifeOf(s), NEW t \in Time
  PROVE  LET x == HandleNormal(c, s, t)
         IN  LifeOf(x) /\ (Kept(s, x) \/ Recovered(s, x))
<1> DEFINE x == HandleNormal(c, s, t)
<1> SUFFICES LifeOf(x) /\ (Kept(s, x) \/ Recovered(s, x))
  OBVIOUS
<1>1. PICK r : r = [s EXCEPT !.started = None]
  OBVIOUS
<1>2. r \in RuleStates
  BY <1>1, TimeUpdateType DEF RuleStates
<1>3. /\ r.status = s.status /\ r.origin = s.origin
      /\ r.occurrences = s.occurrences /\ r.freeze = s.freeze
  BY <1>1 DEF RuleStates
<1>4. CASE s.status = "pending"
  <2>1. x = Retract(r)
    BY <1>1, <1>3, <1>4 DEF HandleNormal
  <2>2. CASE s.origin = "none"
    <3>1. s.occurrences = 0 /\ s.freeze = NoFreeze
      BY <1>4, <2>2 DEF LifeOf, Standing
    <3>2. /\ x.status = "none" /\ x.occurrences = 0 /\ x.freeze = NoFreeze
      BY <2>1, <2>2, <3>1, <1>3 DEF Retract, Blank
    <3> HIDE DEF x
    <3>3. QED
      BY <3>1, <3>2, <1>4, <2>2 DEF LifeOf, Kept, Standing
  <2>3. CASE s.origin # "none"
    <3>1. /\ x.status = s.origin
          /\ x.occurrences = s.occurrences /\ x.freeze = s.freeze
      BY <2>1, <2>3, <1>2, <1>3 DEF Retract, RuleStates
    <3> HIDE DEF x
    <3>2. x.status \in Resting /\ x.status # "pending"
      BY <3>1, <1>4 DEF LifeOf, Resting
    <3>3. QED
      BY <3>1, <3>2, <1>4 DEF LifeOf, Kept, Standing
  <2>4. QED
    BY <2>2, <2>3
<1>5. CASE s.status # "pending"
  <2>1. s.status \in {"none", "historical", "cleared", "active"}
    BY <1>5 DEF RuleStates, Statuses, Recorded
  <2>2. /\ x.occurrences = s.occurrences /\ x.freeze = s.freeze
        /\ x.status = s.status \/ (s.status = "active" /\ x.status = "historical")
    BY <1>1, <1>2, <1>3, <2>1 DEF HandleNormal, RuleStates
  <2> HIDE DEF x
  <2>3. QED
    BY <2>1, <2>2 DEF LifeOf, Kept, Recovered, Standing
<1>6. QED
  BY <1>4, <1>5

LEMMA EvaluationLives ==
  ASSUME NEW c \in Codes, NEW s \in RuleStates, LifeOf(s), NEW t \in Time, NEW n \in Nat,
         NEW reading
  PROVE  LET x == EvaluateRule(c, s, reading, t, n)
         IN  LifeOf(x) /\ (Kept(s, x) \/ Confirmed(s, x, n) \/ Recovered(s, x))
<1>1. /\ HandleUnavailable(s).status = s.status
      /\ HandleUnavailable(s).origin = s.origin
      /\ HandleUnavailable(s).occurrences = s.occurrences
      /\ HandleUnavailable(s).freeze = s.freeze
  BY DEF HandleUnavailable, RuleStates
<1>2. LifeOf(HandleUnavailable(s)) /\ Kept(s, HandleUnavailable(s))
  BY <1>1 DEF LifeOf, Kept, Standing
<1>3. Evaluate(s, reading) \in {"unavailable", "violation", "normal"}
  BY DEF Evaluate
<1>4. QED
  BY <1>2, <1>3, ViolationLives, NormalLives DEF EvaluateRule

-----------------------------------------------------------------------------
\* The specification.

LEMMA LifeInitially == MonitoredInit => LifeInv /\ Lifecycle!Init
<1> SUFFICES ASSUME MonitoredInit PROVE LifeInv /\ Lifecycle!Init
  OBVIOUS
<1>1. \A c \in Codes : rule[c] = Blank
  BY DEF MonitoredInit, Init
<1>2. /\ Blank.status = "none" /\ Blank.occurrences = 0
      /\ Blank.freeze = NoFreeze /\ NoFreeze.sequence = None
  BY DEF Blank, NoFreeze
<1>3. LifeInv
  BY <1>1, <1>2, BoundAssumption DEF LifeInv, LifeOf, Standing, MonitoredInit, Init, None
<1>4. Lifecycle!Init
  BY <1>1, <1>2 DEF Lifecycle!Init, Standing
<1>5. QED
  BY <1>3, <1>4

\* A function that differs from another at one argument only.
LEMMA ChangedAtOne ==
  ASSUME NEW S, NEW c \in S, NEW v, NEW f, NEW g,
         f = [d \in S |-> f[d]], g = [d \in S |-> g[d]],
         g[c] = v, \A d \in S \ {c} : g[d] = f[d]
  PROVE  g = [f EXCEPT ![c] = v]
OBVIOUS

\* A step that changes the record of one code, in one of the four ways of the
\* lifecycle, is a step of DtcLifecycle.
LEMMA RecordStep ==
  ASSUME MonitoredType, LifeInv, NEW c \in Codes, NEW x, LifeOf(x),
         rule' = [rule EXCEPT ![c] = x],
         \/ Kept(rule[c], x)
         \/ \E n \in 0..(MaxFrames - 1) : Confirmed(rule[c], x, n)
         \/ Recovered(rule[c], x)
         \/ rule[c].status = "historical" /\ x.status = "cleared"
             /\ x.occurrences = rule[c].occurrences /\ x.freeze = rule[c].freeze
  PROVE  Lifecycle!Next
<1> DEFINE settled == [d \in Codes |-> Standing(rule[d])]
           pending == {d \in Codes : rule[d].status = "pending"}
           occurrences == [d \in Codes |-> rule[d].occurrences]
           frozen == [d \in Codes |-> rule[d].freeze.sequence]
<1>1. rule'[c] = x /\ \A d \in Codes \ {c} : rule'[d] = rule[d]
  BY DEF MonitoredType
<1>2. /\ settled' = [settled EXCEPT ![c] = Standing(x)]
      /\ occurrences' = [occurrences EXCEPT ![c] = x.occurrences]
      /\ frozen' = [frozen EXCEPT ![c] = x.freeze.sequence]
  <2>1. /\ settled = [d \in Codes |-> settled[d]] /\ settled' = [d \in Codes |-> settled'[d]]
        /\ settled'[c] = Standing(x) /\ \A d \in Codes \ {c} : settled'[d] = settled[d]
    BY <1>1 DEF Standing
  <2>2. /\ occurrences = [d \in Codes |-> occurrences[d]]
        /\ occurrences' = [d \in Codes |-> occurrences'[d]]
        /\ occurrences'[c] = x.occurrences
        /\ \A d \in Codes \ {c} : occurrences'[d] = occurrences[d]
    BY <1>1
  <2>3. /\ frozen = [d \in Codes |-> frozen[d]] /\ frozen' = [d \in Codes |-> frozen'[d]]
        /\ frozen'[c] = x.freeze.sequence /\ \A d \in Codes \ {c} : frozen'[d] = frozen[d]
    BY <1>1
  <2> HIDE DEF settled, occurrences, frozen
  <2>4. QED
    BY <2>1, <2>2, <2>3, ChangedAtOne
<1>3. pending' = IF x.status = "pending" THEN pending \cup {c} ELSE pending \ {c}
  BY <1>1
<1>4. /\ settled[c] = Standing(rule[c]) /\ occurrences[c] = rule[c].occurrences
      /\ frozen[c] = rule[c].freeze.sequence
      /\ DOMAIN settled = Codes /\ DOMAIN occurrences = Codes /\ DOMAIN frozen = Codes
  OBVIOUS
<1>5. CASE Kept(rule[c], x)
  <2>1. settled' = settled /\ occurrences' = occurrences /\ frozen' = frozen
    BY <1>2, <1>5 DEF Kept
  <2>2. CASE x.status = "pending"
    <3>1. settled[c] # "active"
      BY <2>2, <1>5 DEF LifeOf, Kept, Standing, Resting
    <3>2. Lifecycle!Detect(c)
      BY <2>1, <2>2, <3>1, <1>3 DEF Lifecycle!Detect
    <3>3. QED
      BY <3>2 DEF Lifecycle!Next
  <2>3. CASE x.status # "pending"
    <3>1. Lifecycle!Normalize(c)
      BY <2>1, <2>3, <1>3 DEF Lifecycle!Normalize
    <3>2. QED
      BY <3>1 DEF Lifecycle!Next
  <2>4. QED
    BY <2>2, <2>3
<1>6. CASE \E n \in 0..(MaxFrames - 1) : Confirmed(rule[c], x, n)
  <2>1. PICK n \in 0..(MaxFrames - 1) : Confirmed(rule[c], x, n)
    BY <1>6
  <2>2. settled[c] # "active" /\ settled' = [settled EXCEPT ![c] = "active"]
    BY <1>2, <2>1 DEF Confirmed, Standing
  <2>3. pending' = pending \ {c}
    BY <1>3, <2>1 DEF Confirmed
  <2>4. occurrences' = [occurrences EXCEPT ![c] = occurrences[c] + 1]
    BY <1>2, <1>4, <2>1 DEF Confirmed
  <2>5. frozen' = [frozen EXCEPT ![c] = IF occurrences[c] = 0 THEN n ELSE frozen[c]]
    BY <1>2, <1>4, <2>1 DEF Confirmed
  <2>6. Lifecycle!Confirm(c)
    <3> HIDE DEF settled, pending, occurrences, frozen
    <3>1. \E f \in 0..(MaxFrames - 1) :
            frozen' = [frozen EXCEPT ![c] = IF occurrences[c] = 0 THEN f ELSE @]
      BY <2>5
    <3> USE DEF settled, pending, occurrences, frozen
    <3>2. QED
      BY <2>2, <2>3, <2>4, <3>1 DEF Lifecycle!Confirm
  <2>7. QED
    BY <2>6 DEF Lifecycle!Next
<1>7. CASE Recovered(rule[c], x)
  <2>1. /\ settled[c] = "active" /\ settled' = [settled EXCEPT ![c] = "historical"]
        /\ occurrences' = occurrences /\ frozen' = frozen
    BY <1>2, <1>7 DEF Recovered, Standing
  <2>2. pending' = pending
    BY <1>3, <1>7 DEF Recovered
  <2>3. Lifecycle!Recover(c)
    BY <2>1, <2>2 DEF Lifecycle!Recover
  <2>4. QED
    BY <2>3 DEF Lifecycle!Next
<1>8. CASE rule[c].status = "historical" /\ x.status = "cleared"
           /\ x.occurrences = rule[c].occurrences /\ x.freeze = rule[c].freeze
  <2>1. /\ settled[c] = "historical" /\ settled' = [settled EXCEPT ![c] = "cleared"]
        /\ occurrences' = occurrences /\ frozen' = frozen
    BY <1>2, <1>8 DEF Standing
  <2>2. pending' = pending /\ c \notin pending
    BY <1>3, <1>8
  <2>3. Lifecycle!Clear(c)
    BY <2>1, <2>2 DEF Lifecycle!Clear
  <2>4. QED
    BY <2>3 DEF Lifecycle!Next
<1>9. QED
  BY <1>5, <1>6, <1>7, <1>8

LEMMA LifeStep ==
  ASSUME MonitoredType, LifeInv, MonitoredNext
  PROVE  LifeInv' /\ [Lifecycle!Next]_(Lifecycle!record)
<1>1. ASSUME NEW t \in Time, IngestFrame(t)
      PROVE  LifeInv' /\ rule' = rule
  BY <1>1 DEF IngestFrame, Ingest, LifeInv
<1>2. ASSUME NEW snapshot \in SnapshotsFor(Catalog[cursor]), cursor # 0,
             EvaluateSnapshot(snapshot)
      PROVE  LifeInv' /\ Lifecycle!Next
  <2> DEFINE c == Catalog[cursor]
             x == EvaluateRule(c, rule[c], Reading(c, snapshot), observed, frame)
  <2>1. c \in Codes
    BY <1>2, CatalogAssumption DEF MonitoredType, Codes
  <2>2. /\ rule' = [rule EXCEPT ![c] = x] /\ frame' = frame
    BY <1>2 DEF EvaluateSnapshot, EvaluateNext
  <2>3. /\ observed \in Time /\ frame \in Nat /\ frame \in 0..(MaxFrames - 1)
        /\ rule[c] \in RuleStates /\ LifeOf(rule[c])
    BY <1>2, <2>1, BoundAssumption DEF MonitoredType, LifeInv
  <2>4. LifeOf(x) /\ (Kept(rule[c], x) \/ Confirmed(rule[c], x, frame) \/ Recovered(rule[c], x))
    BY <2>1, <2>3, EvaluationLives
  <2> HIDE DEF c, x
  <2>5. LifeInv'
    <3>1. \A d \in Codes : rule'[d] = IF d = c THEN x ELSE rule[d]
      BY <2>2 DEF MonitoredType
    <3>2. QED
      BY <3>1, <2>2, <2>4 DEF LifeInv
  <2>6. QED
    BY <2>1, <2>2, <2>3, <2>4, <2>5, RecordStep
<1>3. ASSUME NEW c \in Codes, Clear(c)
      PROVE  LifeInv' /\ Lifecycle!Next
  <2>1. PICK x : x = [rule[c] EXCEPT !.status = "cleared", !.cleared = observed]
    OBVIOUS
  <2>2. /\ rule[c].status = "historical" /\ frame' = frame
        /\ rule' = [rule EXCEPT ![c] = x]
    BY <1>3, <2>1 DEF Clear, MonitoredType
  <2>3. /\ x.status = "cleared" /\ x.occurrences = rule[c].occurrences
        /\ x.freeze = rule[c].freeze
    BY <2>1 DEF MonitoredType, RuleStates
  <2>4. LifeOf(x)
    BY <2>2, <2>3 DEF LifeInv, LifeOf, Standing
  <2>5. LifeInv'
    <3>1. \A d \in Codes : rule'[d] = IF d = c THEN x ELSE rule[d]
      BY <2>2 DEF MonitoredType
    <3>2. QED
      BY <3>1, <2>2, <2>4 DEF LifeInv
  <2>6. QED
    BY <2>2, <2>3, <2>4, <2>5, RecordStep
<1>4. ASSUME Reset
      PROVE  LifeInv' /\ Lifecycle!Next
  <2>1. /\ \A c \in Codes : rule'[c] = Blank
        /\ frame' = None
    BY <1>4 DEF Reset
  <2>2. /\ Blank.status = "none" /\ Blank.occurrences = 0
        /\ Blank.freeze = NoFreeze /\ NoFreeze.sequence = None
    BY DEF Blank, NoFreeze
  <2>3. LifeInv'
    BY <2>1, <2>2, BoundAssumption DEF LifeInv, LifeOf, Standing, None
  <2>4. Lifecycle!Reset
    BY <2>1, <2>2 DEF Lifecycle!Reset, Standing
  <2>5. QED
    BY <2>3, <2>4 DEF Lifecycle!Next
<1>5. ASSUME rule' = rule
      PROVE  UNCHANGED Lifecycle!record
  BY <1>5 DEF Lifecycle!record
<1>6. QED
  BY <1>1, <1>2, <1>3, <1>4, <1>5 DEF MonitoredNext

\* The diagnostics of engine.py, over the rules of the catalog, implement the
\* lifecycle that docs/DIAGNOSTICS.md draws.
THEOREM LifecycleImplemented == MonitoredSpec => ImplementsLifecycle
<1>1. MonitoredInit => LifeInv /\ Lifecycle!Init
  BY LifeInitially
<1>2. MonitoredType /\ LifeInv /\ [MonitoredNext]_monitored
        => LifeInv' /\ [Lifecycle!Next]_(Lifecycle!record)
  <2>1. CASE MonitoredNext
    BY <2>1, LifeStep
  <2>2. CASE UNCHANGED monitored
    BY <2>2 DEF monitored, vars, LifeInv, Lifecycle!record
  <2>3. QED
    BY <2>1, <2>2
<1>3. QED
  BY <1>1, <1>2, EvidenceKept, PTL DEF MonitoredSpec, ImplementsLifecycle, Lifecycle!Spec

-----------------------------------------------------------------------------
\* What a record tells.

\* The record as it stands at the time of the last snapshot: with LifeOf, what
\* Timeline says of it and what ConfirmedRecordKept says of the state, and that
\* it was not resolved later than now, which a clear() needs.
Dated(s, now) ==
  /\ s.status # "pending" => s.origin = "none"
  /\ Standing(s) # "none" => s.occurrences >= 1
  /\ s.occurrences >= 1 <=> s.available
  /\ s.status # "none" => 0 <= s.first /\ s.first <= s.seen /\ s.seen <= now
  /\ s.occurrences >= 1 =>
       s.first <= s.freeze.at /\ s.freeze.at <= s.confirmed /\ s.confirmed <= s.seen
  /\ Standing(s) = "active" => s.resolved = None /\ s.cleared = None
  /\ Standing(s) \in {"historical", "cleared"} => s.confirmed <= s.resolved /\ s.resolved <= now
  /\ Standing(s) = "historical" => s.cleared = None
  /\ Standing(s) = "cleared" => s.resolved <= s.cleared

RecordInv == \A c \in Codes : LifeOf(rule[c]) /\ Dated(rule[c], observed)

\* Every time a record holds is a number.
LEMMA RecordTimes ==
  ASSUME NEW s \in RuleStates
  PROVE  /\ s.first \in Int /\ s.confirmed \in Int /\ s.seen \in Int
         /\ s.resolved \in Int /\ s.cleared \in Int /\ s.freeze.at \in Int
         /\ s.occurrences \in Nat /\ s.available \in BOOLEAN
<1>1. Time \cup {None} \subseteq Int
  BY BoundAssumption DEF Time, None
<1>2. QED
  BY <1>1 DEF RuleStates

LEMMA ViolationDated ==
  ASSUME NEW c \in Codes, NEW s \in RuleStates, NEW t \in Time, NEW n \in Nat,
         LifeOf(s), Dated(s, t)
  PROVE  Dated(HandleViolation(c, s, t, n), t)
<1> DEFINE x == HandleViolation(c, s, t, n)
<1> SUFFICES Dated(x, t)
  OBVIOUS
<1>t. t \in Nat
  BY BoundAssumption DEF Time
<1>s. /\ s.first \in Int /\ s.confirmed \in Int /\ s.seen \in Int
      /\ s.resolved \in Int /\ s.cleared \in Int /\ s.freeze.at \in Int
      /\ s.occurrences \in Nat /\ s.available \in BOOLEAN
  BY RecordTimes
<1>1. CASE s.status = "active"
  <2>1. /\ x.status = "active" /\ x.origin = s.origin /\ x.seen = t
        /\ x.occurrences = s.occurrences /\ x.freeze = s.freeze /\ x.available = s.available
        /\ x.first = s.first /\ x.confirmed = s.confirmed
        /\ x.resolved = s.resolved /\ x.cleared = s.cleared
    BY <1>1 DEF HandleViolation, RuleStates
  <2> HIDE DEF x
  <2>2. QED
    BY <1>1, <1>t, <1>s, <2>1 DEF Dated, Standing
<1>2. CASE s.status # "active"
  <2>1. PICK r : r = [s EXCEPT !.recovery = None]
    OBVIOUS
  <2>2. PICK p : p = Pend(r, t)
    OBVIOUS
  <2>3. x = IF Confirms(c, r, t) THEN Confirm(p, t, n) ELSE p
    BY <1>2, <2>1, <2>2 DEF HandleViolation, RuleStates
  <2>4. r \in RuleStates
    BY <2>1, TimeUpdateType
  <2>5. /\ r.status = s.status /\ r.origin = s.origin /\ r.seen = s.seen
        /\ r.occurrences = s.occurrences /\ r.freeze = s.freeze /\ r.available = s.available
        /\ r.first = s.first /\ r.confirmed = s.confirmed
        /\ r.resolved = s.resolved /\ r.cleared = s.cleared
    BY <2>1 DEF RuleStates
  <2>6. /\ p.status = "pending" /\ p.seen = t
        /\ p.origin = IF s.status = "pending" THEN s.origin ELSE s.status
        /\ p.occurrences = s.occurrences /\ p.freeze = s.freeze /\ p.available = s.available
        /\ p.first = IF s.status = "none" THEN t ELSE s.first
        /\ p.confirmed = s.confirmed /\ p.resolved = s.resolved /\ p.cleared = s.cleared
    BY <2>2, <2>4, <2>5 DEF Pend, Sustain, Detect, RuleStates
  <2>7. p \in RuleStates
    <3>1. (IF r.started = None THEN t ELSE r.started) \in Time \cup {None}
      BY <2>4 DEF RuleStates
    <3>2. Sustain(r, t) \in RuleStates
      BY <2>4, <3>1, SustainType DEF Sustain
    <3>3. (IF r.status = "none" THEN t ELSE r.first) \in Time \cup {None}
      BY <2>4 DEF RuleStates
    <3>4. Detect(r, t) \in RuleStates
      BY <2>4, <3>3, DetectType DEF Detect
    <3>5. QED
      BY <2>2, <3>2, <3>4 DEF Pend
  <2>8. Standing(p) = Standing(s)
    BY <2>6 DEF Standing
  <2>9. s.status = "none" => s.occurrences = 0
    BY DEF LifeOf, Standing
  <2>10. 0 <= p.first /\ p.first <= t /\ (s.status # "none" => p.first = s.first)
    BY <1>t, <1>s, <2>6 DEF Dated
  <2>11. p.occurrences >= 1 =>
           /\ p.first <= p.freeze.at /\ p.freeze.at <= p.confirmed
           /\ p.confirmed <= p.seen
    BY <1>t, <1>s, <2>6, <2>9, <2>10 DEF Dated
  <2>12. Dated(p, t)
    BY <1>t, <1>s, <2>6, <2>8, <2>10, <2>11 DEF Dated
  <2>13. ASSUME Confirms(c, r, t)
         PROVE  Dated(x, t)
    <3>1. x = Confirm(p, t, n)
      BY <2>3, <2>13
    <3>2. /\ x.status = "active" /\ x.origin = "none" /\ x.seen = t
          /\ x.occurrences = p.occurrences + 1 /\ x.available = TRUE
          /\ x.freeze = IF p.freeze = NoFreeze THEN [at |-> t, sequence |-> n] ELSE p.freeze
          /\ x.first = p.first /\ x.confirmed = t
          /\ x.resolved = None /\ x.cleared = None
      BY <2>7, <3>1 DEF Confirm, RuleStates
    <3> HIDE DEF x
    <3>3. p.freeze = NoFreeze <=> p.occurrences = 0
      BY <2>6 DEF LifeOf
    <3>4. x.first <= x.freeze.at /\ x.freeze.at <= x.confirmed
      <4>1. CASE p.freeze = NoFreeze
        BY <3>2, <4>1, <2>10, <1>t
      <4>2. CASE p.freeze # NoFreeze
        <5>1. p.occurrences >= 1
          BY <3>3, <4>2, <2>6, <1>s
        <5>2. /\ p.first <= p.freeze.at /\ p.freeze.at <= p.confirmed /\ p.confirmed <= t
          BY <5>1, <2>11, <2>6
        <5>3. p.freeze.at \in Int /\ p.confirmed \in Int
          BY <2>6, <1>s
        <5>4. QED
          BY <3>2, <4>2, <5>2, <5>3, <1>t
      <4>3. QED
        BY <4>1, <4>2
    <3>5. x.occurrences >= 1 /\ Standing(x) = "active"
      BY <3>2, <2>6, <1>s DEF Standing
    <3>6. 0 <= x.first /\ x.first <= x.seen /\ x.seen <= t
      BY <3>2, <2>10, <1>t
    <3>7. QED
      BY <3>2, <3>4, <3>5, <3>6, <1>t DEF Dated
  <2>14. QED
    BY <2>3, <2>12, <2>13
<1>3. QED
  BY <1>1, <1>2

LEMMA NormalDated ==
  ASSUME NEW c \in Codes, NEW s \in RuleStates, NEW t \in Time,
         LifeOf(s), Dated(s, t)
  PROVE  Dated(HandleNormal(c, s, t), t)
<1> DEFINE x == HandleNormal(c, s, t)
<1> SUFFICES Dated(x, t)
  OBVIOUS
<1>t. t \in Nat
  BY BoundAssumption DEF Time
<1>s. /\ s.first \in Int /\ s.confirmed \in Int /\ s.seen \in Int
      /\ s.resolved \in Int /\ s.cleared \in Int /\ s.freeze.at \in Int
      /\ s.occurrences \in Nat /\ s.available \in BOOLEAN
  BY RecordTimes
<1>1. PICK r : r = [s EXCEPT !.started = None]
  OBVIOUS
<1>2. r \in RuleStates
  BY <1>1, TimeUpdateType
<1>3. /\ r.status = s.status /\ r.origin = s.origin /\ r.seen = s.seen
      /\ r.occurrences = s.occurrences /\ r.freeze = s.freeze /\ r.available = s.available
      /\ r.first = s.first /\ r.confirmed = s.confirmed
      /\ r.resolved = s.resolved /\ r.cleared = s.cleared
  BY <1>1 DEF RuleStates
<1>4. CASE s.status = "pending"
  <2>1. x = Retract(r)
    BY <1>1, <1>3, <1>4 DEF HandleNormal
  <2>2. CASE s.origin = "none"
    <3>1. s.occurrences = 0 /\ s.freeze = NoFreeze
      BY <1>4, <2>2 DEF LifeOf, Standing
    <3>2. /\ x.status = "none" /\ x.origin = "none" /\ x.occurrences = 0
          /\ x.available = FALSE
      BY <2>1, <2>2, <3>1, <1>3 DEF Retract, Blank
    <3> HIDE DEF x
    <3>3. QED
      BY <3>2 DEF Dated, Standing
  <2>3. CASE s.origin # "none"
    <3>1. /\ x.status = s.origin /\ x.origin = "none" /\ x.seen = s.seen
          /\ x.occurrences = s.occurrences /\ x.freeze = s.freeze
          /\ x.available = s.available /\ x.first = s.first /\ x.confirmed = s.confirmed
          /\ x.resolved = s.resolved /\ x.cleared = s.cleared
      BY <2>1, <2>3, <1>2, <1>3 DEF Retract, RuleStates
    <3> HIDE DEF x
    <3>2. x.status # "pending"
      BY <3>1, <1>4 DEF LifeOf, Resting
    <3>3. Standing(x) = Standing(s)
      BY <3>1, <3>2, <1>4 DEF Standing
    <3>4. QED
      BY <3>1, <3>3, <1>4 DEF Dated
  <2>4. QED
    BY <2>2, <2>3
<1>5. CASE s.status # "pending"
  <2>1. s.status \in {"none", "historical", "cleared", "active"}
    BY <1>5 DEF RuleStates, Statuses, Recorded
  <2>2. /\ x.occurrences = s.occurrences /\ x.freeze = s.freeze /\ x.available = s.available
        /\ x.first = s.first /\ x.confirmed = s.confirmed /\ x.seen = s.seen
        /\ x.cleared = s.cleared /\ x.origin = s.origin
        /\ \/ x.status = s.status /\ x.resolved = s.resolved
           \/ s.status = "active" /\ x.status = "historical" /\ x.resolved = t
    BY <1>1, <1>2, <1>3, <2>1 DEF HandleNormal, RuleStates
  <2> HIDE DEF x
  <2>3. CASE x.status = s.status /\ x.resolved = s.resolved
    <3>1. Standing(x) = Standing(s)
      BY <1>5, <2>3 DEF Standing
    <3>2. QED
      BY <2>2, <2>3, <3>1 DEF Dated
  <2>4. CASE s.status = "active" /\ x.status = "historical" /\ x.resolved = t
    BY <1>t, <1>s, <2>2, <2>4 DEF Dated, Standing
  <2>5. QED
    BY <2>2, <2>3, <2>4
<1>6. QED
  BY <1>4, <1>5

LEMMA EvaluationDated ==
  ASSUME NEW c \in Codes, NEW s \in RuleStates, NEW t \in Time, NEW n \in Nat, NEW reading,
         LifeOf(s), Dated(s, t)
  PROVE  Dated(EvaluateRule(c, s, reading, t, n), t)
<1>1. PICK x : x = HandleUnavailable(s)
  OBVIOUS
<1>2. /\ x.status = s.status /\ x.origin = s.origin /\ x.seen = s.seen
      /\ x.occurrences = s.occurrences /\ x.freeze = s.freeze /\ x.available = s.available
      /\ x.first = s.first /\ x.confirmed = s.confirmed
      /\ x.resolved = s.resolved /\ x.cleared = s.cleared
  BY <1>1 DEF HandleUnavailable, RuleStates
<1>3. Dated(x, t)
  BY <1>2 DEF Dated, Standing
<1>4. Evaluate(s, reading) \in {"unavailable", "violation", "normal"}
  BY DEF Evaluate
<1>5. QED
  BY <1>1, <1>3, <1>4, ViolationDated, NormalDated DEF EvaluateRule

LEMMA BlankDated ==
  ASSUME NEW now
  PROVE  LifeOf(Blank) /\ Dated(Blank, now)
<1>1. /\ Blank.status = "none" /\ Blank.origin = "none" /\ Blank.occurrences = 0
      /\ Blank.available = FALSE /\ Blank.freeze = NoFreeze
  BY DEF Blank
<1>2. QED
  BY <1>1 DEF LifeOf, Dated, Standing

LEMMA RecordInvStep ==
  ASSUME MonitoredType, RecordInv, MonitoredNext
  PROVE  RecordInv'
<1>1. ASSUME NEW t \in Time, IngestFrame(t)
      PROVE  RecordInv'
  <2>1. rule' = rule /\ observed' = t /\ observed <= t
    BY <1>1 DEF IngestFrame, Ingest
  <2>2. observed \in Int /\ t \in Int
    BY BoundAssumption DEF MonitoredType, Time, None
  <2>3. ASSUME NEW d \in Codes
        PROVE  Dated(rule[d], t)
    <3>1. rule[d] \in RuleStates /\ Dated(rule[d], observed)
      BY DEF MonitoredType, RecordInv
    <3>2. rule[d].seen \in Int /\ rule[d].resolved \in Int
      BY <3>1, RecordTimes
    <3>3. QED
      BY <2>1, <2>2, <3>1, <3>2 DEF Dated
  <2>4. QED
    BY <2>1, <2>3 DEF RecordInv
<1>2. ASSUME NEW snapshot \in SnapshotsFor(Catalog[cursor]), cursor # 0,
             EvaluateSnapshot(snapshot)
      PROVE  RecordInv'
  <2> DEFINE c == Catalog[cursor]
             x == EvaluateRule(c, rule[c], Reading(c, snapshot), observed, frame)
  <2>1. c \in Codes
    BY <1>2, CatalogAssumption DEF MonitoredType, Codes
  <2>2. /\ rule' = [rule EXCEPT ![c] = x] /\ observed' = observed
    BY <1>2 DEF EvaluateSnapshot, EvaluateNext
  <2>3. /\ observed \in Time /\ frame \in Nat
        /\ rule[c] \in RuleStates /\ LifeOf(rule[c]) /\ Dated(rule[c], observed)
    BY <1>2, <2>1, BoundAssumption DEF MonitoredType, RecordInv
  <2>4. LifeOf(x) /\ Dated(x, observed)
    BY <2>1, <2>3, EvaluationLives, EvaluationDated
  <2> HIDE DEF c, x
  <2>5. \A d \in Codes : rule'[d] = IF d = c THEN x ELSE rule[d]
    BY <2>2 DEF MonitoredType
  <2>6. QED
    BY <2>2, <2>4, <2>5 DEF RecordInv
<1>3. ASSUME NEW c \in Codes, Clear(c)
      PROVE  RecordInv'
  <2>1. PICK x : x = [rule[c] EXCEPT !.status = "cleared", !.cleared = observed]
    OBVIOUS
  <2>2. /\ rule[c].status = "historical" /\ observed' = observed
        /\ rule' = [rule EXCEPT ![c] = x]
    BY <1>3, <2>1 DEF Clear, MonitoredType
  <2>3. PICK s : s = rule[c]
    OBVIOUS
  <2>4. s \in RuleStates /\ LifeOf(s) /\ Dated(s, observed) /\ s.status = "historical"
    BY <2>2, <2>3 DEF MonitoredType, RecordInv
  <2>5. /\ x.status = "cleared" /\ x.origin = s.origin /\ x.seen = s.seen
        /\ x.occurrences = s.occurrences /\ x.freeze = s.freeze /\ x.available = s.available
        /\ x.first = s.first /\ x.confirmed = s.confirmed
        /\ x.resolved = s.resolved /\ x.cleared = observed
    BY <2>1, <2>3, <2>4 DEF RuleStates
  <2>6. LifeOf(x) /\ Dated(x, observed)
    BY <2>4, <2>5 DEF LifeOf, Dated, Standing
  <2>7. \A d \in Codes : rule'[d] = IF d = c THEN x ELSE rule[d]
    BY <2>2 DEF MonitoredType
  <2>8. QED
    BY <2>2, <2>6, <2>7 DEF RecordInv
<1>4. ASSUME Reset
      PROVE  RecordInv'
  BY <1>4, BlankDated DEF Reset, RecordInv
<1>5. QED
  BY <1>1, <1>2, <1>3, <1>4 DEF MonitoredNext

\* The record of every code is as LifeOf and Dated say, always.
THEOREM RecordsKept == MonitoredSpec => []RecordInv
<1>1. MonitoredInit => RecordInv
  BY BlankDated DEF MonitoredInit, Init, RecordInv
<1>2. MonitoredType /\ RecordInv /\ [MonitoredNext]_monitored => RecordInv'
  <2>1. CASE UNCHANGED monitored
    BY <2>1 DEF monitored, vars, RecordInv
  <2>2. QED
    BY <2>1, RecordInvStep
<1>3. QED
  BY <1>1, <1>2, EvidenceKept, PTL DEF MonitoredSpec

\* What a step leaves of a record that has been confirmed: its first detection,
\* its freeze frame and, unless it is confirmed again, the time of that.
Activated(s, x) == s.status # "active" /\ x.status = "active"

Retained(s, x) ==
  s.occurrences >= 1 =>
    /\ x.first = s.first /\ x.freeze = s.freeze
    /\ Activated(s, x) \/ x.confirmed = s.confirmed

\* _handle_violation takes over the fields of the record there is.
LEMMA ViolationRetains ==
  ASSUME NEW c \in Codes, NEW s \in RuleStates, LifeOf(s), NEW t \in Time, NEW n
  PROVE  Retained(s, HandleViolation(c, s, t, n))
<1> DEFINE x == HandleViolation(c, s, t, n)
<1> SUFFICES ASSUME s.occurrences >= 1
             PROVE  /\ x.first = s.first /\ x.freeze = s.freeze
                    /\ Activated(s, x) \/ x.confirmed = s.confirmed
  BY DEF Retained
<1>1. s.status # "none" /\ s.freeze # NoFreeze
  <2>1. s.occurrences \in Nat /\ s.occurrences # 0
    BY DEF RuleStates
  <2>2. QED
    BY <2>1 DEF LifeOf, Standing
<1>2. CASE s.status = "active"
  BY <1>2 DEF HandleViolation, RuleStates
<1>3. CASE s.status # "active"
  <2>1. PICK r : r = [s EXCEPT !.recovery = None]
    OBVIOUS
  <2>2. PICK p : p = Pend(r, t)
    OBVIOUS
  <2>3. x = IF Confirms(c, r, t) THEN Confirm(p, t, n) ELSE p
    BY <1>3, <2>1, <2>2 DEF HandleViolation, RuleStates
  <2>4. /\ r \in RuleStates /\ r.status = s.status /\ r.first = s.first
        /\ r.freeze = s.freeze /\ r.confirmed = s.confirmed
    BY <2>1, TimeUpdateType DEF RuleStates
  <2>5. /\ p.first = s.first /\ p.freeze = s.freeze /\ p.confirmed = s.confirmed
        /\ DOMAIN p = DOMAIN s
    BY <1>1, <2>2, <2>4 DEF Pend, Sustain, Detect, RuleStates
  <2>6. ASSUME Confirms(c, r, t)
        PROVE  x.status = "active" /\ x.first = s.first /\ x.freeze = s.freeze
    <3>1. x = Confirm(p, t, n)
      BY <2>3, <2>6
    <3> HIDE DEF x
    <3>2. QED
      BY <1>1, <2>5, <3>1 DEF Confirm, RuleStates
  <2>7. QED
    BY <1>3, <2>3, <2>5, <2>6 DEF Activated
<1>4. QED
  BY <1>2, <1>3

\* _handle_normal drops a record only if it was never confirmed.
LEMMA NormalRetains ==
  ASSUME NEW c \in Codes, NEW s \in RuleStates, LifeOf(s), NEW t \in Time
  PROVE  Retained(s, HandleNormal(c, s, t))
<1> DEFINE x == HandleNormal(c, s, t)
<1> SUFFICES ASSUME s.occurrences >= 1
             PROVE  x.first = s.first /\ x.freeze = s.freeze /\ x.confirmed = s.confirmed
  BY DEF Retained
<1>1. Standing(s) # "none"
  <2>1. s.occurrences \in Nat /\ s.occurrences # 0
    BY DEF RuleStates
  <2>2. QED
    BY <2>1 DEF LifeOf
<1>2. PICK r : r = [s EXCEPT !.started = None]
  OBVIOUS
<1>3. /\ r.status = s.status /\ r.origin = s.origin /\ r.first = s.first
      /\ r.freeze = s.freeze /\ r.confirmed = s.confirmed /\ r \in RuleStates
  BY <1>2, TimeUpdateType DEF RuleStates
<1>4. CASE s.status = "pending"
  <2>1. x = [r EXCEPT !.status = r.origin, !.origin = "none"]
    BY <1>1, <1>2, <1>3, <1>4 DEF HandleNormal, Retract, Standing
  <2> HIDE DEF x
  <2>2. QED
    BY <1>3, <2>1 DEF RuleStates
<1>5. CASE s.status # "pending"
  <2>1. s.status \in {"none", "historical", "cleared", "active"}
    BY <1>5 DEF RuleStates, Statuses, Recorded
  <2>2. QED
    BY <1>2, <1>3, <2>1 DEF HandleNormal, RuleStates
<1>6. QED
  BY <1>4, <1>5

\* _evaluate_rule keeps what a confirmed record holds, and counts an activation
\* and nothing else.
LEMMA EvaluationRetains ==
  ASSUME NEW c \in Codes, NEW s \in RuleStates, LifeOf(s), NEW t \in Time, NEW n \in Nat,
         NEW reading
  PROVE  LET x == EvaluateRule(c, s, reading, t, n)
         IN  /\ Retained(s, x)
             /\ x.occurrences = s.occurrences + (IF Activated(s, x) THEN 1 ELSE 0)
<1>1. PICK x : x = EvaluateRule(c, s, reading, t, n)
  OBVIOUS
<1>2. Retained(s, x)
  <2>1. Retained(s, HandleUnavailable(s))
    BY DEF HandleUnavailable, RuleStates, Retained
  <2>2. Evaluate(s, reading) \in {"unavailable", "violation", "normal"}
    BY DEF Evaluate
  <2>3. QED
    BY <1>1, <2>1, <2>2, ViolationRetains, NormalRetains DEF EvaluateRule
<1>3. s.occurrences \in Nat
  BY DEF RuleStates
<1>4. Kept(s, x) \/ Confirmed(s, x, n) \/ Recovered(s, x)
  BY <1>1, EvaluationLives
<1>5. CASE Kept(s, x)
  <2>1. ~Activated(s, x)
    BY <1>5 DEF Kept, Activated, Standing, LifeOf, Resting
  <2>2. QED
    BY <1>1, <1>2, <1>3, <1>5, <2>1 DEF Kept
<1>6. CASE Confirmed(s, x, n)
  <2>1. Activated(s, x)
    BY <1>6 DEF Confirmed, Activated, Standing
  <2>2. QED
    BY <1>1, <1>2, <1>6, <2>1 DEF Confirmed
<1>7. CASE Recovered(s, x)
  <2>1. ~Activated(s, x)
    BY <1>7 DEF Recovered, Activated
  <2>2. QED
    BY <1>1, <1>2, <1>3, <1>7, <2>1 DEF Recovered
<1>8. QED
  BY <1>4, <1>5, <1>6, <1>7

\* The same of every record and every step but reset().
LEMMA StepRetains ==
  ASSUME MonitoredType, RecordInv, MonitoredNext, ~Reset, NEW c \in Codes
  PROVE  /\ Retained(rule[c], rule'[c])
         /\ rule'[c].occurrences =
              rule[c].occurrences + (IF Activated(rule[c], rule'[c]) THEN 1 ELSE 0)
<1> DEFINE Counted(s, x) ==
             x.occurrences = s.occurrences + (IF Activated(s, x) THEN 1 ELSE 0)
<1>1. rule[c] \in RuleStates /\ LifeOf(rule[c]) /\ rule[c].occurrences \in Nat
  BY DEF MonitoredType, RecordInv, RuleStates
<1>2. ASSUME rule'[c] = rule[c]
      PROVE  Retained(rule[c], rule'[c]) /\ Counted(rule[c], rule'[c])
  BY <1>1, <1>2 DEF Retained, Activated
<1>3. ASSUME NEW t \in Time, IngestFrame(t)
      PROVE  rule'[c] = rule[c]
  BY <1>3 DEF IngestFrame, Ingest
<1>4. ASSUME NEW snapshot \in SnapshotsFor(Catalog[cursor]), cursor # 0,
             EvaluateSnapshot(snapshot), c = Catalog[cursor]
      PROVE  Retained(rule[c], rule'[c]) /\ Counted(rule[c], rule'[c])
  <2>1. rule'[c] = EvaluateRule(c, rule[c], Reading(c, snapshot), observed, frame)
    BY <1>4 DEF EvaluateSnapshot, EvaluateNext, MonitoredType
  <2>2. observed \in Time /\ frame \in Nat
    BY <1>4, BoundAssumption DEF MonitoredType
  <2>3. PICK s, reading : s = rule[c] /\ reading = Reading(c, snapshot)
    OBVIOUS
  <2>4. PICK x : x = EvaluateRule(c, s, reading, observed, frame)
    OBVIOUS
  <2>5. Retained(s, x) /\ Counted(s, x)
    <3>1. s \in RuleStates /\ LifeOf(s)
      BY <1>1, <2>3
    <3>2. QED
      BY <2>2, <2>4, <3>1, EvaluationRetains
  <2>6. rule'[c] = x
    BY <2>1, <2>3, <2>4
  <2>7. QED
    BY <2>3, <2>5, <2>6
<1>5. ASSUME NEW snapshot \in SnapshotsFor(Catalog[cursor]), cursor # 0,
             EvaluateSnapshot(snapshot), c # Catalog[cursor]
      PROVE  rule'[c] = rule[c]
  BY <1>5 DEF EvaluateSnapshot, EvaluateNext, MonitoredType
<1>6. ASSUME NEW d \in Codes, Clear(d), d # c
      PROVE  rule'[c] = rule[c]
  BY <1>6 DEF Clear, MonitoredType
<1>7. ASSUME Clear(c)
      PROVE  Retained(rule[c], rule'[c]) /\ Counted(rule[c], rule'[c])
  <2>1. PICK s : s = rule[c]
    OBVIOUS
  <2>2. PICK x : x = [s EXCEPT !.status = "cleared", !.cleared = observed]
    OBVIOUS
  <2>3. rule'[c] = x
    BY <1>7, <2>1, <2>2 DEF Clear, MonitoredType
  <2>4. /\ x.status = "cleared" /\ x.occurrences = s.occurrences
        /\ x.first = s.first /\ x.freeze = s.freeze /\ x.confirmed = s.confirmed
    BY <1>1, <2>1, <2>2 DEF RuleStates
  <2>5. QED
    BY <1>1, <2>1, <2>3, <2>4 DEF Retained, Activated
<1>8. QED
  BY <1>2, <1>3, <1>4, <1>5, <1>6, <1>7 DEF MonitoredNext

\* ConfirmedRecordKept: until reset(), a record once confirmed keeps its first
\* detection, its freeze frame and the time of its last confirmation through
\* every pending condition, clear() and recovery, and its count grows by one
\* just when the DTC becomes active.
THEOREM ConfirmedRecordKeptHolds == MonitoredSpec => ConfirmedRecordKept
<1> DEFINE KeptBy(s, x) ==
             /\ x.occurrences = s.occurrences + (IF Activated(s, x) THEN 1 ELSE 0)
             /\ s.occurrences >= 1 =>
                  /\ x.status # "none" /\ x.first = s.first /\ x.freeze = s.freeze
                  /\ Activated(s, x) \/ x.confirmed = s.confirmed
             /\ x.available <=> x.occurrences >= 1
             /\ x.freeze # NoFreeze <=> x.occurrences >= 1
<1>1. MonitoredType /\ MonitoredType' /\ RecordInv /\ RecordInv' /\ [MonitoredNext]_monitored
        => [Reset \/ \A c \in Codes : KeptBy(rule[c], rule'[c])]_vars
  <2> SUFFICES ASSUME MonitoredType, MonitoredType', RecordInv, RecordInv',
                      MonitoredNext, ~Reset, NEW c \in Codes
               PROVE  KeptBy(rule[c], rule'[c])
    BY DEF monitored
  <2>1. /\ Retained(rule[c], rule'[c])
        /\ rule'[c].occurrences =
             rule[c].occurrences + (IF Activated(rule[c], rule'[c]) THEN 1 ELSE 0)
    BY StepRetains
  <2>2. PICK s \in RuleStates : s = rule[c] /\ LifeOf(s) /\ Dated(s, observed)
    BY DEF MonitoredType, RecordInv
  <2>3. PICK x \in RuleStates : x = rule'[c] /\ LifeOf(x) /\ Dated(x, observed')
    BY DEF MonitoredType, RecordInv
  <2>4. s.occurrences \in Nat /\ x.occurrences \in Nat
    BY DEF RuleStates
  <2>5. /\ Retained(s, x)
        /\ x.occurrences = s.occurrences + (IF Activated(s, x) THEN 1 ELSE 0)
    BY <2>1, <2>2, <2>3
  <2>6. x.available <=> x.occurrences >= 1
    BY <2>3 DEF Dated
  <2>7. x.freeze # NoFreeze <=> x.occurrences >= 1
    BY <2>3, <2>4 DEF LifeOf
  <2>8. s.occurrences >= 1 => x.status # "none"
    <3>1. s.occurrences >= 1 => x.occurrences # 0
      BY <2>4, <2>5
    <3>2. x.status = "none" => x.occurrences = 0
      BY <2>3 DEF LifeOf, Standing
    <3>3. QED
      BY <3>1, <3>2
  <2>9. KeptBy(s, x)
    BY <2>5, <2>6, <2>7, <2>8 DEF Retained
  <2>10. QED
    BY <2>2, <2>3, <2>9
<1>2. ConfirmedRecordKept <=> [][Reset \/ \A c \in Codes : KeptBy(rule[c], rule'[c])]_vars
  BY DEF ConfirmedRecordKept, Activated
<1>3. QED
  BY <1>1, <1>2, RecordsKept, EvidenceKept, PTL DEF MonitoredSpec

\* Timeline: the timestamps of every record are in the order of its life, none
\* of them left over from an earlier occurrence.
THEOREM TimelineHolds == MonitoredSpec => []Timeline
<1>1. MonitoredType /\ RecordInv => Timeline
  <2> SUFFICES ASSUME MonitoredType, RecordInv, NEW c \in Codes
               PROVE  LET s == rule[c]
                          standing == Standing(s)
                      IN  /\ s.status # "none" =>
                               0 <= s.first /\ s.first <= s.seen /\ s.seen <= observed
                          /\ s.occurrences >= 1 =>
                               /\ s.first <= s.freeze.at /\ s.freeze.at <= s.confirmed
                               /\ s.confirmed <= s.seen
                          /\ standing = "active" => s.resolved = None /\ s.cleared = None
                          /\ standing \in {"historical", "cleared"} => s.resolved >= s.confirmed
                          /\ standing = "historical" => s.cleared = None
                          /\ standing = "cleared" => s.cleared >= s.resolved
    BY DEF Timeline
  <2>1. PICK s \in RuleStates : s = rule[c] /\ Dated(s, observed)
    BY DEF MonitoredType, RecordInv
  <2>2. s.resolved \in Int /\ s.confirmed \in Int /\ s.cleared \in Int
    BY RecordTimes
  <2>3. QED
    BY <2>1, <2>2 DEF Dated
<1>2. QED
  BY <1>1, RecordsKept, EvidenceKept, PTL

-----------------------------------------------------------------------------
\* What the retained events tell.

\* The events are numbered without a gap and end before the next number.
NumberedTo(E, next) ==
  /\ Len(E) <= next
  /\ \A i \in 1..Len(E) : E[i].sequence = next - Len(E) + i - 1

\* They are in time order, none after now.
TimeOrdered(E, now) ==
  \A i \in 1..Len(E) :
    /\ E[i].at <= now
    /\ \A j \in 1..Len(E) : i <= j => E[i].at <= E[j].at

IsLast(E, i) == \A k \in 1..Len(E) : i < k => E[k].code # E[i].code

\* The next event of the same code.
IsNext(E, i, j) ==
  /\ i < j /\ E[j].code = E[i].code
  /\ \A k \in 1..Len(E) : i < k /\ k < j => E[k].code # E[i].code

\* The events of a code lead from one to the next and to its record.
Chained(E, records) ==
  \A i \in 1..Len(E) :
    /\ IsLast(E, i) => E[i].new = records[E[i].code].status
    /\ \A j \in 1..Len(E) : IsNext(E, i, j) => E[j].prior = E[i].new

Confirming(E, c) == {i \in 1..Len(E) : E[i].code = c /\ E[i].type = "dtc_confirmed"}

\* The whole story of the codes.
Complete(E, records) ==
  \A c \in Codes :
    /\ (\A i \in 1..Len(E) : E[i].code # c) => records[c].status = "none"
    /\ Cardinality(Confirming(E, c)) = records[c].occurrences

Told(E, next, now, records) ==
  /\ NumberedTo(E, next)
  /\ TimeOrdered(E, now)
  /\ Chained(E, records)
  /\ Len(E) = next => Complete(E, records)

EventsInv ==
  /\ events \in Seq(Events)
  /\ Len(events) <= EventCapacity
  /\ nextEvent \in Nat
  /\ Told(events, nextEvent, observed, rule)

\* One more event of a code, whose record it leads to.
LEMMA AppendedEvent ==
  ASSUME NEW E \in Seq(Events), NEW e \in Events, NEW F, F = Append(E, e)
  PROVE  /\ F \in Seq(Events) /\ Len(F) = Len(E) + 1 /\ Len(E) \in Nat
         /\ \A i \in 1..Len(E) : F[i] = E[i] /\ F[i] \in Events
         /\ F[Len(E) + 1] = e
OBVIOUS

\* The entries of the end of a sequence.
LEMMA TailEntry ==
  ASSUME NEW A, NEW s \in Seq(A), NEW m \in 1..(Len(s) + 1), NEW i \in 1..(Len(s) - m + 1)
  PROVE  SubSeq(s, m, Len(s))[i] = s[m + i - 1]
<1>1. \A j \in m..Len(s) : s[j] \in A
  OBVIOUS
<1>2. QED
  BY <1>1

LEMMA EventFields == \A e \in Events : e.code \in Codes /\ e.at \in Int
<1>1. Time \subseteq Int
  BY BoundAssumption DEF Time
<1>2. QED
  BY <1>1 DEF Events

LEMMA ConfirmingFinite ==
  ASSUME NEW E \in Seq(Events), NEW c
  PROVE  IsFiniteSet(Confirming(E, c))
<1>1. IsFiniteSet(1..Len(E))
  <2>1. Len(E) \in Int /\ 1 \in Int
    OBVIOUS
  <2>2. QED
    BY <2>1, FS_Interval
<1>2. Confirming(E, c) \subseteq 1..Len(E)
  BY DEF Confirming
<1>3. QED
  BY <1>1, <1>2, FS_Subset

LEMMA ToldAppended ==
  ASSUME NEW E \in Seq(Events), NEW next \in Nat, NEW now \in Int,
         NEW records \in [Codes -> RuleStates], NEW result \in [Codes -> RuleStates],
         NEW e \in Events, Told(E, next, now, records),
         e.sequence = next, e.at = now, e.prior = records[e.code].status,
         result[e.code].status = e.new,
         result[e.code].occurrences =
           records[e.code].occurrences + (IF e.type = "dtc_confirmed" THEN 1 ELSE 0),
         \A c \in Codes \ {e.code} : result[c] = records[c]
  PROVE  Told(Append(E, e), next + 1, now, result)
<1>1. PICK F : F = Append(E, e)
  OBVIOUS
<1>2. PICK n \in Nat : n = Len(E)
  OBVIOUS
<1>3. /\ F \in Seq(Events) /\ Len(F) = n + 1
      /\ \A i \in 1..n : F[i] = E[i] /\ F[i] \in Events
      /\ F[n + 1] = e
  BY <1>1, <1>2, AppendedEvent
<1>4. e.code \in Codes
  BY DEF Events
<1>5. n <= next /\ NumberedTo(F, next + 1)
  <2>1. n <= next /\ \A i \in 1..n : E[i].sequence = next - n + i - 1
    BY <1>2 DEF Told, NumberedTo
  <2>2. ASSUME NEW i \in 1..(n + 1)
        PROVE  F[i].sequence = next + 1 - (n + 1) + i - 1
    <3>1. next + 1 - (n + 1) + i - 1 = next - n + i - 1
      OBVIOUS
    <3>2. CASE i \in 1..n
      <4>1. F[i].sequence = next - n + i - 1
        BY <1>3, <2>1, <3>2
      <4>2. QED
        BY <3>1, <4>1
    <3>3. CASE i = n + 1
      <4>1. F[i].sequence = next /\ next - n + i - 1 = next
        BY <1>3, <3>3
      <4>2. QED
        BY <3>1, <4>1
    <3>4. QED
      BY <3>2, <3>3
  <2>3. QED
    BY <1>3, <2>1, <2>2 DEF NumberedTo
<1>6. TimeOrdered(F, now)
  <2>1. \A i \in 1..n : E[i].at <= now /\ \A j \in 1..n : i <= j => E[i].at <= E[j].at
    BY <1>2 DEF Told, TimeOrdered
  <2>2. \A i \in 1..n : F[i].at <= now /\ \A j \in 1..n : i <= j => F[i].at <= F[j].at
    BY <1>3, <2>1
  <2>3. F[n + 1].at = now
    BY <1>3
  <2>4. QED
    BY <1>3, <2>2, <2>3 DEF TimeOrdered
<1>7. Chained(F, result)
  <2> SUFFICES ASSUME NEW i \in 1..(n + 1)
               PROVE  /\ IsLast(F, i) => F[i].new = result[F[i].code].status
                      /\ \A j \in 1..(n + 1) : IsNext(F, i, j) => F[j].prior = F[i].new
    BY <1>3 DEF Chained
  <2>1. CASE i = n + 1
    <3>1. F[i].new = result[F[i].code].status
      BY <1>3, <2>1
    <3>2. \A j \in 1..(n + 1) : ~(i < j)
      BY <2>1
    <3>3. QED
      BY <3>1, <3>2 DEF IsNext
  <2>2. CASE i \in 1..n
    <3>1. F[i] = E[i] /\ F[i].code \in Codes
      BY <1>3, <2>2 DEF Events
    <3>2. /\ IsLast(E, i) => E[i].new = records[E[i].code].status
          /\ \A j \in 1..n : IsNext(E, i, j) => E[j].prior = E[i].new
      BY <1>2, <2>2 DEF Told, Chained
    <3>3. ASSUME IsLast(F, i)
          PROVE  F[i].new = result[F[i].code].status
      <4>1. n + 1 \in 1..(n + 1) /\ i < n + 1
        BY <2>2
      <4>2. F[i].code # e.code
        BY <1>3, <3>3, <4>1 DEF IsLast
      <4>3. IsLast(E, i)
        <5> SUFFICES ASSUME NEW k \in 1..n, i < k PROVE E[k].code # E[i].code
          BY <1>2 DEF IsLast
        <5>1. k \in 1..(n + 1)
          OBVIOUS
        <5>2. F[k].code # F[i].code
          BY <1>3, <3>3, <5>1 DEF IsLast
        <5>3. QED
          BY <1>3, <3>1, <5>2
      <4>4. QED
        BY <3>1, <3>2, <4>2, <4>3
    <3>4. ASSUME NEW j \in 1..(n + 1), IsNext(F, i, j)
          PROVE  F[j].prior = F[i].new
      <4>1. \A k \in 1..n : i < k /\ k < j => E[k].code # E[i].code
        <5> SUFFICES ASSUME NEW k \in 1..n, i < k, k < j PROVE E[k].code # E[i].code
          OBVIOUS
        <5>1. k \in 1..(n + 1)
          OBVIOUS
        <5>2. F[k].code # F[i].code
          BY <1>3, <3>4, <5>1 DEF IsNext
        <5>3. QED
          BY <1>3, <3>1, <5>2
      <4>2. CASE j \in 1..n
        <5>1. F[j] = E[j]
          BY <1>3, <4>2
        <5>2. IsNext(E, i, j)
          BY <1>2, <3>1, <3>4, <4>1, <5>1 DEF IsNext
        <5>3. QED
          BY <3>1, <3>2, <4>2, <5>1, <5>2
      <4>3. CASE j = n + 1
        <5>1. F[j] = e /\ e.code = E[i].code
          BY <1>3, <3>1, <3>4, <4>3 DEF IsNext
        <5>2. \A k \in 1..n : i < k => k < j
          BY <4>3
        <5>3. IsLast(E, i)
          BY <1>2, <4>1, <5>2 DEF IsLast
        <5>4. QED
          BY <3>1, <3>2, <5>1, <5>3
      <4>4. QED
        BY <4>2, <4>3
    <3>5. QED
      BY <3>3, <3>4
  <2>3. QED
    BY <2>1, <2>2
<1>8. ASSUME n + 1 = next + 1
      PROVE  Complete(F, result)
  <2>1. Complete(E, records)
    BY <1>2, <1>8 DEF Told
  <2> SUFFICES ASSUME NEW c \in Codes
               PROVE  /\ (\A i \in 1..(n + 1) : F[i].code # c) => result[c].status = "none"
                      /\ Cardinality(Confirming(F, c)) = result[c].occurrences
    BY <1>3 DEF Complete
  <2>2. /\ (\A i \in 1..n : E[i].code # c) => records[c].status = "none"
        /\ Cardinality(Confirming(E, c)) = records[c].occurrences
    BY <1>2, <2>1 DEF Complete
  <2>3. ASSUME \A i \in 1..(n + 1) : F[i].code # c
        PROVE  result[c].status = "none"
    <3>1. n + 1 \in 1..(n + 1) /\ \A i \in 1..n : i \in 1..(n + 1)
      OBVIOUS
    <3>2. c # e.code
      BY <1>3, <2>3, <3>1
    <3>3. \A i \in 1..n : E[i].code # c
      BY <1>3, <2>3, <3>1
    <3>4. QED
      BY <2>2, <3>2, <3>3
  <2>4. Confirming(F, c) = Confirming(E, c) \cup
          (IF e.code = c /\ e.type = "dtc_confirmed" THEN {n + 1} ELSE {})
    <3>1. 1..(n + 1) = (1..n) \cup {n + 1} /\ Len(F) = n + 1 /\ Len(E) = n
      BY <1>2, <1>3
    <3>2. \A i \in 1..n : F[i] = E[i]
      BY <1>3
    <3>3. F[n + 1] = e
      BY <1>3
    <3>4. QED
      BY <3>1, <3>2, <3>3, Zenon DEF Confirming
  <2>5. n + 1 \notin Confirming(E, c)
    BY <1>2 DEF Confirming
  <2>6. IsFiniteSet(Confirming(E, c))
    BY ConfirmingFinite
  <2>7. records[c].occurrences \in Nat
    BY DEF RuleStates
  <2>8. CASE e.code = c /\ e.type = "dtc_confirmed"
    <3>1. Confirming(F, c) = Confirming(E, c) \cup {n + 1}
      BY <2>4, <2>8
    <3>2. Cardinality(Confirming(F, c)) = Cardinality(Confirming(E, c)) + 1
      BY <2>5, <2>6, <3>1, FS_AddElement
    <3>3. QED
      BY <2>2, <2>3, <2>8, <3>2
  <2>9. CASE ~(e.code = c /\ e.type = "dtc_confirmed")
    <3>1. Confirming(F, c) = Confirming(E, c)
      BY <2>4, <2>9
    <3>2. result[c].occurrences = records[c].occurrences
      BY <2>7, <2>9
    <3>3. QED
      BY <2>2, <2>3, <3>1, <3>2
  <2>10. QED
    BY <2>8, <2>9
<1>9. QED
  BY <1>1, <1>3, <1>5, <1>6, <1>7, <1>8 DEF Told

\* The newest events tell what they tell of all.
LEMMA ToldLatest ==
  ASSUME NEW E \in Seq(Events), NEW next \in Nat, NEW now \in Int,
         NEW records, Told(E, next, now, records)
  PROVE  /\ Latest(E) \in Seq(Events) /\ Len(Latest(E)) <= EventCapacity
         /\ Told(Latest(E), next, now, records)
<1>1. PICK n \in Nat : n = Len(E)
  OBVIOUS
<1>2. EventCapacity \in Nat \ {0}
  BY BoundAssumption
<1>3. CASE n <= EventCapacity
  BY <1>1, <1>3 DEF Latest
<1>4. CASE n > EventCapacity
  <2>1. PICK d \in Nat : d = n - EventCapacity
    BY <1>2, <1>4
  <2>2. PICK G : G = SubSeq(E, d + 1, n)
    OBVIOUS
  <2>3. Latest(E) = G
    <3>1. n - EventCapacity + 1 = d + 1
      BY <2>1
    <3>2. QED
      BY <1>1, <1>4, <2>2, <3>1, <1>2 DEF Latest
  <2>4. PICK m \in Nat : m = EventCapacity
    BY <1>2
  <2>5. n = d + m /\ m < n /\ m # 0
    BY <1>2, <1>4, <2>1, <2>4
  <2>6. \A i \in (d + 1)..n : E[i] \in Events
    BY <1>1
  <2>7. G \in Seq(Events) /\ Len(G) = m
    BY <1>1, <2>2, <2>5, <2>6
  <2>8. \A i \in 1..m : G[i] = E[d + i] /\ d + i \in 1..n /\ G[i] \in Events
    <3> SUFFICES ASSUME NEW i \in 1..m
                 PROVE  G[i] = E[d + i] /\ d + i \in 1..n /\ G[i] \in Events
      OBVIOUS
    <3>1. d + 1 \in 1..(n + 1) /\ i \in 1..(n - (d + 1) + 1) /\ d + 1 + i - 1 = d + i
      BY <2>5
    <3>2. G[i] = E[d + 1 + i - 1]
      BY <1>1, <2>2, <3>1, TailEntry
    <3>3. d + i \in 1..n
      BY <2>5
    <3>4. E[d + i] \in Events
      BY <1>1, <3>3
    <3>5. QED
      BY <3>1, <3>2, <3>3, <3>4
  <2>9. n <= next /\ NumberedTo(G, next)
    <3>1. n <= next /\ \A i \in 1..n : E[i].sequence = next - n + i - 1
      BY <1>1 DEF Told, NumberedTo
    <3>2. ASSUME NEW i \in 1..m
          PROVE  G[i].sequence = next - m + i - 1
      <4>1. G[i].sequence = next - n + (d + i) - 1
        BY <2>8, <3>1
      <4>2. next - n + (d + i) - 1 = next - m + i - 1
        BY <2>5
      <4>3. QED
        BY <4>1, <4>2
    <3>3. m <= next
      BY <2>5, <3>1
    <3>4. QED
      BY <2>7, <3>1, <3>2, <3>3 DEF NumberedTo
  <2>10. TimeOrdered(G, now)
    <3>1. \A i \in 1..n : E[i].at <= now /\ \A j \in 1..n : i <= j => E[i].at <= E[j].at
      BY <1>1 DEF Told, TimeOrdered
    <3>2. \A i, j \in 1..m : i <= j => d + i <= d + j
      OBVIOUS
    <3>3. QED
      BY <2>7, <2>8, <3>1, <3>2 DEF TimeOrdered
  <2>11. Chained(G, records)
    <3> SUFFICES ASSUME NEW i \in 1..m
                 PROVE  /\ IsLast(G, i) => G[i].new = records[G[i].code].status
                        /\ \A j \in 1..m : IsNext(G, i, j) => G[j].prior = G[i].new
      BY <2>7 DEF Chained
    <3>1. /\ IsLast(E, d + i) => E[d + i].new = records[E[d + i].code].status
          /\ \A j \in 1..n : IsNext(E, d + i, j) => E[j].prior = E[d + i].new
      BY <1>1, <2>8 DEF Told, Chained
    <3>2. \A k \in 1..n : d + i < k => k - d \in 1..m /\ i < k - d /\ d + (k - d) = k
      BY <2>5
    <3>3. ASSUME IsLast(G, i)
          PROVE  IsLast(E, d + i)
      <4> SUFFICES ASSUME NEW k \in 1..n, d + i < k PROVE E[k].code # E[d + i].code
        BY <1>1 DEF IsLast
      <4>1. G[k - d].code # G[i].code
        BY <2>7, <3>2, <3>3 DEF IsLast
      <4>2. QED
        BY <2>8, <3>2, <4>1
    <3>4. ASSUME NEW j \in 1..m, IsNext(G, i, j)
          PROVE  IsNext(E, d + i, d + j)
      <4>1. d + i < d + j /\ E[d + j].code = E[d + i].code
        BY <2>8, <3>4 DEF IsNext
      <4>2. ASSUME NEW k \in 1..n, d + i < k, k < d + j
            PROVE  E[k].code # E[d + i].code
        <5>1. k - d < j
          BY <4>2
        <5>2. G[k - d].code # G[i].code
          BY <2>7, <3>2, <3>4, <4>2, <5>1 DEF IsNext
        <5>3. QED
          BY <2>8, <3>2, <4>2, <5>2
      <4>3. QED
        BY <1>1, <4>1, <4>2 DEF IsNext
    <3>5. QED
      BY <2>8, <3>1, <3>3, <3>4
  <2>12. Len(G) # next
    BY <2>5, <2>7, <2>9
  <2>13. QED
    BY <2>3, <2>4, <2>7, <2>9, <2>10, <2>11, <2>12 DEF Told
<1>5. QED
  BY <1>1, <1>2, <1>3, <1>4

\* The event e that takes a record of c from s to x.
Tells(c, t, s, x, e) ==
  /\ e = Event(c, t, e.type, s.status, x.status)
  /\ e.type \in EventTypes
  /\ x.occurrences = s.occurrences + (IF e.type = "dtc_confirmed" THEN 1 ELSE 0)

\* A list of events, at most two, that takes it from s to x.
TellAll(c, t, s, x, new) ==
  \/ new = <<>> /\ x.status = s.status /\ x.occurrences = s.occurrences
  \/ \E e : new = <<e>> /\ Tells(c, t, s, x, e)
  \/ \E y \in RuleStates : \E a, b :
       new = <<a, b>> /\ Tells(c, t, s, y, a) /\ Tells(c, t, y, x, b)

LEMMA TellsOne ==
  ASSUME NEW c, NEW t, NEW type \in EventTypes, NEW s \in RuleStates, NEW x \in RuleStates,
         NEW prior, NEW new, prior = s.status, new = x.status,
         x.occurrences = s.occurrences + (IF type = "dtc_confirmed" THEN 1 ELSE 0)
  PROVE  Tells(c, t, s, x, Event(c, t, type, prior, new))
BY DEF Tells, Event

\* Two sequences with the same entries are one.
LEMMA SameEntries ==
  ASSUME NEW A, NEW s \in Seq(A), NEW u \in Seq(A), Len(s) = Len(u), \A i \in 1..Len(s) : s[i] = u[i]
  PROVE  s = u
OBVIOUS

LEMMA PairOf ==
  ASSUME NEW a, NEW b
  PROVE  <<a>> \o <<b>> = <<a, b>>
<1>1. PICK A : A = {a, b}
  OBVIOUS
<1>2. a \in A /\ b \in A
  BY <1>1
<1>3. /\ <<a>> \in Seq(A) /\ Len(<<a>>) = 1 /\ <<a>>[1] = a
      /\ <<b>> \in Seq(A) /\ Len(<<b>>) = 1 /\ <<b>>[1] = b
  BY <1>2
<1>4. <<a, b>> \in Seq(A) /\ Len(<<a, b>>) = 2 /\ <<a, b>>[1] = a /\ <<a, b>>[2] = b
  BY <1>2
<1>5. PICK s, u : s = <<a>> /\ u = <<b>>
  OBVIOUS
<1>6. s \o u \in Seq(A) /\ Len(s \o u) = 2 /\ (s \o u)[1] = a /\ (s \o u)[2] = b
  BY <1>3, <1>5
<1>7. PICK v : v = s \o u
  OBVIOUS
<1>8. PICK w : w = <<a, b>>
  OBVIOUS
<1>9. \A i \in 1..2 : v[i] = w[i]
  BY <1>4, <1>6, <1>7, <1>8
<1>10. v = w
  BY <1>4, <1>6, <1>7, <1>8, <1>9, SameEntries
<1>11. QED
  BY <1>5, <1>7, <1>8, <1>10

LEMMA ViolationTells ==
  ASSUME NEW c \in Codes, NEW s \in RuleStates, NEW t \in Time, NEW n \in Nat,
         NEW reading, Evaluate(s, reading) = "violation",
         HandleViolation(c, s, t, n) \in RuleStates
  PROVE  TellAll(c, t, s, HandleViolation(c, s, t, n), EventsOf(c, s, reading, t))
<1> DEFINE x == HandleViolation(c, s, t, n)
           new == EventsOf(c, s, reading, t)
<1> SUFFICES TellAll(c, t, s, x, new)
  OBVIOUS
<1>1. CASE s.status = "active"
  <2>1. new = <<>>
    BY <1>1 DEF EventsOf
  <2>2. x.status = s.status /\ x.occurrences = s.occurrences
    BY <1>1 DEF HandleViolation, RuleStates
  <2> HIDE DEF x, new
  <2>3. QED
    BY <2>1, <2>2 DEF TellAll
<1>2. CASE s.status # "active"
  <2>1. PICK r : r = [s EXCEPT !.recovery = None]
    OBVIOUS
  <2>2. r \in RuleStates
    BY <2>1, TimeUpdateType
  <2>3. /\ r.status = s.status /\ r.started = s.started /\ r.occurrences = s.occurrences
    BY <2>1 DEF RuleStates
  <2>4. PICK p : p = Pend(r, t)
    OBVIOUS
  <2>5. x = IF Confirms(c, r, t) THEN Confirm(p, t, n) ELSE p
    BY <1>2, <2>1, <2>4 DEF HandleViolation, RuleStates
  <2>6. p \in RuleStates
    <3>1. (IF r.started = None THEN t ELSE r.started) \in Time \cup {None}
      BY <2>2 DEF RuleStates
    <3>2. Sustain(r, t) \in RuleStates
      BY <2>2, <3>1, SustainType DEF Sustain
    <3>3. (IF r.status = "none" THEN t ELSE r.first) \in Time \cup {None}
      BY <2>2 DEF RuleStates
    <3>4. Detect(r, t) \in RuleStates
      BY <2>2, <3>3, DetectType DEF Detect
    <3>5. QED
      BY <2>4, <3>2, <3>4 DEF Pend
  <2>7. p.status = "pending" /\ p.occurrences = s.occurrences
    BY <2>2, <2>3, <2>4 DEF Pend, Sustain, Detect, RuleStates
  <2>8. Pend(r, t).started = Pend(s, t).started
    BY <2>2, <2>3 DEF Pend, Sustain, Detect, RuleStates
  <2>9. Confirms(c, r, t) <=> Confirms(c, s, t)
    BY <2>3, <2>8 DEF Confirms
  <2> DEFINE detected == Event(c, t, "condition_detected", s.status, "pending")
             confirmed == Event(c, t, "dtc_confirmed", "pending", "active")
  <2>10. new = (IF s.status = "pending" THEN <<>> ELSE <<detected>>)
               \o (IF Confirms(c, s, t) THEN <<confirmed>> ELSE <<>>)
    BY <1>2 DEF EventsOf
  <2>11. Tells(c, t, s, p, detected)
    <3>1. /\ "condition_detected" \in EventTypes
          /\ p.occurrences = s.occurrences + (IF "condition_detected" = "dtc_confirmed" THEN 1 ELSE 0)
      BY <2>7 DEF EventTypes, RuleStates
    <3>2. QED
      BY <2>6, <2>7, <3>1, TellsOne
  <2>12. ASSUME Confirms(c, s, t)
         PROVE  Tells(c, t, p, x, confirmed)
    <3>1. x.status = "active" /\ x.occurrences = p.occurrences + 1
      BY <2>5, <2>6, <2>9, <2>12 DEF Confirm, RuleStates
    <3>2. "dtc_confirmed" \in EventTypes
      BY DEF EventTypes
    <3> HIDE DEF x
    <3>3. x \in RuleStates
      BY DEF x
    <3>4. QED
      BY <2>6, <2>7, <3>1, <3>2, <3>3, TellsOne
  <2> HIDE DEF x, new, detected, confirmed
  <2>13. CASE s.status = "pending" /\ ~Confirms(c, s, t)
    <3>1. new = <<>>
      BY <2>10, <2>13
    <3>2. QED
      BY <2>5, <2>7, <2>9, <2>13, <3>1 DEF TellAll
  <2>14. CASE s.status = "pending" /\ Confirms(c, s, t)
    <3>1. new = <<confirmed>>
      BY <2>10, <2>14
    <3>2. Tells(c, t, s, x, confirmed)
      BY <2>7, <2>12, <2>14 DEF Tells
    <3>3. QED
      BY <3>1, <3>2 DEF TellAll
  <2>15. CASE s.status # "pending" /\ ~Confirms(c, s, t)
    <3>1. new = <<detected>> /\ x = p
      BY <2>5, <2>9, <2>10, <2>15
    <3>2. QED
      BY <2>11, <3>1 DEF TellAll
  <2>16. CASE s.status # "pending" /\ Confirms(c, s, t)
    <3>1. new = <<detected, confirmed>>
      BY <2>10, <2>16, PairOf
    <3>2. QED
      BY <2>6, <2>11, <2>12, <2>16, <3>1 DEF TellAll
  <2>17. QED
    BY <2>13, <2>14, <2>15, <2>16
<1>3. QED
  BY <1>1, <1>2

LEMMA NormalTells ==
  ASSUME NEW c \in Codes, NEW s \in RuleStates, LifeOf(s), NEW t \in Time,
         NEW reading, Evaluate(s, reading) = "normal",
         HandleNormal(c, s, t) \in RuleStates
  PROVE  TellAll(c, t, s, HandleNormal(c, s, t), EventsOf(c, s, reading, t))
<1> DEFINE x == HandleNormal(c, s, t)
           new == EventsOf(c, s, reading, t)
<1> SUFFICES TellAll(c, t, s, x, new)
  OBVIOUS
<1>1. PICK r : r = [s EXCEPT !.started = None]
  OBVIOUS
<1>2. r \in RuleStates
  BY <1>1, TimeUpdateType DEF RuleStates
<1>3. /\ r.status = s.status /\ r.origin = s.origin /\ r.recovery = s.recovery
      /\ r.occurrences = s.occurrences /\ s.occurrences \in Nat
  BY <1>1 DEF RuleStates
<1>4. /\ "condition_cleared" \in EventTypes /\ "dtc_recovered" \in EventTypes
      /\ s.occurrences = s.occurrences + (IF "condition_cleared" = "dtc_confirmed" THEN 1 ELSE 0)
      /\ s.occurrences = s.occurrences + (IF "dtc_recovered" = "dtc_confirmed" THEN 1 ELSE 0)
  BY DEF EventTypes, RuleStates
<1>5. Recovers(c, r, t) <=> Recovers(c, s, t)
  BY <1>3 DEF Recovers, RecoveryStart
<1>6. CASE s.status = "pending"
  <2>1. x = Retract(r)
    BY <1>1, <1>3, <1>6 DEF HandleNormal
  <2>2. s.origin = "none" => s.occurrences = 0
    BY <1>6 DEF LifeOf, Standing
  <2>3. x.status = s.origin /\ x.occurrences = s.occurrences
    BY <1>2, <1>3, <2>1, <2>2 DEF Retract, Blank, RuleStates
  <2>4. new = <<Event(c, t, "condition_cleared", "pending", s.origin)>>
    <3>1. ~Recovers(c, s, t)
      BY <1>6 DEF Recovers
    <3>2. QED
      BY <1>6, <3>1 DEF EventsOf
  <2>x. x \in RuleStates
    OBVIOUS
  <2> HIDE DEF x, new
  <2>5. Tells(c, t, s, x, Event(c, t, "condition_cleared", "pending", s.origin))
    BY <1>4, <1>6, <2>3, <2>x, TellsOne
  <2>6. QED
    BY <2>4, <2>5 DEF TellAll
<1>7. CASE s.status # "pending"
  <2>1. s.status \in {"none", "historical", "cleared", "active"}
    BY <1>7 DEF RuleStates, Statuses, Recorded
  <2>2. /\ x.occurrences = s.occurrences
        /\ x.status = IF Recovers(c, r, t) THEN "historical" ELSE s.status
    BY <1>1, <1>2, <1>3, <2>1 DEF HandleNormal, Recovers, RuleStates
  <2>3. new = IF Recovers(c, s, t)
              THEN <<Event(c, t, "dtc_recovered", "active", "historical")>> ELSE <<>>
    BY <1>7 DEF EventsOf
  <2>x. x \in RuleStates
    OBVIOUS
  <2> HIDE DEF x, new
  <2>4. CASE Recovers(c, s, t)
    <3>1. s.status = "active"
      BY <2>4 DEF Recovers
    <3>2. Tells(c, t, s, x, Event(c, t, "dtc_recovered", "active", "historical"))
      BY <1>4, <1>5, <2>2, <2>4, <2>x, <3>1, TellsOne
    <3>3. QED
      BY <2>3, <2>4, <3>2 DEF TellAll
  <2>5. CASE ~Recovers(c, s, t)
    BY <1>5, <2>2, <2>3, <2>5 DEF TellAll
  <2>6. QED
    BY <2>4, <2>5
<1>8. QED
  BY <1>6, <1>7

\* What an evaluation reports is what it does to the record.
LEMMA EvaluationTells ==
  ASSUME NEW c \in Codes, NEW s \in RuleStates, LifeOf(s), NEW t \in Time, NEW n \in Nat,
         NEW reading, EvaluateRule(c, s, reading, t, n) \in RuleStates
  PROVE  TellAll(c, t, s, EvaluateRule(c, s, reading, t, n), EventsOf(c, s, reading, t))
<1>1. Evaluate(s, reading) \in {"unavailable", "violation", "normal"}
  BY DEF Evaluate
<1>2. CASE Evaluate(s, reading) = "unavailable"
  <2>1. EvaluateRule(c, s, reading, t, n) = HandleUnavailable(s)
    BY <1>2 DEF EvaluateRule
  <2>2. /\ HandleUnavailable(s).status = s.status
        /\ HandleUnavailable(s).occurrences = s.occurrences
    BY DEF HandleUnavailable, RuleStates
  <2>3. EventsOf(c, s, reading, t) = <<>>
    BY <1>2 DEF EventsOf
  <2>4. QED
    BY <2>1, <2>2, <2>3 DEF TellAll
<1>3. CASE Evaluate(s, reading) = "violation"
  <2>1. EvaluateRule(c, s, reading, t, n) = HandleViolation(c, s, t, n)
    BY <1>3 DEF EvaluateRule
  <2>2. QED
    BY <1>3, <2>1, ViolationTells
<1>4. CASE Evaluate(s, reading) = "normal"
  <2>1. EvaluateRule(c, s, reading, t, n) = HandleNormal(c, s, t)
    BY <1>4 DEF EvaluateRule
  <2>2. QED
    BY <1>4, <2>1, NormalTells
<1>5. QED
  BY <1>1, <1>2, <1>3, <1>4

LEMMA PairJoined ==
  ASSUME NEW A, NEW s \in Seq(A), NEW a \in A, NEW b \in A
  PROVE  s \o <<a, b>> = Append(Append(s, a), b)
OBVIOUS

LEMMA NumberedEvent ==
  ASSUME NEW c \in Codes, NEW t \in Time, NEW s \in RuleStates, NEW x \in RuleStates,
         NEW e, Tells(c, t, s, x, e), NEW k \in Nat
  PROVE  /\ Numbered(e, k) \in Events
         /\ Numbered(e, k).sequence = k /\ Numbered(e, k).at = t /\ Numbered(e, k).code = c
         /\ Numbered(e, k).type = e.type
         /\ Numbered(e, k).prior = s.status /\ Numbered(e, k).new = x.status
<1>1. /\ e.code = c /\ e.at = t /\ e.type \in EventTypes
      /\ e.prior = s.status /\ e.new = x.status
  BY DEF Tells, Event
<1>2. s.status \in Statuses /\ x.status \in Statuses
  BY DEF RuleStates
<1>3. QED
  BY <1>1, <1>2 DEF Numbered, Events

\* The events of a step, joined to those before, tell where the step has led.
LEMMA ToldJoined ==
  ASSUME NEW E \in Seq(Events), NEW next \in Nat, NEW t \in Time,
         NEW records \in [Codes -> RuleStates], NEW result \in [Codes -> RuleStates],
         NEW c \in Codes, NEW new, Told(E, next, t, records),
         TellAll(c, t, records[c], result[c], new),
         \A d \in Codes \ {c} : result[d] = records[d]
  PROVE  LET F == E \o [i \in 1..Len(new) |-> Numbered(new[i], next + i - 1)]
         IN  F \in Seq(Events) /\ Len(new) \in Nat /\ Told(F, next + Len(new), t, result)
<1> DEFINE N == [i \in 1..Len(new) |-> Numbered(new[i], next + i - 1)]
           F == E \o N
<1> SUFFICES F \in Seq(Events) /\ Len(new) \in Nat /\ Told(F, next + Len(new), t, result)
  OBVIOUS
<1>0. t \in Int
  BY BoundAssumption DEF Time
<1>1. CASE new = <<>> /\ result[c].status = records[c].status
           /\ result[c].occurrences = records[c].occurrences
  <2>1. N = <<>> /\ Len(new) = 0 /\ next + Len(new) = next
    BY <1>1
  <2>2. F = E
    BY <2>1
  <2>3. \A d \in Codes : /\ result[d].status = records[d].status
                         /\ result[d].occurrences = records[d].occurrences
    BY <1>1
  <2>4. \A i \in 1..Len(E) : E[i].code \in Codes
    BY EventFields
  <2>5. Chained(E, result)
    BY <2>3, <2>4 DEF Told, Chained
  <2>6. Complete(E, records) => Complete(E, result)
    BY <2>3 DEF Complete
  <2> HIDE DEF F, N
  <2>7. QED
    BY <2>1, <2>2, <2>5, <2>6 DEF Told
<1>2. ASSUME NEW a, new = <<a>>, Tells(c, t, records[c], result[c], a)
      PROVE  F \in Seq(Events) /\ Len(new) \in Nat /\ Told(F, next + Len(new), t, result)
  <2>1. PICK e : e = Numbered(a, next)
    OBVIOUS
  <2>2. /\ e \in Events /\ e.sequence = next /\ e.at = t /\ e.code = c /\ e.type = a.type
        /\ e.prior = records[c].status /\ e.new = result[c].status
    BY <1>2, <2>1, NumberedEvent
  <2>3. Len(new) = 1 /\ N = <<e>>
    <3>1. Len(new) = 1 /\ new[1] = a /\ next + 1 - 1 = next
      BY <1>2
    <3>2. N = [i \in 1..1 |-> e]
      BY <2>1, <3>1
    <3>3. QED
      BY <3>1, <3>2
  <2>4. F = Append(E, e)
    BY <2>2, <2>3
  <2> HIDE DEF F
  <2>5. F \in Seq(Events)
    BY <2>2, <2>4
  <2>6. Told(Append(E, e), next + 1, t, result)
    <3>1. result[c].occurrences =
            records[c].occurrences + (IF e.type = "dtc_confirmed" THEN 1 ELSE 0)
      BY <1>2, <2>2 DEF Tells
    <3>2. QED
      BY <1>0, <2>2, <3>1, ToldAppended
  <2>7. QED
    BY <2>3, <2>4, <2>5, <2>6
<1>3. ASSUME NEW y \in RuleStates, NEW a, NEW b, new = <<a, b>>,
             Tells(c, t, records[c], y, a), Tells(c, t, y, result[c], b)
      PROVE  F \in Seq(Events) /\ Len(new) \in Nat /\ Told(F, next + Len(new), t, result)
  <2>1. PICK e, f : e = Numbered(a, next) /\ f = Numbered(b, next + 1)
    OBVIOUS
  <2>2. /\ e \in Events /\ e.sequence = next /\ e.at = t /\ e.code = c /\ e.type = a.type
        /\ e.prior = records[c].status /\ e.new = y.status
    BY <1>3, <2>1, NumberedEvent
  <2>3. /\ f \in Events /\ f.sequence = next + 1 /\ f.at = t /\ f.code = c /\ f.type = b.type
        /\ f.prior = y.status /\ f.new = result[c].status
    BY <1>3, <2>1, NumberedEvent
  <2>4. PICK between : between = [records EXCEPT ![c] = y]
    OBVIOUS
  <2>5. /\ between \in [Codes -> RuleStates] /\ between[c] = y
        /\ \A d \in Codes \ {c} : between[d] = records[d]
    BY <2>4
  <2>6. Len(new) = 2 /\ N = <<e, f>>
    <3>1. Len(new) = 2 /\ new[1] = a /\ new[2] = b
          /\ next + 1 - 1 = next /\ next + 2 - 1 = next + 1
      BY <1>3
    <3>2. DOMAIN N = 1..2 /\ N[1] = e /\ N[2] = f
      BY <2>1, <3>1
    <3>3. N = [i \in 1..2 |-> N[i]]
      BY <3>1
    <3> HIDE DEF N
    <3>4. N = <<e, f>>
      BY <3>2, <3>3
    <3>5. QED
      BY <3>1, <3>4
  <2>7. PICK G : G = Append(E, e)
    OBVIOUS
  <2>8. G \in Seq(Events)
    BY <2>2, <2>7
  <2>9. F = Append(G, f)
    BY <2>2, <2>3, <2>6, <2>7, PairJoined
  <2> HIDE DEF F, N
  <2>10. F \in Seq(Events)
    BY <2>3, <2>8, <2>9
  <2>11. Told(G, next + 1, t, between)
    <3>1. between[c].occurrences =
            records[c].occurrences + (IF e.type = "dtc_confirmed" THEN 1 ELSE 0)
      BY <1>3, <2>2, <2>5 DEF Tells
    <3>2. QED
      BY <1>0, <2>2, <2>5, <2>7, <3>1, ToldAppended
  <2>12. Told(Append(G, f), (next + 1) + 1, t, result)
    <3>1. result[c].occurrences =
            between[c].occurrences + (IF f.type = "dtc_confirmed" THEN 1 ELSE 0)
      BY <1>3, <2>3, <2>5 DEF Tells
    <3>2. \A d \in Codes \ {c} : result[d] = between[d]
      BY <2>5
    <3>3. PICK k \in Nat : k = next + 1
      OBVIOUS
    <3>4. /\ f \in Events /\ f.sequence = k /\ f.at = t /\ f.prior = between[f.code].status
          /\ result[f.code].status = f.new
      BY <2>3, <2>5, <3>3
    <3>5. /\ result[f.code].occurrences =
                between[f.code].occurrences + (IF f.type = "dtc_confirmed" THEN 1 ELSE 0)
          /\ \A d \in Codes \ {f.code} : result[d] = between[d]
          /\ Told(G, k, t, between)
          /\ between \in [Codes -> RuleStates]
      BY <2>3, <2>5, <2>11, <3>1, <3>2, <3>3
    <3>6. Told(Append(G, f), k + 1, t, result)
      BY <1>0, <2>8, <3>4, <3>5, ToldAppended, Zenon
    <3>7. QED
      BY <3>3, <3>6
  <2>13. (next + 1) + 1 = next + Len(new)
    BY <2>6
  <2>14. QED
    BY <2>6, <2>9, <2>10, <2>12, <2>13
<1>4. QED
  BY <1>1, <1>2, <1>3 DEF TellAll

\* A step that changes one record and appends what it tells.
LEMMA EventsStep ==
  ASSUME MonitoredType, MonitoredType', EventsInv, observed \in Time, observed' = observed,
         NEW c \in Codes, NEW new, AppendEvents(new),
         TellAll(c, observed, rule[c], rule'[c], new),
         \A d \in Codes \ {c} : rule'[d] = rule[d]
  PROVE  EventsInv'
<1> DEFINE F == events \o [i \in 1..Len(new) |-> Numbered(new[i], nextEvent + i - 1)]
<1>1. F \in Seq(Events) /\ Len(new) \in Nat /\ Told(F, nextEvent + Len(new), observed, rule')
  <2>1. /\ rule \in [Codes -> RuleStates] /\ rule' \in [Codes -> RuleStates]
        /\ events \in Seq(Events) /\ nextEvent \in Nat
        /\ Told(events, nextEvent, observed, rule)
    BY DEF MonitoredType, EventsInv
  <2>2. QED
    BY <2>1, ToldJoined
<1>2. events' = Latest(F) /\ nextEvent' = nextEvent + Len(new)
  BY DEF AppendEvents
<1> HIDE DEF F
<1>3. nextEvent' \in Nat
  BY <1>1, <1>2 DEF EventsInv
<1>4. observed \in Int
  BY BoundAssumption DEF Time
<1>5. /\ Latest(F) \in Seq(Events) /\ Len(Latest(F)) <= EventCapacity
      /\ Told(Latest(F), nextEvent', observed, rule')
  BY <1>1, <1>2, <1>3, <1>4, ToldLatest
<1>6. QED
  BY <1>2, <1>3, <1>5 DEF EventsInv

LEMMA EventsBlank ==
  ASSUME NEW records, NEW now, \A c \in Codes : records[c] = Blank
  PROVE  Told(<<>>, 0, now, records)
<1>1. Len(<<>>) = 0 /\ 1..0 = {}
  OBVIOUS
<1>2. \A c \in Codes : records[c].status = "none" /\ records[c].occurrences = 0
  BY DEF Blank
<1>3. \A c : Confirming(<<>>, c) = {}
  BY <1>1 DEF Confirming
<1>4. Complete(<<>>, records)
  BY <1>2, <1>3, FS_EmptySet DEF Complete
<1>5. NumberedTo(<<>>, 0) /\ TimeOrdered(<<>>, now) /\ Chained(<<>>, records)
  BY <1>1 DEF NumberedTo, TimeOrdered, Chained
<1>6. QED
  BY <1>4, <1>5 DEF Told

LEMMA EventsInvStep ==
  ASSUME MonitoredType, MonitoredType', RecordInv, EventsInv, MonitoredNext
  PROVE  EventsInv'
<1>1. ASSUME NEW t \in Time, IngestFrame(t)
      PROVE  EventsInv'
  <2>1. /\ rule' = rule /\ events' = events /\ nextEvent' = nextEvent
        /\ observed' = t /\ observed <= t
    BY <1>1 DEF IngestFrame, Ingest
  <2>2. observed \in Int /\ t \in Int
    BY BoundAssumption DEF MonitoredType, Time, None
  <2>3. \A i \in 1..Len(events) : events[i].at \in Int
    BY EventFields DEF EventsInv
  <2>4. TimeOrdered(events, t)
    BY <2>1, <2>2, <2>3 DEF EventsInv, Told, TimeOrdered
  <2>5. QED
    BY <2>1, <2>4 DEF EventsInv, Told
<1>2. ASSUME NEW snapshot \in SnapshotsFor(Catalog[cursor]), cursor # 0,
             EvaluateSnapshot(snapshot)
      PROVE  EventsInv'
  <2> DEFINE c == Catalog[cursor]
             reading == Reading(c, snapshot)
             x == EvaluateRule(c, rule[c], reading, observed, frame)
             new == EventsOf(c, rule[c], reading, observed)
  <2>1. c \in Codes
    BY <1>2, CatalogAssumption DEF MonitoredType, Codes
  <2>2. /\ rule' = [rule EXCEPT ![c] = x] /\ observed' = observed
        /\ AppendEvents(new)
    BY <1>2 DEF EvaluateSnapshot, EvaluateNext
  <2>3. /\ observed \in Time /\ frame \in Nat
        /\ rule[c] \in RuleStates /\ LifeOf(rule[c])
    BY <1>2, <2>1 DEF MonitoredType, RecordInv
  <2>4. \A d \in Codes : rule'[d] = IF d = c THEN x ELSE rule[d]
    BY <2>2 DEF MonitoredType
  <2>5. x \in RuleStates
    BY <2>1, <2>4 DEF MonitoredType
  <2>6. TellAll(c, observed, rule[c], x, new)
    BY <2>1, <2>3, <2>5, EvaluationTells
  <2> HIDE DEF c, x, new, reading
  <2>7. TellAll(c, observed, rule[c], rule'[c], new)
    BY <2>1, <2>4, <2>6
  <2>8. QED
    BY <2>1, <2>2, <2>3, <2>4, <2>7, EventsStep
<1>3. ASSUME NEW c \in Codes, Clear(c)
      PROVE  EventsInv'
  <2>1. PICK e : e = Event(c, observed, "dtc_cleared", "historical", "cleared")
    OBVIOUS
  <2>2. /\ rule[c].status = "historical" /\ observed' = observed
        /\ rule' = [rule EXCEPT ![c].status = "cleared", ![c].cleared = observed]
        /\ AppendEvents(<<e>>)
    BY <1>3, <2>1 DEF Clear
  <2>3. rule[c] \in RuleStates /\ rule'[c] \in RuleStates
    BY DEF MonitoredType
  <2>4. /\ rule'[c].status = "cleared" /\ rule'[c].occurrences = rule[c].occurrences
        /\ \A d \in Codes \ {c} : rule'[d] = rule[d]
    BY <2>2 DEF MonitoredType, RuleStates
  <2>5. observed \in Time
    <3>1. Dated(rule[c], observed) /\ rule[c].first \in Int
      BY <2>3, RecordTimes DEF RecordInv
    <3>2. observed # None
      <4>1. 0 <= rule[c].first /\ rule[c].first <= rule[c].seen /\ rule[c].seen <= observed
        BY <2>2, <3>1 DEF Dated
      <4>2. rule[c].seen \in Int /\ observed \in Int
        BY <2>3, RecordTimes, BoundAssumption DEF MonitoredType, Time, None
      <4>3. QED
        BY <3>1, <4>1, <4>2 DEF None
    <3>3. QED
      BY <3>2 DEF MonitoredType
  <2>6. Tells(c, observed, rule[c], rule'[c], e)
    <3>1. /\ "dtc_cleared" \in EventTypes
          /\ rule'[c].occurrences =
               rule[c].occurrences + (IF "dtc_cleared" = "dtc_confirmed" THEN 1 ELSE 0)
      BY <2>3, <2>4 DEF EventTypes, RuleStates
    <3>2. PICK s, x : s = rule[c] /\ x = rule'[c]
      OBVIOUS
    <3>3. /\ s \in RuleStates /\ x \in RuleStates
          /\ "historical" = s.status /\ "cleared" = x.status
          /\ x.occurrences = s.occurrences + (IF "dtc_cleared" = "dtc_confirmed" THEN 1 ELSE 0)
      BY <2>2, <2>3, <2>4, <3>1, <3>2
    <3>4. Tells(c, observed, s, x, e)
      BY <2>1, <3>1, <3>3, TellsOne
    <3>5. QED
      BY <3>2, <3>4
  <2>7. TellAll(c, observed, rule[c], rule'[c], <<e>>)
    BY <2>6 DEF TellAll
  <2>8. QED
    BY <2>2, <2>4, <2>5, <2>7, EventsStep
<1>4. ASSUME Reset
      PROVE  EventsInv'
  <2>1. /\ events' = <<>> /\ nextEvent' = 0
        /\ \A c \in Codes : rule'[c] = Blank
    BY <1>4 DEF Reset
  <2>2. Told(<<>>, 0, observed', rule')
    BY <2>1, EventsBlank
  <2>3. <<>> \in Seq(Events) /\ Len(<<>>) <= EventCapacity
    BY BoundAssumption
  <2>4. QED
    BY <2>1, <2>2, <2>3 DEF EventsInv
<1>5. QED
  BY <1>1, <1>2, <1>3, <1>4 DEF MonitoredNext

\* A set of indices has a least and a greatest.
LEMMA LeastExists ==
  ASSUME NEW n \in Nat, NEW S, S \subseteq 1..n, S # {}
  PROVE  \E m \in S : \A k \in S : m <= k
<1>1. S \in SUBSET Nat /\ S # {}
  OBVIOUS
<1>2. PICK m \in S : \A k \in S : ~ (<<k, m>> \in OpToRel(<, Nat))
  BY <1>1, WFMin, NatLessThanWellFounded
<1>3. \A k \in S : ~(k < m)
  BY <1>1, <1>2 DEF OpToRel
<1>4. QED
  BY <1>1, <1>3

LEMMA GreatestExists ==
  ASSUME NEW n \in Nat, NEW S, S \subseteq 1..n, NEW x \in S
  PROVE  \E m \in S : \A k \in S : k <= m
<1>1. PICK T : T = {i \in 1..n : n + 1 - i \in S}
  OBVIOUS
<1>2. T \subseteq 1..n /\ n + 1 - x \in T
  BY <1>1
<1>3. PICK i \in T : \A k \in T : i <= k
  BY <1>2, LeastExists
<1>4. i \in 1..n /\ n + 1 - i \in S
  BY <1>1, <1>3
<1>5. ASSUME NEW k \in S
      PROVE  k <= n + 1 - i
  <2>1. k \in 1..n /\ n + 1 - k \in 1..n /\ n + 1 - (n + 1 - k) = k
    OBVIOUS
  <2>2. n + 1 - k \in T
    BY <1>1, <2>1
  <2>3. i <= n + 1 - k
    BY <1>3, <2>2
  <2>4. QED
    BY <1>4, <2>1, <2>3
<1>6. QED
  BY <1>4, <1>5

\* The events are as EventsInv says, always.
THEOREM EventsTold == MonitoredSpec => []EventsInv
<1>1. MonitoredInit => EventsInv
  <2> SUFFICES ASSUME MonitoredInit PROVE EventsInv
    OBVIOUS
  <2>1. events = <<>> /\ nextEvent = 0 /\ \A c \in Codes : rule[c] = Blank
    BY DEF MonitoredInit, Init
  <2>2. Told(<<>>, 0, observed, rule)
    BY <2>1, EventsBlank
  <2>3. <<>> \in Seq(Events) /\ Len(<<>>) <= EventCapacity
    BY BoundAssumption
  <2>4. QED
    BY <2>1, <2>2, <2>3 DEF EventsInv
<1>2. MonitoredType /\ MonitoredType' /\ RecordInv /\ EventsInv /\ [MonitoredNext]_monitored
        => EventsInv'
  <2>1. ASSUME EventsInv, UNCHANGED monitored
        PROVE  EventsInv'
    BY <2>1 DEF monitored, vars, EventsInv
  <2>2. QED
    BY <2>1, EventsInvStep
<1>3. QED
  BY <1>1, <1>2, RecordsKept, EvidenceKept, PTL DEF MonitoredSpec

\* The events a list returns are the newest ones, by number.
LEMMA ListedByNumber ==
  ASSUME EventsInv, NEW limit \in Nat \ {0}
  PROVE  LET listed == EventsUpTo(limit)
         IN  /\ \A i \in DOMAIN listed : listed[i].sequence = Summary.latest - Len(listed) + i
             /\ limit >= Summary.retained => Len(listed) = Summary.retained
<1>1. PICK n \in Nat : n = Len(events)
  BY DEF EventsInv
<1>2. PICK m \in 1..(n + 1) : m = IF n > limit THEN n - limit + 1 ELSE 1
  <2>1. (IF n > limit THEN n - limit + 1 ELSE 1) \in 1..(n + 1)
    OBVIOUS
  <2>2. QED
    BY <2>1
<1>3. PICK listed : listed = SubSeq(events, m, n)
  OBVIOUS
<1>4. EventsUpTo(limit) = listed
  BY <1>1, <1>2, <1>3 DEF EventsUpTo
<1>5. events \in Seq(Events) /\ nextEvent \in Nat /\ n <= nextEvent
      /\ \A i \in 1..n : events[i].sequence = nextEvent - n + i - 1
  BY <1>1 DEF EventsInv, Told, NumberedTo
<1>6. listed \in Seq(Events) /\ Len(listed) = n - m + 1
  <2>1. \A i \in m..n : events[i] \in Events
    BY <1>1, <1>5
  <2>2. QED
    BY <1>1, <1>2, <1>3, <1>5, <2>1
<1>7. Summary.retained = n /\ Summary.latest = IF nextEvent = 0 THEN None ELSE nextEvent - 1
  BY <1>1 DEF Summary
<1>8. ASSUME NEW i \in 1..(n - m + 1)
      PROVE  listed[i].sequence = Summary.latest - (n - m + 1) + i
  <2>1. listed[i] = events[m + i - 1]
    BY <1>1, <1>3, <1>5, <1>8, TailEntry
  <2>2. m + i - 1 \in 1..n /\ n >= 1
    BY <1>2, <1>8
  <2>3. listed[i].sequence = nextEvent - n + (m + i - 1) - 1
    BY <1>5, <2>1, <2>2
  <2>4. Summary.latest = nextEvent - 1
    BY <1>5, <1>7, <2>2
  <2>5. nextEvent - n + (m + i - 1) - 1 = (nextEvent - 1) - (n - m + 1) + i
    BY <1>5
  <2>6. QED
    BY <2>3, <2>4, <2>5
<1>9. limit >= n => n - m + 1 = n
  BY <1>2
<1>10. DOMAIN listed = 1..(n - m + 1)
  BY <1>6
<1>11. QED
  BY <1>4, <1>6, <1>7, <1>8, <1>9, <1>10

\* The records of a status are as many as the codes its events lead to.
LEMMA CountedByEvents ==
  ASSUME MonitoredType, EventsInv, Len(events) = nextEvent,
         NEW status \in {"pending", "active", "historical", "cleared"}
  PROVE  Cardinality(Dtcs({status})) = Cardinality(LeftIn(status))
<1>1. PICK n \in Nat : n = Len(events) /\ DOMAIN events = 1..n
  BY DEF EventsInv
<1>2. /\ \A i \in 1..n : events[i].code \in Codes
      /\ \A i \in 1..n : IsLast(events, i) => events[i].new = rule[events[i].code].status
      /\ \A c \in Codes :
           (\A i \in 1..n : events[i].code # c) => rule[c].status = "none"
  BY <1>1, EventFields DEF EventsInv, Told, Chained, Complete
<1>3. ASSUME NEW c \in Codes
      PROVE  c \in LeftIn(status) <=> rule[c].status = status
  <2>1. ASSUME NEW i \in EventsFor(c), \A j \in EventsFor(c) : j <= i
        PROVE  events[i].new = rule[c].status
    <3>1. i \in 1..n /\ events[i].code = c
      BY <1>1, <2>1 DEF EventsFor
    <3>2. IsLast(events, i)
      <4> SUFFICES ASSUME NEW k \in 1..n, i < k, events[k].code = events[i].code PROVE FALSE
        BY <1>1 DEF IsLast
      <4>1. k \in EventsFor(c)
        BY <1>1, <3>1 DEF EventsFor
      <4>2. k <= i
        BY <2>1, <4>1
      <4>3. QED
        BY <3>1, <4>2
    <3>3. QED
      BY <1>2, <3>1, <3>2
  <2>2. c \in LeftIn(status) => rule[c].status = status
    BY <2>1 DEF LeftIn
  <2>3. ASSUME rule[c].status = status
        PROVE  c \in LeftIn(status)
    <3>1. PICK k \in 1..n : events[k].code = c
      BY <1>2, <2>3
    <3>2. EventsFor(c) \subseteq 1..n /\ k \in EventsFor(c)
      BY <1>1, <3>1 DEF EventsFor
    <3>3. PICK i \in EventsFor(c) : \A j \in EventsFor(c) : j <= i
      BY <3>2, GreatestExists
    <3>4. events[i].new = status
      BY <2>1, <2>3, <3>3
    <3>5. QED
      BY <3>3, <3>4 DEF LeftIn
  <2>4. QED
    BY <2>2, <2>3
<1>4. LeftIn(status) = {c \in Codes : rule[c].status = status}
  BY <1>3 DEF LeftIn
<1>5. Dtcs({status}) = {i \in DOMAIN Catalog : rule[Catalog[i]].status = status}
  BY DEF Dtcs
<1> DEFINE P == Dtcs({status})
           f == [i \in P |-> Catalog[i]]
<1>6. f \in Bijection(P, LeftIn(status))
  <2>1. \A i \in P : i \in DOMAIN Catalog /\ Catalog[i] \in LeftIn(status)
    BY <1>4, <1>5 DEF Codes
  <2>2. \A i, j \in P : Catalog[i] = Catalog[j] => i = j
    BY <2>1, CatalogAssumption
  <2>3. \A c \in LeftIn(status) : \E i \in P : Catalog[i] = c
    BY <1>4, <1>5 DEF Codes
  <2> HIDE DEF P
  <2>4. f \in [P -> LeftIn(status)] /\ \A i \in P : f[i] = Catalog[i]
    BY <2>1
  <2>5. QED
    BY <2>2, <2>3, <2>4, Fun_IsBij
<1>7. IsFiniteSet(P)
  <2>1. DOMAIN Catalog = 1..Len(Catalog) /\ Len(Catalog) \in Int /\ 1 \in Int
    BY CatalogAssumption
  <2>2. P \subseteq DOMAIN Catalog
    BY <1>5
  <2>3. QED
    BY <2>1, <2>2, FS_Interval, FS_Subset
<1>8. QED
  BY <1>6, <1>7, FS_Bijection, Fun_ExistsBij

\* EventsExplainStatus: the events and the summary the routes return explain the
\* present statuses, for any catalog, capacity and limit.
THEOREM EventsExplainStatusHolds == MonitoredSpec => []EventsExplainStatus
<1>1. MonitoredType /\ EventsInv => EventsExplainStatus
  <2> SUFFICES ASSUME MonitoredType, EventsInv PROVE EventsExplainStatus
    OBVIOUS
  <2>1. PICK n \in Nat : n = Len(events) /\ DOMAIN events = 1..n
    BY DEF EventsInv
  <2>2. \A i, j \in 1..n : i < j => events[i].at <= events[j].at
    BY <2>1 DEF EventsInv, Told, TimeOrdered
  <2>3. ASSUME NEW c \in Codes, NEW i \in EventsFor(c)
        PROVE  IF \E j \in EventsFor(c) : j > i
               THEN \E j \in EventsFor(c) :
                      /\ j > i /\ \A k \in EventsFor(c) : k > i => j <= k
                      /\ events[j].prior = events[i].new
               ELSE events[i].new = rule[c].status
    <3>1. /\ i \in 1..n /\ events[i].code = c
          /\ EventsFor(c) \subseteq 1..n /\ \A k \in 1..n : k \in EventsFor(c) <=> events[k].code = c
      BY <2>1 DEF EventsFor
    <3>2. /\ IsLast(events, i) => events[i].new = rule[c].status
          /\ \A j \in 1..n : IsNext(events, i, j) => events[j].prior = events[i].new
      BY <2>1, <3>1 DEF EventsInv, Told, Chained
    <3>3. CASE \E j \in EventsFor(c) : j > i
      <4>1. PICK S : S = {j \in EventsFor(c) : j > i}
        OBVIOUS
      <4>2. S \subseteq 1..n /\ S # {}
        BY <3>1, <3>3, <4>1
      <4>3. PICK j \in S : \A k \in S : j <= k
        BY <4>2, LeastExists
      <4>4. j \in 1..n /\ j > i /\ events[j].code = c
            /\ \A k \in EventsFor(c) : k > i => j <= k
        BY <3>1, <4>1, <4>2, <4>3
      <4>5. \A k \in 1..n : i < k /\ k < j => events[k].code # c
        <5> SUFFICES ASSUME NEW k \in 1..n, i < k, k < j, events[k].code = c PROVE FALSE
          OBVIOUS
        <5>1. j <= k
          BY <3>1, <4>4
        <5>2. QED
          BY <4>4, <5>1
      <4>6. IsNext(events, i, j)
        BY <2>1, <3>1, <4>4, <4>5 DEF IsNext
      <4>7. QED
        BY <3>1, <3>2, <3>3, <4>4, <4>6
    <3>4. CASE ~\E j \in EventsFor(c) : j > i
      <4>1. IsLast(events, i)
        <5> SUFFICES ASSUME NEW k \in 1..n, i < k PROVE events[k].code # events[i].code
          BY <2>1 DEF IsLast
        <5>1. k \notin EventsFor(c)
          BY <3>4, <3>1
        <5>2. QED
          BY <3>1, <5>1
      <4>2. QED
        BY <3>2, <3>4, <4>1
    <3>5. QED
      BY <3>3, <3>4
  <2>4. Summary.total = nextEvent /\ Summary.retained = n
    BY <2>1 DEF Summary
  <2>5. ASSUME NEW c \in Codes, nextEvent = n
        PROVE  /\ EventsFor(c) = {} => rule[c].status = "none"
               /\ Cardinality({i \in EventsFor(c) : events[i].type = "dtc_confirmed"})
                    = rule[c].occurrences
    <3>1. Complete(events, rule)
      BY <2>1, <2>5 DEF EventsInv, Told
    <3>2. {i \in EventsFor(c) : events[i].type = "dtc_confirmed"} = Confirming(events, c)
      BY <2>1 DEF EventsFor, Confirming
    <3>3. EventsFor(c) = {} => \A i \in 1..n : events[i].code # c
      BY <2>1 DEF EventsFor
    <3>4. QED
      BY <2>1, <3>1, <3>2, <3>3 DEF Complete
  <2>6. ASSUME nextEvent = n, NEW status \in DOMAIN Summary.count
        PROVE  Summary.count[status] = Cardinality(LeftIn(status))
    <3>1. status \in {"pending", "active", "historical", "cleared"}
      BY <2>6 DEF Summary
    <3>2. Summary.count[status] = Cardinality(Dtcs({status}))
      BY <3>1 DEF Summary
    <3>3. QED
      BY <2>1, <2>6, <3>1, <3>2, CountedByEvents
  <2>7. \A limit \in 1..(EventCapacity + 1) : limit \in Nat \ {0}
    BY BoundAssumption
  <2>8. ASSUME NEW limit \in 1..(EventCapacity + 1)
        PROVE  LET listed == EventsUpTo(limit)
               IN  /\ \A i \in DOMAIN listed :
                        listed[i].sequence = Summary.latest - Len(listed) + i
                   /\ limit >= Summary.retained => Len(listed) = Summary.retained
    BY <2>7, ListedByNumber
  <2>9. QED
    BY <2>1, <2>2, <2>3, <2>4, <2>5, <2>6, <2>8 DEF EventsExplainStatus
<1>2. QED
  BY <1>1, EventsTold, EvidenceKept, PTL
=============================================================================
