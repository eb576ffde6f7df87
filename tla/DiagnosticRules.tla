--------------------------- MODULE DiagnosticRules ---------------------------
(***************************************************************************)
(* The condition classes of backend/src/tuneros/diagnostics/rules.py and    *)
(* the five rules that create_default_diagnostic_catalog builds of them     *)
(* (catalog.py).  Physical values are integers in tenths of the signal's    *)
(* unit: 115.0 degC is 1150.                                               *)
(***************************************************************************)
EXTENDS Integers

Abs(x) == IF x < 0 THEN -x ELSE x

\* A snapshot gives the fresh signals and the latest value of each signal.
Wheels == {"FrontLeft", "FrontRight", "RearLeft", "RearRight"}
Numeric == Wheels \cup {"Coolant", "Oil", "Battery", "ManifoldPressure", "VehicleSpeed"}
Signals == Numeric \cup {"EngineRunning"}
Snapshots == [fresh : SUBSET Signals, value : [Numeric -> Int], running : BOOLEAN]

-----------------------------------------------------------------------------
\* rules.py: evaluate(snapshot, active=...) of each class, true for VIOLATION;
\* status is that of the DTC, and "active" stands for active=True.

HighThreshold(r, snapshot, status) ==
  snapshot.value[r.signal] > (IF status = "active" THEN r.recovery ELSE r.activation)

LowWhileTrue(r, snapshot, status) ==
  /\ snapshot.running
  /\ snapshot.value[r.signal] < (IF status = "active" THEN r.recovery ELSE r.activation)

\* Mutant: the recovery range is not used.
OutsideRangeOneRange(r, snapshot, status) ==
  /\ snapshot.running
  /\ \/ snapshot.value[r.signal] < r.activationMin
     \/ snapshot.value[r.signal] > r.activationMax

OutsideRangeWhileTrue(r, snapshot, status) ==
  /\ snapshot.running
  /\ \/ snapshot.value[r.signal] < (IF status = "active" THEN r.recoveryMin ELSE r.activationMin)
     \/ snapshot.value[r.signal] > (IF status = "active" THEN r.recoveryMax ELSE r.activationMax)

\* The maximum over the compared signals exceeds the threshold.
SignalDisagreement(r, snapshot, status) ==
  \E s \in r.compared :
    Abs(snapshot.value[s] - snapshot.value[r.reference])
      > (IF status = "active" THEN r.recovery ELSE r.activation)

Violates(r, snapshot, status) ==
  CASE r.kind = "high" -> HighThreshold(r, snapshot, status)
    [] r.kind = "low" -> LowWhileTrue(r, snapshot, status)
    [] r.kind = "outside" -> OutsideRangeWhileTrue(r, snapshot, status)
    [] r.kind = "disagreement" -> SignalDisagreement(r, snapshot, status)

-----------------------------------------------------------------------------
\* catalog.py: the rules and the signals each requires.

Rule(c) ==
  CASE c = "TUN_DME_001" ->
         [kind |-> "high", signal |-> "Coolant", activation |-> 1150, recovery |-> 1100]
    [] c = "TUN_DME_002" ->
         [kind |-> "high", signal |-> "Oil", activation |-> 1350, recovery |-> 1300]
    [] c = "TUN_DME_003" ->
         [kind |-> "low", signal |-> "Battery", activation |-> 125, recovery |-> 130]
    [] c = "TUN_DME_004" ->
         [kind |-> "outside", signal |-> "ManifoldPressure",
          activationMin |-> 100, activationMax |-> 2500,
          recoveryMin |-> 150, recoveryMax |-> 2400]
    [] c = "TUN_DSC_001" ->
         [kind |-> "disagreement", compared |-> Wheels, reference |-> "VehicleSpeed",
          activation |-> 30, recovery |-> 15]

DefaultCodes == {"TUN_DME_001", "TUN_DME_002", "TUN_DME_003", "TUN_DME_004", "TUN_DSC_001"}

RequiredSignals(c) ==
  CASE c = "TUN_DME_001" -> {"Coolant"}
    [] c = "TUN_DME_002" -> {"Oil"}
    [] c = "TUN_DME_003" -> {"Battery", "EngineRunning"}
    [] c = "TUN_DME_004" -> {"ManifoldPressure", "EngineRunning"}
    [] c = "TUN_DSC_001" -> Wheels \cup {"VehicleSpeed"}

\* engine.py: _inputs_are_fresh.
InputsAreFresh(c, snapshot) == RequiredSignals(c) \subseteq snapshot.fresh

\* Where a rule's signals stand, whatever the state of its DTC: the reading
\* that DiagnosticEngine evaluates.
Reading(c, snapshot) ==
  CASE ~InputsAreFresh(c, snapshot) -> "unavailable"
    [] InputsAreFresh(c, snapshot) /\ Violates(Rule(c), snapshot, "none") -> "fault"
    [] InputsAreFresh(c, snapshot) /\ ~Violates(Rule(c), snapshot, "none") ->
         IF Violates(Rule(c), snapshot, "active") THEN "band" ELSE "clear"

-----------------------------------------------------------------------------
\* The catalog's activation_description and recovery_description of each rule,
\* which the API serves and the diagnostics page shows.

ActivationDescribed(c, s) ==
  CASE c = "TUN_DME_001" -> s.value["Coolant"] > 1150
    [] c = "TUN_DME_002" -> s.value["Oil"] > 1350
    [] c = "TUN_DME_003" -> s.running /\ s.value["Battery"] < 125
    [] c = "TUN_DME_004" ->
         s.running /\ (s.value["ManifoldPressure"] < 100 \/ s.value["ManifoldPressure"] > 2500)
    [] c = "TUN_DSC_001" ->
         \E w \in Wheels : Abs(s.value[w] - s.value["VehicleSpeed"]) > 30

RecoveryDescribed(c, s) ==
  CASE c = "TUN_DME_001" -> s.value["Coolant"] <= 1100
    [] c = "TUN_DME_002" -> s.value["Oil"] <= 1300
    [] c = "TUN_DME_003" -> ~s.running \/ s.value["Battery"] >= 130
    [] c = "TUN_DME_004" ->
         ~s.running \/ (150 <= s.value["ManifoldPressure"] /\ s.value["ManifoldPressure"] <= 2400)
    [] c = "TUN_DSC_001" ->
         \A w \in Wheels : Abs(s.value[w] - s.value["VehicleSpeed"]) <= 15
=============================================================================
