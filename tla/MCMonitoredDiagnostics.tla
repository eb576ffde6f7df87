------------------------ MODULE MCMonitoredDiagnostics ------------------------
(* Two rules sharing the event deque: one that takes time to confirm and to  *)
(* recover, one of zero durations; for each, values at and beside each of    *)
(* its thresholds, a context that is false, and inputs that are not fresh.   *)
EXTENDS MonitoredDiagnostics, TLC

TwoRules == <<"TUN_DME_004", "TUN_DSC_001">>
TwoConfirmations == ("TUN_DME_004" :> 1) @@ ("TUN_DSC_001" :> 0)
TwoRecoveries == ("TUN_DME_004" :> 1) @@ ("TUN_DSC_001" :> 0)

Level(signal, v, running, fresh) ==
  [fresh |-> fresh, running |-> running, value |-> [s \in Numeric |-> IF s = signal THEN v ELSE 0]]

BoundarySnapshots(c) ==
  IF c = "TUN_DME_004"
  THEN {Level("ManifoldPressure", v, TRUE, Signals) : v \in {99, 100, 150, 2500, 2501}}
       \cup {Level("ManifoldPressure", 99, FALSE, Signals),
             Level("ManifoldPressure", 99, TRUE, {"ManifoldPressure"})}
  ELSE {Level("RearLeft", v, TRUE, Signals) : v \in {-15, 30, -31}}
       \cup {Level("RearLeft", 0, TRUE, Wheels)}
=============================================================================
