------------------------------ MODULE MCCanFeed ------------------------------
(* CanFeed with one message of two signals and one of a single signal, of   *)
(* different periods.                                                       *)
EXTENDS CanFeed, TLC

CONSTANTS Dme, Dsc, rpm, coolant, speed

MCSignals == (Dme :> {rpm, coolant}) @@ (Dsc :> {speed})
MCSize == (Dme :> 8) @@ (Dsc :> 2)
MCPeriod == (Dme :> 1) @@ (Dsc :> 2)
=============================================================================
