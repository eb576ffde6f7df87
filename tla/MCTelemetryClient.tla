-------------------------- MODULE MCTelemetryClient --------------------------
EXTENDS TelemetryClient

\* The fast message in every frame but the second.
MCMessageOf == [k \in 0 .. MaxFrames - 1 |-> IF k = 1 THEN "slow" ELSE "fast"]
=============================================================================
