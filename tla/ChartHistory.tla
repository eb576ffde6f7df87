---------------------------- MODULE ChartHistory ----------------------------
(***************************************************************************)
(* The chart buffer of one numeric signal (appendChartPoint and            *)
(* historiesFromSnapshot of frontend/lib/telemetry/state.ts): points of    *)
(* simulation time, fed by samples that arrive at one of Periods (from a   *)
(* fifth of the interval to twice it), reseeded by every snapshot.         *)
(***************************************************************************)
EXTENDS Integers, Sequences, SequencesExt

CONSTANTS
  Interval,   \* CHART_SAMPLE_INTERVAL_MICROSECONDS
  Capacity,   \* CHART_HISTORY_CAPACITY
  Periods,    \* times between two samples of the signal
  MaxTime     \* bound: simulation time

VARIABLES
  history,   \* the times of the chart's points
  samples    \* history variable: the times of all samples since the snapshot

vars == <<history, samples>>

\* historiesFromSnapshot: no point, or the latest sample.
Init == history = <<>> /\ samples = <<>>

Newest(points) == SubSeq(points, Len(points) - Capacity + 1, Len(points))

Trim(points) == IF Len(points) > Capacity THEN Newest(points) ELSE points

\* appendChartPoint: a sample less than the interval after the last point
\* replaces that point.
AppendChartPoint(points, time) ==
  IF points = <<>> THEN <<time>>
  ELSE Trim(IF time - Last(points) >= Interval
            THEN Append(points, time)
            ELSE Append(Front(points), time))

Sample(time) ==
  /\ history' = AppendChartPoint(history, time)
  /\ samples' = Append(samples, time)

Update ==
  \/ samples = <<>> /\ Sample(0)
  \/ /\ samples # <<>>
     /\ \E p \in Periods : Last(samples) + p <= MaxTime /\ Sample(Last(samples) + p)

\* A new snapshot seeds the chart with its sample.
Snapshot ==
  /\ samples # <<>>
  /\ history' = <<Last(samples)>>
  /\ samples' = <<Last(samples)>>

Next == Update \/ Snapshot
Spec == Init /\ [][Next]_vars

TypeOK ==
  /\ samples \in Seq(0 .. MaxTime) /\ history \in Seq(0 .. MaxTime)
  /\ Len(history) <= Capacity

\* docs/FRONTEND.md: the chart samples at the interval's spacing.  So, as long
\* as nothing has been trimmed, whatever was sampled within the interval of
\* some point or between two points is at most an interval from a point.
SamplesRepresented ==
  Len(history) < Capacity =>
    \A j \in DOMAIN samples : \E i \in DOMAIN history :
      history[i] - samples[j] \in -Interval .. Interval
=============================================================================
