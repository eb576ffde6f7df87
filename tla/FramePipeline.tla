---------------------------- MODULE FramePipeline ----------------------------
(***************************************************************************)
(* What a worker of backend/src/tuneros/telemetry/service.py does with      *)
(* every raw frame: _ingest_can_explorer and then decode and               *)
(* ingest_decoded, two sections under the service lock with a gap between   *)
(* them in which readers see the explorer one frame ahead.                 *)
(*                                                                         *)
(* This composes CanExplorer and TelemetryEngine.  A decoded frame carries   *)
(* all signals of its message.  A frame whose ID the DBC does not know,      *)
(* whose payload has not the message's length or that the telemetry engine  *)
(* refuses ends the source as FAILED.                                      *)
(***************************************************************************)
EXTENDS TelemetryEngine

CONSTANTS
  ExplorerCapacity,   \* can_explorer_capacity
  Size,               \* Size[m]: payload length of message m
  Lengths             \* payload lengths that frames carry

ASSUME PipelineAssumption ==
  /\ ExplorerCapacity \in Nat \ {0}
  /\ Size \in [Messages -> Lengths]

VARIABLES
  window, perId, observed, seen,  \* the variables of the explorer
  stage   \* "reading", "decoding" (the last seen frame) or how the source ended

explorer == <<window, perId, observed, seen>>
allVars == <<vars, explorer, stage>>

Explorer == INSTANCE CanExplorer WITH
  frames <- window, messages <- perId, next <- observed, log <- seen,
  Ids <- Messages \cup {Foreign}, KnownIds <- Messages, Capacity <- ExplorerCapacity

PipelineInit == Init /\ Explorer!Init /\ stage = "reading"

\* _ingest_can_explorer of the next raw frame.
Observe(id, t, dlc) ==
  /\ stage = "reading"
  /\ Explorer!Ingest(id, t, dlc)
  /\ stage' = "decoding"
  /\ UNCHANGED vars

\* The frame just observed, whose decoded form ingest_decoded takes.
Decoded ==
  /\ Last(seen).status = "decoded"
  /\ Accepts(Last(seen).id, Signals[Last(seen).id], Last(seen).at)

Accept ==
  /\ stage = "decoding" /\ Decoded
  /\ Ingest(Last(seen).id, Signals[Last(seen).id], Last(seen).at)
  /\ stage' = "reading"
  /\ UNCHANGED explorer

\* Mutant: a frame that is refused is skipped.
RefuseQuietly ==
  /\ stage = "decoding" /\ ~Decoded
  /\ stage' = "reading"
  /\ UNCHANGED <<vars, explorer>>

\* decode or ingest_decoded raises, before anything has changed.
Refuse ==
  /\ stage = "decoding" /\ ~Decoded
  /\ stage' = "failed"
  /\ UNCHANGED <<vars, explorer>>

\* The source has no more frames.
Complete ==
  /\ stage = "reading"
  /\ stage' = "completed"
  /\ UNCHANGED <<vars, explorer>>

\* stop(), which joins the worker first: a frame it has begun is finished, and a
\* refused one is not reported any more.
Stop ==
  /\ stage # "stopped" /\ (stage = "decoding" => ~Decoded)
  /\ stage' = "stopped"
  /\ UNCHANGED <<vars, explorer>>

\* start_replay, once the previous source has ended.
Restart ==
  /\ stage \in {"completed", "failed", "stopped"}
  /\ Reset /\ Explorer!Reset
  /\ stage' = "reading"

PipelineNext ==
  \/ \E id \in Messages \cup {Foreign}, t \in Time, dlc \in Lengths : Observe(id, t, dlc)
  \/ Accept \/ Refuse \/ Complete \/ Stop \/ Restart

PipelineSpec == PipelineInit /\ [][PipelineNext]_allVars

-----------------------------------------------------------------------------
\* Properties.

\* In every state the service brings the explorer to, whatever a route asks it
\* for comes from the newest part of what it has observed, filtered before it is
\* cut to the limit, and the statistics that CanExplorer.ingest keeps up to date
\* through every eviction are what a recount would give.
ExplorerExact == Explorer!QueriesOfLog /\ Explorer!StatisticsAgree

\* The explorer has one frame more than the engine: it is still to be decoded
\* or was refused.
Ahead == seen # <<>> /\ (stage = "decoding" \/ ~Decoded)

\* The CAN page and the telemetry page tell one story: the telemetry engine has
\* taken in the very frames the explorer has, in the same order and under the
\* same sequence numbers, but for a last one that is still to be decoded or has
\* ended the source; its counts per ID are the explorer's, and the explorer's
\* window ends with the frame that failed.  A source that reads on or has
\* completed has left none behind.
PagesAgree ==
  /\ Len(seen) = Len(log) + (IF Ahead THEN 1 ELSE 0)
  /\ Ahead => stage \notin {"reading", "completed"} /\ Last(window) = Last(seen)
  /\ \A i \in DOMAIN log : log[i].message = seen[i].id /\ log[i].at = seen[i].at
  /\ \A m \in Messages :
       byId[m] = perId[m].total - (IF Ahead /\ Last(seen).id = m THEN 1 ELSE 0)
=============================================================================
