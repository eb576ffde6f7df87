------------------------------- MODULE CanFeed -------------------------------
(***************************************************************************)
(* A client of /ws/can: the handler can_websocket of                        *)
(* backend/src/tuneros/api/app.py and its subscription to the pipeline.     *)
(*                                                                         *)
(* The events do not name their source.  The handler puts the name on when   *)
(* it serializes them, from what source_status() says at that moment, which  *)
(* may be after the source has ended and another has been started.          *)
(*                                                                         *)
(* Delivery is coarse here (SubscriberStream has its steps): queue holds     *)
(* what has been scheduled and not been received.  Publication holds the     *)
(* service lock, which the reads of the handler take too; receive() and      *)
(* what follows up to the send run on the loop without a pause, so that the  *)
(* callback of a disconnection cannot come between them.                    *)
(***************************************************************************)
EXTENDS FramePipeline

CONSTANTS
  QueueCapacity,   \* can_subscriber_queue_capacity
  MaxSources       \* bound: replays started

ASSUME FeedAssumption == QueueCapacity \in Nat \ {0} /\ MaxSources \in Nat

VARIABLES
  source,       \* the source the service names: 0 is live, n the n-th replay
  subscribed,   \* the subscription is registered, and active
  slow,         \* found too slow: "no", "posted" (to the loop) or "told"
  queue,        \* items [kind, source] on their way, oldest first
  handler,      \* "absent", "receiving", "labelling" or "closing"
  hand          \* the item the handler has received

subscription == <<subscribed, slow, queue>>
feed == <<source, subscription, handler, hand>>
feedVars == <<allVars, feed>>

Item(kind) == [kind |-> kind, source |-> source]

\* serialize_can_update and serialize_can_source_state: the event under the name
\* that source_status() gives at that moment.
Labelled(item) == [kind |-> item.kind, source |-> source]

\* subscribe_can has found a source that is told to have ended at once.
AlreadyEnded == stage \in {"completed", "failed"}

FeedInit ==
  /\ PipelineInit
  /\ source = 0
  /\ subscribed = FALSE /\ slow = "no" /\ queue = <<>>
  /\ handler = "absent" /\ hand = Item("none")

\* TelemetryBroadcaster.publish to the one subscription: a full one is
\* removed, and its queue emptied later, on the loop.
Publish(kind) ==
  LET room == Len(queue) < QueueCapacity
  IN  /\ queue' = IF subscribed /\ room THEN Append(queue, Item(kind)) ELSE queue
      /\ subscribed' = (subscribed /\ room)
      /\ slow' = IF subscribed /\ ~room THEN "posted" ELSE slow
      /\ UNCHANGED <<source, handler, hand>>

\* What the worker and stop() do, with what each publishes to the CAN clients.
Work ==
  \/ \E id \in Messages \cup {Foreign}, t \in Time, dlc \in Lengths :
       Observe(id, t, dlc) /\ Publish("frame")
  \/ Accept /\ UNCHANGED feed
  \/ (Refuse \/ Complete \/ Stop) /\ Publish("end")

\* Mutant: clients of the previous source may still be there.
StartReplayOver ==
  /\ source < MaxSources
  /\ Restart
  /\ source' = source + 1
  /\ UNCHANGED <<subscription, handler, hand>>

\* start_replay: refused while a subscriber is registered.
StartReplay ==
  /\ source < MaxSources /\ ~subscribed
  /\ Restart
  /\ source' = source + 1
  /\ UNCHANGED <<subscription, handler, hand>>

\* subscribe_can and the initial events: snapshot, state and source are read in
\* one section.
SubscribeCan ==
  /\ handler = "absent"
  /\ subscribed' = TRUE /\ slow' = "no" /\ queue' = <<>>
  /\ handler' = IF AlreadyEnded THEN "closing" ELSE "receiving"
  /\ UNCHANGED <<allVars, source, hand>>

\* _deliver_closed, a callback on the loop.
DeliverClosed ==
  /\ slow = "posted" /\ handler # "labelling"
  /\ slow' = "told"
  /\ queue' = <<Item("closed")>>
  /\ UNCHANGED <<allVars, source, subscribed, handler, hand>>

Receive ==
  /\ handler = "receiving" /\ queue # <<>>
  /\ hand' = Head(queue)
  /\ queue' = Tail(queue)
  /\ handler' = IF Head(queue).kind = "closed" THEN "closing" ELSE "labelling"
  /\ UNCHANGED <<allVars, source, subscribed, slow>>

\* Labelled(hand) is sent, unless the client has gone.
Send ==
  /\ handler = "labelling"
  /\ handler' \in {IF hand.kind = "end" THEN "closing" ELSE "receiving", "closing"}
  /\ UNCHANGED <<allVars, source, subscription, hand>>

\* The close of the WebSocket, and subscription.close() in the finally clause.
Close ==
  /\ handler = "closing"
  /\ handler' = "absent"
  /\ subscribed' = FALSE /\ queue' = <<>> /\ slow' = "no" /\ hand' = Item("none")
  /\ UNCHANGED <<allVars, source>>

FeedNext ==
  \/ Work \/ StartReplay
  \/ SubscribeCan \/ DeliverClosed \/ Receive \/ Send \/ Close

FeedSpec == FeedInit /\ [][FeedNext]_feedVars

-----------------------------------------------------------------------------
\* Properties.

\* Every CAN event is sent under the name of the source that produced it,
\* however long it has waited: a replay starts only when nobody is left who has
\* events of the previous source.  The one exception is a client that has been
\* found too slow and whose handler goes on with its queue until the loop has
\* emptied it: it no longer counts as a subscriber.
LabelledBySource ==
  handler = "labelling" /\ slow = "no" => Labelled(hand) = hand
=============================================================================
