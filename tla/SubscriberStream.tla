--------------------------- MODULE SubscriberStream ---------------------------
(***************************************************************************)
(* TelemetryBroadcaster, its TelemetrySubscriptions and the WebSocket       *)
(* handlers that consume them                                              *)
(* (backend/src/tuneros/telemetry/service.py, backend/src/tuneros/api/app.py). *)
(*                                                                         *)
(* Three kinds of actor interleave:                                        *)
(*   - the publisher: a thread that holds the service lock, appends an     *)
(*     event to the stream and hands it to each subscription in turn;      *)
(*   - the event loop: runs the callbacks the publisher posts with         *)
(*     call_soon_threadsafe (in order, per subscription);                  *)
(*   - one handler coroutine per connection: subscribes, sends the         *)
(*     snapshot, then relays items until a terminal state or a closure.    *)
(* The events are numbered by their position in the stream; the position   *)
(* is all the properties need of them, with the state a terminal one names. *)
(***************************************************************************)
EXTENDS Integers, Sequences, FiniteSets

CONSTANTS
  Clients,      \* connections; each subscribes once
  Responsive,   \* the connections whose peer keeps reading
  Capacity,     \* subscriber_queue_capacity
  MaxEvents     \* bound: events published

ASSUME ClientsAssumption == IsFiniteSet(Clients) /\ Responsive \subseteq Clients
ASSUME CapacityAssumption == Capacity \in Nat \ {0} /\ MaxEvents \in Nat

Kinds == {"update", "completed", "stopped"}  \* "completed" stands for FAILED too
Closed == 0                                  \* the SubscriberClosed item
None == -1
Phases == {"absent", "opening", "waiting", "accounting", "sending", "closing", "done"}

VARIABLES
  log,            \* the kinds of all events published, oldest first
  subscriptions,  \* the broadcaster's _subscriptions
  targets,        \* publish: subscriptions still to be handed the event
  posting,        \* _schedule: clients counted and not yet posted (at most one)
  overflowing,    \* _schedule: clients found full, not yet disconnected
  active,         \* active[c]: _active
  outstanding,    \* outstanding[c]: _outstanding_deliveries
  inflight,       \* inflight[c]: callbacks posted to the event loop
  queue,          \* queue[c]: the asyncio.Queue
  loopOpen,       \* the event loop accepts callbacks
  phase,          \* phase[c]: where the handler of c is
  item,           \* item[c]: what the handler has taken from its queue
  base,           \* base[c]: the stream position of the snapshot of c
  found,          \* found[c]: the service state read with the snapshot
  sent            \* sent[c]: the items sent on the WebSocket, in order

publisher == <<targets, posting, overflowing>>
handler == <<phase, item, base, found, sent>>
vars == <<log, subscriptions, publisher, active, outstanding, inflight, queue,
          loopOpen, handler>>

Published == Len(log)

\* The service state that the published transitions have led to.
ServiceState ==
  IF log # <<>> /\ log[Len(log)] # "update" THEN log[Len(log)] ELSE "running"

Init ==
  /\ log = <<>>
  /\ subscriptions = {} /\ targets = {} /\ posting = {} /\ overflowing = {}
  /\ active = [c \in Clients |-> FALSE]
  /\ outstanding = [c \in Clients |-> 0]
  /\ inflight = [c \in Clients |-> <<>>]
  /\ queue = [c \in Clients |-> <<>>]
  /\ loopOpen = TRUE
  /\ phase = [c \in Clients |-> "absent"]
  /\ item = [c \in Clients |-> None]
  /\ base = [c \in Clients |-> 0]
  /\ found = [c \in Clients |-> "running"]
  /\ sent = [c \in Clients |-> <<>>]

PublisherIdle == targets = {} /\ posting = {} /\ overflowing = {}

\* The loop is one thread: receive() runs from the queue to the end of its
\* accounting without yielding to another callback or coroutine.
LoopReady == \A c \in Clients : phase[c] # "accounting"

-----------------------------------------------------------------------------
\* The publisher.

\* ingest_decoded or _transition_locked: the engine has taken the event in,
\* and publish copies the subscription set under the broadcaster lock.  A
\* source ends once; stop() may follow a completed source.
Publish(kind) ==
  /\ PublisherIdle
  /\ Published < MaxEvents
  /\ kind = "update" => ServiceState = "running"
  /\ kind = "completed" => ServiceState = "running"
  /\ kind = "stopped" => ServiceState # "stopped"
  /\ log' = Append(log, kind)
  /\ targets' = subscriptions
  /\ UNCHANGED <<subscriptions, posting, overflowing, active, outstanding,
                 inflight, queue, loopOpen, handler>>

\* Mutant: one event too many is accepted.
ScheduleOffByOne(c) ==
  /\ posting = {} /\ overflowing = {}
  /\ c \in targets
  /\ targets' = targets \ {c}
  /\ \/ /\ ~active[c]
        /\ UNCHANGED <<posting, overflowing, outstanding>>
     \/ /\ active[c] /\ outstanding[c] > Capacity
        /\ overflowing' = {c}
        /\ UNCHANGED <<posting, outstanding>>
     \/ /\ active[c] /\ outstanding[c] <= Capacity
        /\ outstanding' = [outstanding EXCEPT ![c] = @ + 1]
        /\ posting' = {c}
        /\ UNCHANGED overflowing
  /\ UNCHANGED <<log, subscriptions, active, inflight, queue, loopOpen, handler>>

\* Mutant: an event is skipped while another is on its way.
ScheduleConflating(c) ==
  /\ posting = {} /\ overflowing = {}
  /\ c \in targets
  /\ targets' = targets \ {c}
  /\ \/ /\ ~active[c] \/ outstanding[c] > 0
        /\ UNCHANGED <<posting, overflowing, outstanding>>
     \/ /\ active[c] /\ outstanding[c] = 0
        /\ outstanding' = [outstanding EXCEPT ![c] = @ + 1]
        /\ posting' = {c}
        /\ UNCHANGED overflowing
  /\ UNCHANGED <<log, subscriptions, active, inflight, queue, loopOpen, handler>>

\* Mutant: the publisher waits for room.
ScheduleBlocking(c) ==
  /\ posting = {} /\ overflowing = {}
  /\ c \in targets
  /\ targets' = targets \ {c}
  /\ \/ /\ ~active[c]
        /\ UNCHANGED <<posting, overflowing, outstanding>>
     \/ /\ active[c] /\ outstanding[c] < Capacity
        /\ outstanding' = [outstanding EXCEPT ![c] = @ + 1]
        /\ posting' = {c}
        /\ UNCHANGED overflowing
  /\ UNCHANGED <<log, subscriptions, active, inflight, queue, loopOpen, handler>>

\* _schedule under the subscription's state lock.
Schedule(c) ==
  /\ posting = {} /\ overflowing = {}
  /\ c \in targets
  /\ targets' = targets \ {c}
  /\ \/ /\ ~active[c]
        /\ UNCHANGED <<posting, overflowing, outstanding>>
     \/ /\ active[c] /\ outstanding[c] >= Capacity
        /\ overflowing' = {c}
        /\ UNCHANGED <<posting, outstanding>>
     \/ /\ active[c] /\ outstanding[c] < Capacity
        /\ outstanding' = [outstanding EXCEPT ![c] = @ + 1]
        /\ posting' = {c}
        /\ UNCHANGED overflowing
  /\ UNCHANGED <<log, subscriptions, active, inflight, queue, loopOpen, handler>>

\* _deactivate: idempotent, and posts a closure when it has a reason.
Deactivate(c, closing) ==
  /\ active' = [active EXCEPT ![c] = FALSE]
  /\ outstanding' = IF active[c] THEN [outstanding EXCEPT ![c] = 0] ELSE outstanding
  /\ inflight' = IF active[c] /\ closing /\ loopOpen
                 THEN [inflight EXCEPT ![c] = Append(@, Closed)] ELSE inflight

\* Mutant: the error of a closed loop is swallowed.
PostSwallowing(c) ==
  /\ c \in posting
  /\ posting' = {}
  /\ inflight' = IF loopOpen THEN [inflight EXCEPT ![c] = Append(@, Published)] ELSE inflight
  /\ UNCHANGED <<log, subscriptions, targets, overflowing, active, outstanding,
                 queue, loopOpen, handler>>

\* _schedule after the lock: call_soon_threadsafe, or unsubscribe when the
\* loop is closed.
Post(c) ==
  /\ c \in posting
  /\ posting' = {}
  /\ IF loopOpen
     THEN /\ inflight' = [inflight EXCEPT ![c] = Append(@, Published)]
          /\ UNCHANGED <<subscriptions, active, outstanding>>
     ELSE /\ subscriptions' = subscriptions \ {c}
          /\ Deactivate(c, FALSE)
  /\ UNCHANGED <<log, targets, overflowing, queue, loopOpen, handler>>

\* disconnect_slow_subscriber.
DisconnectSlow(c) ==
  /\ c \in overflowing
  /\ overflowing' = {}
  /\ IF c \in subscriptions
     THEN subscriptions' = subscriptions \ {c} /\ Deactivate(c, TRUE)
     ELSE UNCHANGED <<subscriptions, active, outstanding, inflight>>
  /\ UNCHANGED <<log, targets, posting, queue, loopOpen, handler>>

-----------------------------------------------------------------------------
\* The event loop.

\* _deliver or _deliver_closed, whichever was posted first.  put_nowait of an
\* event raises QueueFull, and changes nothing, when the queue is full.
RunCallback(c) ==
  /\ loopOpen /\ LoopReady
  /\ inflight[c] # <<>>
  /\ inflight' = [inflight EXCEPT ![c] = Tail(@)]
  /\ queue' = [queue EXCEPT ![c] =
       IF Head(inflight[c]) = Closed THEN <<Closed>>
       ELSE IF active[c] /\ Len(@) < Capacity THEN Append(@, Head(inflight[c]))
       ELSE @]
  /\ UNCHANGED <<log, subscriptions, publisher, active, outstanding, loopOpen, handler>>

\* The loop ends with its process or its test client.
CloseLoop ==
  /\ loopOpen /\ LoopReady
  /\ loopOpen' = FALSE
  /\ UNCHANGED <<log, subscriptions, publisher, active, outstanding, inflight,
                 queue, handler>>

-----------------------------------------------------------------------------
\* The handler coroutine of one connection.

\* subscribe: registration and snapshot under the service lock, which publish
\* holds until every subscription has been handed its event.
Subscribe(c) ==
  /\ loopOpen /\ LoopReady
  /\ PublisherIdle
  /\ phase[c] = "absent"
  /\ subscriptions' = subscriptions \cup {c}
  /\ active' = [active EXCEPT ![c] = TRUE]
  /\ phase' = [phase EXCEPT ![c] = "opening"]
  /\ base' = [base EXCEPT ![c] = Published]
  /\ found' = [found EXCEPT ![c] = ServiceState]
  /\ UNCHANGED <<log, publisher, outstanding, inflight, queue, loopOpen, item, sent>>

\* Mutant: the state found at subscription is not looked at.
SendSnapshotWaiting(c) ==
  /\ loopOpen /\ LoopReady
  /\ phase[c] = "opening"
  /\ phase' = [phase EXCEPT ![c] = "waiting"]
  /\ UNCHANGED <<log, subscriptions, publisher, active, outstanding, inflight,
                 queue, loopOpen, item, base, found, sent>>

\* The snapshot goes out; after a completed source the terminal state follows
\* it and the connection closes without reading the queue.
SendSnapshot(c) ==
  /\ loopOpen /\ LoopReady
  /\ phase[c] = "opening"
  /\ phase' = [phase EXCEPT ![c] = IF found[c] = "completed" THEN "closing" ELSE "waiting"]
  /\ UNCHANGED <<log, subscriptions, publisher, active, outstanding, inflight,
                 queue, loopOpen, item, base, found, sent>>

\* receive: await queue.get().
Take(c) ==
  /\ loopOpen /\ LoopReady
  /\ phase[c] = "waiting"
  /\ queue[c] # <<>>
  /\ item' = [item EXCEPT ![c] = Head(queue[c])]
  /\ queue' = [queue EXCEPT ![c] = Tail(@)]
  /\ phase' = [phase EXCEPT ![c] = IF Head(queue[c]) = Closed THEN "sending" ELSE "accounting"]
  /\ UNCHANGED <<log, subscriptions, publisher, active, outstanding, inflight,
                 loopOpen, base, found, sent>>

\* Mutant: deliveries are never given back.
AccountLeaking(c) ==
  /\ phase[c] = "accounting"
  /\ phase' = [phase EXCEPT ![c] = "sending"]
  /\ UNCHANGED <<log, subscriptions, publisher, active, outstanding, inflight, queue,
                 loopOpen, item, base, found, sent>>

\* receive: the decrement under the state lock.
Account(c) ==
  /\ phase[c] = "accounting"
  /\ outstanding' = IF active[c] THEN [outstanding EXCEPT ![c] = @ - 1] ELSE outstanding
  /\ phase' = [phase EXCEPT ![c] = "sending"]
  /\ UNCHANGED <<log, subscriptions, publisher, active, inflight, queue,
                 loopOpen, item, base, found, sent>>

Terminal(i) == i = Closed \/ log[i] # "update"

\* The item goes out; a terminal state or a closure ends the connection.
Send(c) ==
  /\ loopOpen /\ LoopReady
  /\ phase[c] = "sending"
  /\ sent' = [sent EXCEPT ![c] = Append(@, item[c])]
  /\ phase' = [phase EXCEPT ![c] = IF Terminal(item[c]) THEN "closing" ELSE "waiting"]
  /\ item' = [item EXCEPT ![c] = None]
  /\ UNCHANGED <<log, subscriptions, publisher, active, outstanding, inflight,
                 queue, loopOpen, base, found>>

\* WebSocketDisconnect from a send: the item is lost.
Disconnect(c) ==
  /\ loopOpen /\ LoopReady
  /\ phase[c] \in {"opening", "sending"}
  /\ phase' = [phase EXCEPT ![c] = "closing"]
  /\ item' = [item EXCEPT ![c] = None]
  /\ UNCHANGED <<log, subscriptions, publisher, active, outstanding, inflight,
                 queue, loopOpen, base, found, sent>>

\* finally: subscription.close(), that is unsubscribe.
Close(c) ==
  /\ LoopReady
  /\ phase[c] = "closing"
  /\ subscriptions' = subscriptions \ {c}
  /\ Deactivate(c, FALSE)
  /\ phase' = [phase EXCEPT ![c] = "done"]
  /\ UNCHANGED <<log, publisher, queue, loopOpen, item, base, found, sent>>

-----------------------------------------------------------------------------
Publisher ==
  \E c \in Clients : Schedule(c) \/ Post(c) \/ DisconnectSlow(c)

\* What a connection does by itself, and what needs its peer to read.
Local(c) == RunCallback(c) \/ Take(c) \/ Account(c) \/ Close(c)
Peer(c) == SendSnapshot(c) \/ Send(c)

Next ==
  \/ \E kind \in Kinds : Publish(kind)
  \/ Publisher
  \/ CloseLoop
  \/ \E c \in Clients : Subscribe(c) \/ Local(c) \/ Peer(c) \/ Disconnect(c)

Spec == Init /\ [][Next]_vars

\* Threads and the loop are scheduled; sends complete for peers that read.
FairSpec ==
  /\ Spec
  /\ WF_vars(Publisher)
  /\ \A c \in Clients : WF_vars(Local(c))
  /\ \A c \in Responsive : WF_vars(Peer(c))

-----------------------------------------------------------------------------
\* Properties.

Items == Nat \cup {None}

TypeOK ==
  /\ log \in Seq(Kinds)
  /\ subscriptions \subseteq Clients
  /\ targets \subseteq Clients
  /\ posting \subseteq Clients /\ overflowing \subseteq Clients
  /\ active \in [Clients -> BOOLEAN]
  /\ outstanding \in [Clients -> Nat]
  /\ inflight \in [Clients -> Seq(Nat)]
  /\ queue \in [Clients -> Seq(Nat)]
  /\ \A c \in Clients : Len(queue[c]) <= Capacity
  /\ loopOpen \in BOOLEAN
  /\ phase \in [Clients -> Phases]
  /\ item \in [Clients -> Items]
  /\ base \in [Clients -> Nat]
  /\ found \in [Clients -> {"running", "completed", "stopped"}]
  /\ sent \in [Clients -> Seq(Nat)]

Posting(c) == IF c \in posting THEN 1 ELSE 0
Accounting(c) == IF phase[c] = "accounting" THEN 1 ELSE 0

\* The delivery counter that the publisher thread and the loop thread share
\* counts exactly the events on their way: about to be posted, posted, queued
\* or just taken, and never more than the capacity.
OutstandingExact ==
  \A c \in Clients : active[c] =>
    /\ outstanding[c] = Len(inflight[c]) + Len(queue[c])
                          + Posting(c) + Accounting(c)
    /\ outstanding[c] <= Capacity

\* put_nowait in _deliver never finds the queue full: an exception there would
\* be swallowed by the loop and the event lost without a trace.
NeverQueueFull ==
  \A c \in Clients :
    (active[c] /\ inflight[c] # <<>>) => Len(queue[c]) < Capacity

\* What a client is sent after its snapshot is the stream from the snapshot on:
\* no event is skipped, repeated or overtaken, although registration,
\* publication, callbacks and reads run on different threads; the only
\* other item is one closure, after which nothing is sent.
ContiguousStream ==
  \A c \in Clients :
    /\ \A i \in DOMAIN sent[c] :
         sent[c][i] = base[c] + i \/ (sent[c][i] = Closed /\ i = Len(sent[c]))
    /\ Len(sent[c]) <= Published - base[c] + 1

\* A client is found too slow only when it really is more than the capacity
\* behind the stream, the new event included.  (It may catch up between that
\* decision, under its state lock, and the disconnection, under the
\* broadcaster lock, and is then disconnected all the same.)
FoundSlowOnlyBehind ==
  [][\A c \in overflowing' \ overflowing :
       Published - base[c] - Len(sent[c]) > Capacity]_vars

\* No client holds the publisher (and with it the service lock) up, not even
\* one that has stopped reading or one whose loop is gone.
PublisherReturns == ~PublisherIdle ~> PublisherIdle

\* A client that reads learns how the source ended: the terminal state it
\* found at its subscription or is sent afterwards, or a closure because it
\* fell behind; its handler then ends.  (A client that subscribes to a stopped
\* service waits for the next source.)
EndReachesClient ==
  [](loopOpen) =>
    \A c \in Responsive :
      (/\ phase[c] # "absent"
       /\ \/ found[c] = "completed"
          \/ base[c] < Published /\ ServiceState # "running") ~> phase[c] = "done"
=============================================================================
