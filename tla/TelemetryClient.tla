--------------------------- MODULE TelemetryClient ---------------------------
(***************************************************************************)
(* The browser's shared telemetry state: the reducer of                    *)
(* frontend/lib/telemetry/state.ts and the WebSocket effect of             *)
(* frontend/components/telemetry/telemetry-provider.tsx, against a server  *)
(* that keeps the promise SubscriberStream checks: a snapshot, then every  *)
(* later event of the stream, then a closure.                              *)
(*                                                                         *)
(* Updates wait in a ref that outlives connections until an animation      *)
(* frame; the socket may close, be retried, or be replaced when the user   *)
(* starts a replay, whose stream begins again at frame 0.  A sample is the *)
(* pair of the source and the frame that set it, so that values of         *)
(* different sources can be told apart; the signals of a message are set   *)
(* together and stand as one.  The chart histories are in ChartHistory;    *)
(* error texts, the catalog and the growing retry delays are left out.     *)
(***************************************************************************)
EXTENDS Integers, Sequences, FiniteSets, FiniteSetsExt

CONSTANTS
  Messages,       \* CAN messages
  MessageOf,      \* MessageOf[k]: the message frame k of any source carries
  MaxFrames,      \* bound: frames of one source
  MaxSources,     \* bound: the live source and the replays
  MaxBreaks       \* bound: connections lost or refused

ASSUME MessageAssumption == MessageOf \in [0 .. MaxFrames - 1 -> Messages]
ASSUME BoundsAssumption == MaxFrames \in Nat /\ MaxSources \in Nat \ {0} /\ MaxBreaks \in Nat

None == -1
NoSample == <<0, None>>
Ended == {"completed", "stopped"}     \* "completed" stands for "failed" too

VARIABLES
  \* the server
  source, frames, serverState,
  started,          \* the source runs: a replay waits for its first subscriber
  subscribed,       \* the current socket has a subscription
  breaks,
  \* between server and client
  wire,             \* messages of the current socket not yet received
  statusReply,      \* the REST status of the start-up effect
  replayReply,      \* the answer to a replay request
  \* the provider's effect and refs
  socket, retryTimer, terminalState,
  rerender,         \* reconnect() was called and the effect has not run again
  oldConnecting,    \* sockets of earlier effects, closed before they opened
  oldClosing,       \* sockets of earlier effects whose onclose is to come
  pending,          \* pendingUpdates
  animationFrame,   \* an animation frame is requested
  \* the reducer's state
  connectionState, serviceState, view

server == <<source, frames, serverState, started, subscribed, breaks>>
replies == <<statusReply, replayReply>>
sockets == <<socket, retryTimer, terminalState, rerender, oldConnecting, oldClosing>>
refs == <<pending, animationFrame>>
shown == <<connectionState, serviceState, view>>
vars == <<server, wire, replies, sockets, refs, shown>>

-----------------------------------------------------------------------------
\* The reducer.

LatestFrame(m, n) == Max({None} \cup {k \in 0 .. n - 1 : MessageOf[k] = m})

\* What the server's engine shows after n frames of source s.
SamplesAfter(s, n) ==
  [m \in Messages |-> IF LatestFrame(m, n) = None THEN NoSample ELSE <<s, LatestFrame(m, n)>>]
CountsAfter(n) == [m \in Messages |-> Cardinality({k \in 0 .. n - 1 : MessageOf[k] = m})]

EmptyView ==
  [samples |-> SamplesAfter(0, 0), last |-> None, total |-> 0, counts |-> CountsAfter(0),
   warning |-> FALSE, initialized |-> FALSE]

\* initial_snapshot: everything is replaced.
SnapshotView(s, n) ==
  [samples |-> SamplesAfter(s, n), last |-> n - 1, total |-> n, counts |-> CountsAfter(n),
   warning |-> FALSE, initialized |-> TRUE]

\* applyUpdate: old frames are ignored with a warning, gaps only warned about.
ApplyUpdate(v, update) ==
  LET m == MessageOf[update.n] IN
  IF v.last # None /\ update.n <= v.last THEN [v EXCEPT !.warning = TRUE]
  ELSE [v EXCEPT
         !.samples[m] = <<update.source, update.n>>,
         !.last = update.n,
         !.total = Max({@ + 1, update.n + 1}),
         !.counts[m] = @ + 1,
         !.warning = @ \/ (v.last # None /\ update.n # v.last + 1),
         !.initialized = TRUE]

Updated(v, updates) ==
  LET after[i \in 0 .. Len(updates)] ==
        IF i = 0 THEN v ELSE ApplyUpdate(after[i - 1], updates[i])
  IN  after[Len(updates)]

-----------------------------------------------------------------------------
Init ==
  /\ source = 1 /\ frames = 0 /\ serverState = "running" /\ started = TRUE
  /\ subscribed = FALSE /\ breaks = 0
  /\ wire = <<>> /\ statusReply = "requested" /\ replayReply = "none"
  /\ socket = "connecting" /\ retryTimer = FALSE /\ terminalState = FALSE
  /\ rerender = FALSE /\ oldConnecting = 0 /\ oldClosing = 0
  /\ pending = <<>> /\ animationFrame = FALSE
  /\ connectionState = "connecting" /\ serviceState = "stopped" /\ view = EmptyView

Message(kind, n) == [kind |-> kind, source |-> source, n |-> n]

-----------------------------------------------------------------------------
\* The server.

Publish ==
  /\ serverState = "running" /\ started
  /\ frames < MaxFrames
  /\ frames' = frames + 1
  /\ wire' = IF subscribed THEN Append(wire, Message("update", frames)) ELSE wire
  /\ UNCHANGED <<source, serverState, started, subscribed, breaks, replies, sockets, refs, shown>>

\* The source ends; subscribers are told and their sockets closed.
End(state) ==
  /\ serverState = "running"
  /\ state = "completed" => started
  /\ serverState' = state
  /\ wire' = IF subscribed
             THEN wire \o <<Message(state, 0), Message("close", 0)>> ELSE wire
  /\ subscribed' = FALSE
  /\ UNCHANGED <<source, frames, started, breaks, replies, sockets, refs, shown>>

\* telemetry_websocket: accept, subscribe, snapshot; a completed source is
\* announced at once.  A replay that waits for a subscriber starts.
Accept ==
  /\ socket = "connecting"
  /\ socket' = "accepted"
  /\ started' = TRUE
  /\ wire' = <<Message("snapshot", frames)>> \o
             IF serverState = "completed"
             THEN <<Message("completed", 0), Message("close", 0)>> ELSE <<>>
  /\ subscribed' = (serverState # "completed")
  /\ UNCHANGED <<source, frames, serverState, breaks, replies, retryTimer, terminalState,
                 rerender, oldConnecting, oldClosing, refs, shown>>

\* A slow client is dropped (nothing queued is lost) or the connection breaks
\* (any number of messages is).
Break ==
  /\ breaks < MaxBreaks
  /\ subscribed
  /\ breaks' = breaks + 1
  /\ subscribed' = FALSE
  /\ \E i \in 0 .. Len(wire) : wire' = Append(SubSeq(wire, 1, i), Message("close", 0))
  /\ UNCHANGED <<source, frames, serverState, started, replies, sockets, refs, shown>>

\* GET status is answered with the state of that moment.
AnswerStatus ==
  /\ statusReply = "requested"
  /\ statusReply' = serverState
  /\ UNCHANGED <<server, wire, replayReply, sockets, refs, shown>>

-----------------------------------------------------------------------------
\* The provider.

\* Mutant: the requested frame is cancelled and the queue forgotten.
FlushCancelling ==
  /\ animationFrame' = FALSE
  /\ UNCHANGED <<pending, view>>

\* Mutant: the queue is not emptied.
FlushKeeping ==
  /\ animationFrame' = FALSE
  /\ view' = Updated(view, pending)
  /\ UNCHANGED pending

\* flushUpdates.
Flush ==
  /\ animationFrame' = FALSE
  /\ pending' = <<>>
  /\ view' = Updated(view, pending)

\* new WebSocket in connect().
Connect ==
  /\ socket' = "connecting"
  /\ connectionState' = "connecting"

OnOpen ==
  /\ socket = "accepted"
  /\ socket' = "open"
  /\ connectionState' = "connected"
  /\ UNCHANGED <<server, wire, replies, retryTimer, terminalState, rerender,
                 oldConnecting, oldClosing, refs, serviceState, view>>

Receive(kind) ==
  /\ socket = "open"
  /\ wire # <<>> /\ Head(wire).kind = kind
  /\ wire' = Tail(wire)

OnSnapshot ==
  /\ Receive("snapshot")
  /\ terminalState' = FALSE
  /\ view' = SnapshotView(Head(wire).source, Head(wire).n)
  /\ UNCHANGED <<server, replies, socket, retryTimer, rerender, oldConnecting, oldClosing,
                 refs, connectionState, serviceState>>

\* queueUpdate.
OnUpdate ==
  /\ Receive("update")
  /\ pending' = Append(pending, Head(wire))
  /\ animationFrame' = TRUE
  /\ UNCHANGED <<server, replies, sockets, shown>>

\* A "service_state" event: only completed and failed are terminal.
OnServiceState(state) ==
  /\ Receive(state)
  /\ Flush
  /\ terminalState' = (state = "completed")
  /\ serviceState' = state
  /\ UNCHANGED <<server, replies, socket, retryTimer, rerender, oldConnecting, oldClosing,
                 connectionState>>

\* The body of onclose.
Close ==
  /\ Flush
  /\ socket' = "none"
  /\ retryTimer' = ~terminalState
  /\ connectionState' = "disconnected"

OnClose ==
  /\ Receive("close")
  /\ Close
  /\ UNCHANGED <<server, replies, terminalState, rerender, oldConnecting, oldClosing,
                 serviceState>>

\* The connection is refused: onerror, then onclose.
ConnectFails ==
  /\ socket = "connecting"
  /\ breaks < MaxBreaks
  /\ breaks' = breaks + 1
  /\ Close
  /\ UNCHANGED <<source, frames, serverState, started, subscribed, wire, replies, terminalState,
                 rerender, oldConnecting, oldClosing, serviceState>>

\* The retry timer calls connect().
Retry ==
  /\ retryTimer
  /\ retryTimer' = FALSE
  /\ Connect
  /\ wire' = <<>>
  /\ UNCHANGED <<server, replies, terminalState, rerender, oldConnecting, oldClosing, refs,
                 serviceState, view>>

AnimationFrame ==
  /\ animationFrame
  /\ Flush
  /\ UNCHANGED <<server, wire, replies, sockets, connectionState, serviceState>>

\* The start-up effect's Promise.all resolves, whatever has been shown since.
OnStatus ==
  /\ statusReply \in {"running"} \cup Ended
  /\ serviceState' = statusReply
  /\ statusReply' = "used"
  /\ UNCHANGED <<server, wire, replayReply, sockets, refs, connectionState, view>>

\* replaySession: the server accepts when no source runs and nobody is
\* subscribed; the button is disabled while the client shows a running source.
RequestReplay ==
  /\ replayReply = "none"
  /\ serviceState # "running"
  /\ serverState # "running" /\ ~subscribed
  /\ source < MaxSources
  /\ source' = source + 1
  /\ frames' = 0
  /\ serverState' = "running"
  /\ started' = FALSE
  /\ replayReply' = "accepted"
  /\ UNCHANGED <<subscribed, breaks, wire, statusReply, sockets, refs, shown>>

\* The answer arrives: reconnect().
OnReplay ==
  /\ replayReply = "accepted"
  /\ replayReply' = "none"
  /\ rerender' = TRUE
  /\ UNCHANGED <<server, wire, statusReply, socket, retryTimer, terminalState,
                 oldConnecting, oldClosing, refs, shown>>

\* The answer is lost: an error is shown and nothing reconnects.
ReplayAnswerLost ==
  /\ replayReply = "accepted"
  /\ breaks < MaxBreaks
  /\ breaks' = breaks + 1
  /\ replayReply' = "lost"
  /\ UNCHANGED <<source, frames, serverState, started, subscribed, wire, statusReply,
                 sockets, refs, shown>>

\* The effect's cleanup, then the effect with fresh closure variables.  The
\* closed socket delivers no more messages, only its error and close events.
RerunEffect ==
  /\ rerender
  /\ rerender' = FALSE
  /\ retryTimer' = FALSE
  /\ terminalState' = FALSE
  /\ oldConnecting' = oldConnecting + (IF socket \in {"connecting", "accepted"} THEN 1 ELSE 0)
  /\ oldClosing' = oldClosing + (IF socket = "open" THEN 1 ELSE 0)
  /\ Flush
  /\ Connect
  /\ wire' = <<>>
  /\ subscribed' = FALSE
  /\ UNCHANGED <<source, frames, serverState, started, breaks, replies, serviceState>>

\* onerror of a socket closed while connecting: it has no test of active.
OldError ==
  /\ oldConnecting > 0
  /\ oldConnecting' = oldConnecting - 1
  /\ oldClosing' = oldClosing + 1
  /\ connectionState' = "error"
  /\ UNCHANGED <<server, wire, replies, socket, retryTimer, terminalState, rerender, refs,
                 serviceState, view>>

\* onclose of an earlier effect's socket flushes the shared queue, no more.
OldClose ==
  /\ oldClosing > 0
  /\ oldClosing' = oldClosing - 1
  /\ Flush
  /\ UNCHANGED <<server, wire, replies, socket, retryTimer, terminalState, rerender,
                 oldConnecting, connectionState, serviceState>>

-----------------------------------------------------------------------------
\* What happens by itself once the network and the browser let it.
Events ==
  \/ OnOpen \/ OnSnapshot \/ OnUpdate \/ OnClose
  \/ \E state \in Ended : OnServiceState(state)

Next ==
  \/ Publish \/ Break \/ AnswerStatus \/ Accept
  \/ \E state \in Ended : End(state)
  \/ Events \/ ConnectFails \/ Retry \/ AnimationFrame \/ OnStatus
  \/ RequestReplay \/ OnReplay \/ ReplayAnswerLost \/ RerunEffect \/ OldError \/ OldClose

Spec == Init /\ [][Next]_vars

\* Connections are accepted, events delivered and timers run.  Nothing is
\* assumed of animation frames, which a hidden page does not get.
FairSpec ==
  /\ Spec
  /\ WF_vars(Accept) /\ WF_vars(Events) /\ WF_vars(Retry)
  /\ WF_vars(OnReplay) /\ WF_vars(RerunEffect)

-----------------------------------------------------------------------------
\* Properties.

TypeOK ==
  /\ source \in 1 .. MaxSources /\ frames \in 0 .. MaxFrames
  /\ serverState \in {"running"} \cup Ended
  /\ started \in BOOLEAN /\ subscribed \in BOOLEAN /\ breaks \in 0 .. MaxBreaks
  /\ \A i \in DOMAIN wire :
       wire[i] \in [kind : {"snapshot", "update", "close"} \cup Ended,
                    source : 1 .. MaxSources, n : 0 .. MaxFrames]
  /\ statusReply \in {"requested", "used", "running"} \cup Ended
  /\ replayReply \in {"none", "accepted", "lost"}
  /\ socket \in {"none", "connecting", "accepted", "open"}
  /\ retryTimer \in BOOLEAN /\ terminalState \in BOOLEAN /\ rerender \in BOOLEAN
  /\ oldConnecting \in Nat /\ oldClosing \in Nat /\ animationFrame \in BOOLEAN
  /\ connectionState \in {"connecting", "connected", "disconnected", "error"}
  /\ serviceState \in {"running"} \cup Ended
  /\ view.last \in -1 .. MaxFrames - 1 /\ view.warning \in BOOLEAN

ViewOf(s) ==
  /\ view.samples = SamplesAfter(s, view.last + 1)
  /\ view.counts = CountsAfter(view.last + 1)
  /\ view.total = view.last + 1
  /\ s = source => view.last < frames

\* What the page shows is what the server's engine showed after some frame of
\* one source, and the queued updates continue exactly there: no connection's
\* updates are ever laid over another's snapshot, through retries, replays
\* and the late close events of replaced sockets.
ViewIsPrefixOfOneSource ==
  \E s \in 1 .. source :
    /\ ViewOf(s)
    /\ \A i \in DOMAIN pending : pending[i].source = s /\ pending[i].n = view.last + i

\* The server's streams are contiguous, so the page never accuses the stream of
\* a gap or a repetition.
NoFalseStreamWarning == ~view.warning

\* Once a source has ended the page comes to show its last frame, even if no
\* animation frame is ever granted and connections fail on the way, unless the
\* answer to the replay request was lost or another source has begun.
ConvergesToFinalView ==
  \A s \in 1 .. MaxSources :
    (source = s /\ serverState \in Ended)
      ~> (source # s \/ replayReply = "lost" \/ (ViewOf(s) /\ view.last = frames - 1))
=============================================================================
