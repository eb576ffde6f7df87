------------------------------ MODULE CanClient ------------------------------
(***************************************************************************)
(* The raw CAN page: the reducer of frontend/lib/can/state.ts and the      *)
(* WebSocket effect of frontend/components/can/can-explorer-provider.tsx,  *)
(* which has one connection for as long as the page is mounted.            *)
(*                                                                         *)
(* Frames wait in a ref, bounded to the newest Capacity, until an          *)
(* animation frame; the user may freeze the view at any time, even before  *)
(* the snapshot has come.  A frame is its raw sequence number; the         *)
(* statistics that ride on each event are the server's after that frame.   *)
(***************************************************************************)
EXTENDS Integers, Sequences, FiniteSets, FiniteSetsExt

CONSTANTS
  Ids,           \* arbitration IDs
  IdOf,          \* IdOf[k]: the ID of frame k
  Capacity,      \* CAN_CLIENT_BUFFER_CAPACITY, CAN_WEBSOCKET_INITIAL_FRAME_LIMIT
  MaxFrames      \* bound: frames of the source

ASSUME CanAssumption ==
  /\ Capacity \in Nat \ {0} /\ MaxFrames \in Nat
  /\ IdOf \in [0 .. MaxFrames - 1 -> Ids]

None == -1

VARIABLES
  frames, serverState,      \* the server's explorer and service state
  subscribed,               \* the server has sent the snapshot and streams
  wire,                     \* messages not yet received
  connectionState, serviceState,
  error,                    \* an error is shown
  terminal,                 \* the effect's closure variable
  currentFrames, displayedFrames, messages,
  last,                     \* statistics.last_sequence
  frozen, framesPassedWhileFrozen, streamWarning, initialized,
  pending, animationFrame,  \* the refs
  dropped,                  \* history variable: pending has dropped frames
  frozenAt                  \* history variable: last when the view was frozen

server == <<frames, serverState, subscribed>>
connection == <<connectionState, error, terminal>>
buffers == <<currentFrames, displayedFrames, messages, last, framesPassedWhileFrozen,
             streamWarning, initialized>>
refs == <<pending, animationFrame>>
vars == <<server, wire, connection, serviceState, buffers, frozen, refs, dropped, frozenAt>>

Newest(s, n) == SubSeq(s, Max({1, Len(s) - n + 1}), Len(s))
FramesBetween(a, b) == [i \in 1 .. b - a + 1 |-> a + i - 1]

\* The server's per-message statistics after n frames: the count of each ID.
MessagesAfter(n) == [id \in Ids |-> Cardinality({k \in 0 .. n - 1 : IdOf[k] = id})]

Init ==
  /\ frames \in 0 .. MaxFrames /\ serverState \in {"running", "completed"}
  /\ subscribed = FALSE /\ wire = <<>>
  /\ connectionState = "connecting" /\ serviceState = "stopped" /\ error = FALSE
  /\ terminal = FALSE
  /\ currentFrames = <<>> /\ displayedFrames = <<>> /\ messages = MessagesAfter(0)
  /\ last = None /\ frozen = FALSE /\ framesPassedWhileFrozen = 0
  /\ streamWarning = FALSE /\ initialized = FALSE
  /\ pending = <<>> /\ animationFrame = FALSE /\ dropped = FALSE /\ frozenAt = None

-----------------------------------------------------------------------------
\* The server: can_websocket on a stream that SubscriberStream makes contiguous.

Message(kind, n) == [kind |-> kind, n |-> n, state |-> serverState]

Accept ==
  /\ ~subscribed /\ connectionState = "connecting"
  /\ subscribed' = TRUE
  /\ connectionState' = "connected"
  /\ error' = FALSE
  /\ wire' = <<Message("snapshot", frames)>> \o
             (IF serverState = "running" THEN <<>>
              ELSE <<Message("ended", 0), Message("close", 0)>>)
  /\ UNCHANGED <<frames, serverState, terminal, serviceState, buffers, frozen, refs, dropped,
                 frozenAt>>

Publish ==
  /\ serverState = "running" /\ frames < MaxFrames
  /\ frames' = frames + 1
  /\ wire' = IF subscribed THEN Append(wire, Message("frame", frames)) ELSE wire
  /\ UNCHANGED <<serverState, subscribed, connection, serviceState, buffers, frozen, refs,
                 dropped, frozenAt>>

\* Completed, failed or stopped: all three are told, and terminal here.
End ==
  /\ serverState = "running"
  /\ serverState' = "completed"
  /\ wire' = IF subscribed
             THEN wire \o <<Message("ended", 0), Message("close", 0)>> ELSE wire
  /\ UNCHANGED <<frames, subscribed, connection, serviceState, buffers, frozen, refs,
                 dropped, frozenAt>>

\* The connection is lost, with the messages after some point of the wire.
Break ==
  /\ subscribed /\ connectionState = "connected" /\ serverState = "running"
  /\ serverState' = "unreachable"
  /\ \E i \in 0 .. Len(wire) : wire' = Append(SubSeq(wire, 1, i), Message("close", 0))
  /\ UNCHANGED <<frames, subscribed, connection, serviceState, buffers, frozen, refs,
                 dropped, frozenAt>>

-----------------------------------------------------------------------------
\* The reducer, as functions of the state it changes.

State == [current |-> currentFrames, displayed |-> displayedFrames, messages |-> messages,
          last |-> last, passed |-> framesPassedWhileFrozen, warning |-> streamWarning]

Show(s) ==
  /\ currentFrames' = s.current /\ displayedFrames' = s.displayed /\ messages' = s.messages
  /\ last' = s.last /\ framesPassedWhileFrozen' = s.passed /\ streamWarning' = s.warning
  /\ initialized' = TRUE

\* Mutant: passed frames are counted by event.
PassedByEvent(s, k) == s.passed + 1

\* Frames that went by with frame k, those lost on the way included.
Passed(s, k) == s.passed + (IF s.last = None THEN 1 ELSE k - s.last)

\* What is shown when the buffer has become current.
Display(current, displayed) == IF frozen THEN displayed ELSE current

\* Mutant: the bound of the buffer is forgotten.
AppendBoundedNot(s, k) == Append(s, k)

AppendBounded(s, k) == Newest(Append(s, k), Capacity)

\* applyFrame.
ApplyFrame(s, k) ==
  IF s.last # None /\ k <= s.last THEN [s EXCEPT !.warning = TRUE]
  ELSE LET current == AppendBounded(s.current, k) IN
       [current |-> current,
        displayed |-> Display(current, s.displayed),
        messages |-> [s.messages EXCEPT ![IdOf[k]] = MessagesAfter(k + 1)[IdOf[k]]],
        last |-> k,
        passed |-> IF frozen THEN Passed(s, k) ELSE 0,
        warning |-> s.warning \/ (s.last # None /\ k # s.last + 1)]

\* The "frames" action applies the waiting frames one by one.
Applied(s, waiting) ==
  LET after[i \in 0 .. Len(waiting)] ==
        IF i = 0 THEN s ELSE ApplyFrame(after[i - 1], waiting[i])
  IN  after[Len(waiting)]

\* The "initial" action, for a server with n frames.
Initial(s, n) ==
  LET current == Newest(FramesBetween(0, n - 1), Capacity) IN
  [current |-> current,
   displayed |-> Display(current, s.displayed),
   messages |-> MessagesAfter(n),
   last |-> n - 1,
   passed |-> IF frozen THEN Max({0, n - 1 - s.last}) ELSE 0,
   warning |-> FALSE]

-----------------------------------------------------------------------------
\* The provider.

Receive(kind) ==
  /\ wire # <<>> /\ Head(wire).kind = kind
  /\ wire' = Tail(wire)

OnSnapshot ==
  /\ Receive("snapshot")
  /\ pending' = <<>>
  /\ Show(Initial(State, Head(wire).n))
  /\ serviceState' = Head(wire).state
  /\ UNCHANGED <<server, connection, frozen, animationFrame, dropped, frozenAt>>

\* queue: the oldest waiting frames make room.
OnFrame ==
  /\ Receive("frame")
  /\ pending' = AppendBounded(pending, Head(wire).n)
  /\ dropped' = (dropped \/ Len(pending) = Capacity)
  /\ animationFrame' = TRUE
  /\ UNCHANGED <<server, connection, serviceState, buffers, frozen, frozenAt>>

\* Mutant: the waiting frames are discarded.
FlushDiscarding ==
  /\ animationFrame' = FALSE
  /\ pending' = <<>>
  /\ UNCHANGED buffers

\* flush: nothing is dispatched for an empty queue.
Flush ==
  /\ animationFrame' = FALSE
  /\ pending' = <<>>
  /\ IF pending = <<>> THEN UNCHANGED buffers
     ELSE Show(Applied(State, pending))

OnSourceState ==
  /\ Receive("ended")
  /\ Flush
  /\ terminal' = TRUE
  /\ serviceState' = "completed"
  /\ error' = FALSE
  /\ UNCHANGED <<server, connectionState, frozen, dropped, frozenAt>>

OnClose ==
  /\ Receive("close")
  /\ Flush
  /\ connectionState' = "disconnected"
  /\ error' = ~terminal
  /\ UNCHANGED <<server, terminal, serviceState, frozen, dropped, frozenAt>>

AnimationFrame ==
  /\ animationFrame
  /\ Flush
  /\ UNCHANGED <<server, wire, connection, serviceState, frozen, dropped, frozenAt>>

ToggleFreeze ==
  /\ frozen' = ~frozen
  /\ displayedFrames' = IF frozen THEN currentFrames ELSE displayedFrames
  /\ framesPassedWhileFrozen' = IF frozen THEN 0 ELSE framesPassedWhileFrozen
  /\ frozenAt' = last
  /\ UNCHANGED <<server, wire, connection, serviceState, currentFrames, messages, last,
                 streamWarning, initialized, refs, dropped>>

-----------------------------------------------------------------------------
Next ==
  \/ Accept \/ Publish \/ End \/ Break
  \/ OnSnapshot \/ OnFrame \/ OnSourceState \/ OnClose \/ AnimationFrame \/ ToggleFreeze

Spec == Init /\ [][Next]_vars

-----------------------------------------------------------------------------
\* Properties.

TypeOK ==
  /\ frames \in 0 .. MaxFrames /\ serverState \in {"running", "completed", "unreachable"}
  /\ connectionState \in {"connecting", "connected", "disconnected"}
  /\ serviceState \in {"stopped", "running", "completed"}
  /\ {subscribed, error, terminal, frozen, streamWarning, initialized, animationFrame, dropped}
       \subseteq BOOLEAN
  /\ Len(currentFrames) <= Capacity /\ Len(displayedFrames) <= Capacity
  /\ Len(pending) <= Capacity
  /\ last \in -1 .. MaxFrames - 1 /\ frozenAt \in -1 .. MaxFrames - 1
  /\ framesPassedWhileFrozen \in 0 .. MaxFrames

\* The buffer always holds the newest frames up to the last one taken in,
\* without a hole: a burst that overflows the waiting queue leaves exactly
\* enough frames to fill the buffer.
BufferIsNewestWindow ==
  initialized => currentFrames = Newest(FramesBetween(0, last), Capacity)

\* The frozen view counts every frame that has passed, those dropped from the
\* waiting queue and those a late snapshot brings included (a queue that
\* overflows before the first frame of all is the exception).
PassedFramesExact ==
  frozen /\ (last = frozenAt \/ frozenAt # None \/ ~dropped)
    => framesPassedWhileFrozen = last - frozenAt

\* A connection that ends without an error has shown everything: the source
\* ended and its last frame was taken in before the end was shown.
CleanEndShowsAll ==
  connectionState = "disconnected" /\ ~error
    => serviceState = "completed" /\ last = frames - 1 /\ pending = <<>>
=============================================================================
