--------------------------- MODULE ServiceLifecycle ---------------------------
(***************************************************************************)
(* TelemetryService's sources: start, start_replay and stop against the     *)
(* worker threads _run_gateway and _run_replay                             *)
(* (backend/src/tuneros/telemetry/service.py).                             *)
(*                                                                         *)
(* A section under the service lock is one action; so is a step of a        *)
(* thread between two of them.  What the pipeline holds is abstracted to    *)
(* the worker each frame came from: explorer, engine and diagnostics are   *)
(* sequences of workers, oldest frame first, since their last reset.        *)
(* Subscriptions appear only as their number (SubscriberStream models them), *)
(* the recorder as the status it ends with (SessionRecorder models it).     *)
(***************************************************************************)
EXTENDS Integers, Sequences, FiniteSets

CONSTANTS
  Callers,         \* threads that call start, start_replay and stop
  MaxWorkers,      \* bound: worker threads ever started
  MaxFrames,       \* bound: frames a source yields
  MaxSubscribers   \* bound: subscribers at a time

ASSUME LifecycleAssumption ==
  /\ IsFiniteSet(Callers)
  /\ MaxWorkers \in Nat /\ MaxFrames \in Nat /\ MaxSubscribers \in Nat

None == 0
Workers == 1..MaxWorkers
States == {"stopped", "connecting", "running", "completed", "failed"}

VARIABLES
  state,           \* _state
  mode,            \* _source_mode
  liveOnce,        \* _live_started_once
  stopRequested,   \* _stop_requested
  replayStart,     \* _replay_start
  worker,          \* _worker: a worker, or None
  client,          \* _client: the worker whose gateway client it is, or None
  started,         \* workers started so far: worker w is the w-th
  thread,          \* thread[w]: [kind, pc, left, total] of worker w
  cut,             \* workers whose gateway client has been closed
  caller,          \* caller[p]: [pc, worker, client] of a stop() in progress
  subscribers,     \* subscriptions of both broadcasters
  explorer, engine, diagnostics,  \* what each holds since its reset
  recorder         \* "none", "recording", "complete" or "incomplete"

source == <<state, mode, liveOnce, stopRequested, replayStart, worker, client>>
threads == <<started, thread, cut>>
pipeline == <<explorer, engine, diagnostics, recorder>>
vars == <<source, threads, caller, subscribers, pipeline>>

Init ==
  /\ state = "stopped" /\ mode = "live" /\ liveOnce = FALSE
  /\ stopRequested = FALSE /\ replayStart = FALSE
  /\ worker = None /\ client = None
  /\ started = 0
  /\ thread = [w \in Workers |-> [kind |-> "none", pc |-> "unborn", left |-> 0, total |-> 0]]
  /\ cut = {}
  /\ caller = [p \in Callers |-> [pc |-> "idle", worker |-> None, client |-> None]]
  /\ subscribers = 0
  /\ explorer = <<>> /\ engine = <<>> /\ diagnostics = <<>>
  /\ recorder \in {"none", "recording"}

Alive(w) == thread[w].pc \notin {"unborn", "dead"}
At(w, pc) == thread[w].pc = pc
Go(w, pc) == thread' = [thread EXCEPT ![w].pc = pc]

\* Where a worker leaves its try block for.
AfterEnd(w) == IF thread[w].kind = "live" THEN "finally" ELSE "dead"

-----------------------------------------------------------------------------
\* start() and start_replay(): one locked section each.

Spawn(kind, pc, frames) ==
  /\ started < MaxWorkers
  /\ started' = started + 1
  /\ worker' = started + 1
  /\ thread' = [thread EXCEPT ![started + 1] =
                   [kind |-> kind, pc |-> pc, left |-> frames, total |-> frames]]

Start(p, frames) ==
  /\ caller[p].pc = "idle"
  /\ ~liveOnce
  /\ state \notin {"connecting", "running"}
  /\ liveOnce' = TRUE
  /\ mode' = "live"
  /\ explorer' = <<>> /\ diagnostics' = <<>>   \* the telemetry engine is not reset
  /\ stopRequested' = FALSE
  /\ state' = "connecting"
  /\ Spawn("live", "connecting", frames)
  /\ UNCHANGED <<replayStart, client, cut, caller, subscribers, engine, recorder>>

\* Mutant: the state is taken for proof that the previous worker is gone.
StartReplayUnjoined(p, frames, wait) ==
  /\ caller[p].pc = "idle"
  /\ state # "connecting"
  /\ \A w \in Workers : worker = w => (~Alive(w) \/ stopRequested)
  /\ subscribers = 0
  /\ stopRequested' = FALSE
  /\ explorer' = <<>> /\ engine' = <<>> /\ diagnostics' = <<>>
  /\ mode' = "replay"
  /\ replayStart' = ~wait
  /\ state' = "running"
  /\ Spawn("replay", "waiting", frames)
  /\ UNCHANGED <<liveOnce, client, cut, caller, subscribers, recorder>>

\* Mutant: the diagnostic engine keeps what the previous source left.
StartReplayKeeping(p, frames, wait) ==
  /\ caller[p].pc = "idle"
  /\ state \notin {"connecting", "running"}
  /\ \A w \in Workers : worker = w => ~Alive(w)
  /\ subscribers = 0
  /\ stopRequested' = FALSE
  /\ explorer' = <<>> /\ engine' = <<>> /\ UNCHANGED diagnostics
  /\ mode' = "replay"
  /\ replayStart' = ~wait
  /\ state' = "running"
  /\ Spawn("replay", "waiting", frames)
  /\ UNCHANGED <<liveOnce, client, cut, caller, subscribers, recorder>>

StartReplay(p, frames, wait) ==
  /\ caller[p].pc = "idle"
  /\ state \notin {"connecting", "running"}
  /\ \A w \in Workers : worker = w => ~Alive(w)
  /\ subscribers = 0
  /\ stopRequested' = FALSE
  /\ explorer' = <<>> /\ engine' = <<>> /\ diagnostics' = <<>>
  /\ mode' = "replay"
  /\ replayStart' = ~wait
  /\ state' = "running"
  /\ Spawn("replay", "waiting", frames)
  /\ UNCHANGED <<liveOnce, client, cut, caller, subscribers, recorder>>

-----------------------------------------------------------------------------
\* stop(): the two events, the references read under the lock, the client
\* closed and the worker joined outside it, the references dropped under it.

StopRequest(p) ==
  /\ caller[p].pc = "idle"
  /\ stopRequested' = TRUE
  /\ caller' = [caller EXCEPT ![p].pc = "wake"]
  /\ UNCHANGED <<state, mode, liveOnce, replayStart, worker, client, threads,
                 subscribers, pipeline>>

\* Mutant: stop does not wake a replay that waits for a subscriber.
StopWakeNot(p) ==
  /\ caller[p].pc = "wake"
  /\ caller' = [caller EXCEPT ![p].pc = "read"]
  /\ UNCHANGED <<source, threads, subscribers, pipeline>>

StopWake(p) ==
  /\ caller[p].pc = "wake"
  /\ replayStart' = TRUE
  /\ caller' = [caller EXCEPT ![p].pc = "read"]
  /\ UNCHANGED <<state, mode, liveOnce, stopRequested, worker, client, threads,
                 subscribers, pipeline>>

StopRead(p) ==
  /\ caller[p].pc = "read"
  /\ caller' = [caller EXCEPT ![p] = [pc |-> "close", worker |-> worker, client |-> client]]
  /\ UNCHANGED <<source, threads, subscribers, pipeline>>

StopClose(p) ==
  /\ caller[p].pc = "close"
  /\ cut' = cut \cup ({caller[p].client} \ {None})
  /\ caller' = [caller EXCEPT ![p].pc = "join"]
  /\ UNCHANGED <<source, started, thread, subscribers, pipeline>>

\* Mutant: the result of the join is not looked at.
JoinedAlways(p) == TRUE

Joined(p) == \A w \in Workers : caller[p].worker = w => ~Alive(w)

\* join(timeout) returned with the worker alive: RuntimeError, nothing undone.
StopTimesOut(p) ==
  /\ caller[p].pc = "join" /\ ~Joined(p)
  /\ caller' = [caller EXCEPT ![p].pc = "idle"]
  /\ UNCHANGED <<source, threads, subscribers, pipeline>>

StopFinish(p) ==
  /\ caller[p].pc = "join" /\ Joined(p)
  /\ client' = None /\ worker' = None
  /\ state' = "stopped"
  /\ caller' = [caller EXCEPT ![p].pc = "idle"]
  /\ UNCHANGED <<mode, liveOnce, stopRequested, replayStart, threads, subscribers, pipeline>>

-----------------------------------------------------------------------------
\* _run_gateway, the live worker.

\* The connector returns a client or raises.
Connect(w) ==
  /\ At(w, "connecting")
  /\ Go(w, "attach") \/ Go(w, "failing")
  /\ UNCHANGED <<source, started, cut, caller, subscribers, pipeline>>

\* The locked section after the connection; a requested stop is seen here.
Attach(w) ==
  /\ At(w, "attach")
  /\ client' = w
  /\ IF stopRequested
     THEN Go(w, "finally") /\ UNCHANGED state
     ELSE Go(w, "reading") /\ state' = "running"
  /\ UNCHANGED <<mode, liveOnce, stopRequested, replayStart, worker, started, cut,
                 caller, subscribers, pipeline>>

\* A closed socket yields no more frames.
Readable(w) == thread[w].kind = "live" => w \notin cut

\* The next frame and the check for a stop that follows it.  The stop check
\* comes before recording (live) and before the explorer (replay).
Read(w) ==
  /\ At(w, "reading") /\ Readable(w) /\ thread[w].left > 0
  /\ thread' = [thread EXCEPT ![w].left = @ - 1,
       ![w].pc = IF stopRequested
                 THEN AfterEnd(w)
                 ELSE IF thread[w].kind = "live" THEN "record" ELSE "explore"]
  /\ UNCHANGED <<source, started, cut, caller, subscribers, pipeline>>

\* The recorder after abort, or after a complete that has raised.
Aborted == IF recorder = "recording" THEN "incomplete" ELSE recorder

\* recorder.record, which raises unless it is recording.
Record(w) ==
  /\ At(w, "record")
  /\ \/ recorder \in {"none", "recording"} /\ Go(w, "explore")
     \/ recorder # "none" /\ Go(w, "failing")
  /\ UNCHANGED <<source, started, cut, caller, subscribers, pipeline>>

\* _ingest_can_explorer under the lock.
Explore(w) ==
  /\ At(w, "explore")
  /\ explorer' = Append(explorer, w)
  /\ Go(w, "ingest")
  /\ UNCHANGED <<source, started, cut, caller, subscribers, engine, diagnostics, recorder>>

\* Mutant: a frame that is rejected is skipped.
IngestSkipping(w) ==
  /\ At(w, "ingest")
  /\ \/ /\ engine' = Append(engine, w)
        /\ diagnostics' = Append(diagnostics, w)
     \/ UNCHANGED <<engine, diagnostics>>
  /\ Go(w, "reading")
  /\ UNCHANGED <<source, started, cut, caller, subscribers, explorer, recorder>>

\* decode and ingest_decoded: either may reject the frame before the telemetry
\* engine has changed.
Ingest(w) ==
  /\ At(w, "ingest")
  /\ \/ /\ engine' = Append(engine, w)
        /\ diagnostics' = Append(diagnostics, w)
        /\ Go(w, "reading")
     \/ Go(w, "failing") /\ UNCHANGED <<engine, diagnostics>>
  /\ UNCHANGED <<source, started, cut, caller, subscribers, explorer, recorder>>

\* A record-boundary EOF, or the end of the artifact.
EndOfStream(w) ==
  /\ At(w, "reading") /\ Readable(w) /\ thread[w].left = 0
  /\ Go(w, IF thread[w].kind = "live" THEN "complete" ELSE "completed")
  /\ UNCHANGED <<source, started, cut, caller, subscribers, pipeline>>

\* A read error, a truncated record, a failed validation, a closed socket.
StreamFails(w) ==
  /\ At(w, "reading")
  /\ Go(w, "failing")
  /\ UNCHANGED <<source, started, cut, caller, subscribers, pipeline>>

\* recorder.complete(), which may raise and then leaves the session incomplete.
CompleteRecording(w) ==
  /\ At(w, "complete")
  /\ \/ recorder = "none" /\ UNCHANGED recorder /\ Go(w, "completed")
     \/ recorder = "recording" /\ recorder' = "complete" /\ Go(w, "completed")
     \/ recorder # "none" /\ recorder' = Aborted /\ Go(w, "failing")
  /\ UNCHANGED <<source, started, cut, caller, subscribers, explorer, engine, diagnostics>>

\* The terminal transition, unless a stop has been requested.
Completed(w) ==
  /\ At(w, "completed")
  /\ state' = IF stopRequested THEN state ELSE "completed"
  /\ Go(w, AfterEnd(w))
  /\ UNCHANGED <<mode, liveOnce, stopRequested, replayStart, worker, client,
                 started, cut, caller, subscribers, pipeline>>

\* except Exception: the live worker aborts its recording first.
Failing(w) ==
  /\ At(w, "failing")
  /\ recorder' = IF thread[w].kind = "live" THEN Aborted ELSE recorder
  /\ Go(w, "failed")
  /\ UNCHANGED <<source, started, cut, caller, subscribers, explorer, engine, diagnostics>>

Failed(w) ==
  /\ At(w, "failed")
  /\ state' = IF stopRequested THEN state ELSE "failed"
  /\ Go(w, AfterEnd(w))
  /\ UNCHANGED <<mode, liveOnce, stopRequested, replayStart, worker, client,
                 started, cut, caller, subscribers, pipeline>>

\* finally: close the client, abort a recording still open, drop the client; an
\* abort that raises ends the thread before the last of these.
Finally(w) ==
  /\ At(w, "finally")
  /\ cut' = cut \cup {w}
  /\ recorder' = Aborted
  /\ client' = None \/ (recorder = "recording" /\ UNCHANGED client)
  /\ Go(w, "dead")
  /\ UNCHANGED <<state, mode, liveOnce, stopRequested, replayStart, worker, started,
                 caller, subscribers, explorer, engine, diagnostics>>

-----------------------------------------------------------------------------
\* _run_replay waits for a subscriber, or for stop().
Wait(w) ==
  /\ At(w, "waiting") /\ replayStart
  /\ Go(w, IF stopRequested THEN "dead" ELSE "reading")
  /\ UNCHANGED <<source, started, cut, caller, subscribers, pipeline>>

\* Mutant: only a live source looks at its subscribers.
SubscribeQuietly ==
  /\ subscribers < MaxSubscribers
  /\ subscribers' = subscribers + 1
  /\ replayStart' = (replayStart \/ mode = "live")
  /\ UNCHANGED <<state, mode, liveOnce, stopRequested, worker, client, threads,
                 caller, pipeline>>

\* subscribe and subscribe_can let a waiting replay begin.
Subscribe ==
  /\ subscribers < MaxSubscribers
  /\ subscribers' = subscribers + 1
  /\ replayStart' = (replayStart \/ mode = "replay")
  /\ UNCHANGED <<state, mode, liveOnce, stopRequested, worker, client, threads,
                 caller, pipeline>>

Unsubscribe ==
  /\ subscribers > 0
  /\ subscribers' = subscribers - 1
  /\ UNCHANGED <<source, threads, caller, pipeline>>

-----------------------------------------------------------------------------
\* What a thread does by itself once its source answers.
Run(w) ==
  \/ Connect(w) \/ Attach(w) \/ Read(w) \/ Record(w) \/ Explore(w) \/ Ingest(w)
  \/ EndOfStream(w) \/ StreamFails(w) \/ CompleteRecording(w) \/ Completed(w)
  \/ Failing(w) \/ Failed(w) \/ Finally(w) \/ Wait(w)

Stop(p) ==
  StopWake(p) \/ StopRead(p) \/ StopClose(p) \/ StopTimesOut(p) \/ StopFinish(p)

Next ==
  \/ \E p \in Callers, n \in 0..MaxFrames :
       Start(p, n) \/ \E wait \in BOOLEAN : StartReplay(p, n, wait)
  \/ \E p \in Callers : StopRequest(p) \/ Stop(p)
  \/ \E w \in Workers : Run(w)
  \/ Subscribe \/ Unsubscribe

Spec == Init /\ [][Next]_vars

\* Threads are scheduled, and a source answers or times out (the gateway socket
\* has a timeout, a session file is finite).
FairSpec ==
  /\ Spec
  /\ \A w \in Workers : WF_vars(Run(w))
  /\ \A p \in Callers : WF_vars(Stop(p))

-----------------------------------------------------------------------------
\* Properties.

Pcs == {"unborn", "connecting", "attach", "waiting", "reading", "record", "explore",
        "ingest", "complete", "completed", "failing", "failed", "finally", "dead"}

TypeOK ==
  /\ state \in States /\ mode \in {"live", "replay"}
  /\ liveOnce \in BOOLEAN /\ stopRequested \in BOOLEAN /\ replayStart \in BOOLEAN
  /\ worker \in Workers \cup {None} /\ client \in Workers \cup {None}
  /\ started \in 0..MaxWorkers
  /\ thread \in [Workers -> [kind : {"none", "live", "replay"}, pc : Pcs,
                             left : 0..MaxFrames, total : 0..MaxFrames]]
  /\ cut \subseteq Workers
  /\ caller \in [Callers -> [pc : {"idle", "wake", "read", "close", "join"},
                             worker : Workers \cup {None}, client : Workers \cup {None}]]
  /\ subscribers \in 0..MaxSubscribers
  /\ explorer \in Seq(Workers) /\ engine \in Seq(Workers) /\ diagnostics \in Seq(Workers)
  /\ recorder \in {"none", "recording", "complete", "incomplete"}

\* A worker that may still take frames in or decide the state.
Busy(w) == thread[w].pc \notin {"unborn", "finally", "dead"}

\* docs/SESSIONS.md: one TelemetryService permits only one active source.  Two
\* workers never feed the pipeline, whatever order starts, stops, join
\* timeouts and ends of streams come in.
OneSource == \A v, w \in Workers : Busy(v) /\ Busy(w) => v = w

\* "stopped" is only reported of a service whose workers have all ended, so
\* nothing is ingested and nothing recorded under it.
StoppedMeansJoined == state = "stopped" => \A w \in Workers : ~Busy(w)

\* Frames of two sources never meet in the explorer or the diagnostic engine,
\* and under a replay not in the telemetry engine either.  (start() leaves the
\* telemetry engine as the previous replay left it.)
SourcesNotMixed ==
  /\ \A i \in DOMAIN explorer : explorer[i] = started
  /\ \A i \in DOMAIN diagnostics : diagnostics[i] = started
  /\ mode = "replay" => \A i \in DOMAIN engine : engine[i] = started

\* "completed" is reported only when every frame of the source has been through
\* the explorer, the telemetry engine and the diagnostic engine and, for a
\* recorded live source, the session has been published.
CompletedMeansAll ==
  state = "completed" =>
    /\ Len(explorer) = thread[started].total
    /\ Len(diagnostics) = thread[started].total
    /\ mode = "replay" => Len(engine) = thread[started].total
    /\ mode = "live" => recorder \in {"none", "complete"}

\* A requested stop ends every worker: one that waits for a subscriber, one
\* that is still connecting, one in the middle of a frame.
StopEndsWorkers ==
  \A w \in Workers : (stopRequested /\ Alive(w)) ~> (~Alive(w) \/ ~stopRequested)

\* A replay that waits for its first subscriber goes on when one comes.
SubscriberStartsReplay ==
  \A w \in Workers : (At(w, "waiting") /\ subscribers > 0) ~> ~At(w, "waiting")
=============================================================================
