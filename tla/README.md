# TunerOS: a TLA+ verification project

TunerOS simulates a vehicle, puts its state on a simulated CAN bus, carries the
frames over TCP to a Python backend, keeps telemetry, diagnostics and a frame
explorer there, records and replays sessions, and streams everything to browser
clients.  This directory models the parts of that chain that keep state and
react to events, checks them with TLC on small instances, and proves most of what
it checks, with TLAPS, for every instance: the subscriber stream, the gateway link,
the diagnostics and the lifecycle they implement, the lifecycle of the sources, the
recording, replay and investigation of a session, the frame pipeline with its CAN
clients, the publication schedule and the browser's telemetry state.

## 1. Inventory

| Part | State it keeps | Operations | What is hard | What makes it correct |
|---|---|---|---|---|
| Simulation and virtual ECUs (`simulator/src/`, `can/src/simulated_dme.cpp`, `simulated_dsc.cpp`, `vehicle_network_simulation.cpp`, `in_memory_transport.cpp`) | clock, run state, next due time per message, frames sent | start, pause, resume, reset, tick, publish due frames | steps that do not divide periods, word-sized time that saturates, calls in unusual orders | frames in bus order, exactly one per message and grid point, nothing after the duration |
| TCP gateway (`can/src/tcp_gateway.cpp`, `gateway_protocol.cpp`, `backend/.../can/gateway.py`) | a byte stream cut anywhere | send records, read records, end | truncation, failure in mid-record | what is received is a prefix of what was sent, and a clean end only at a record boundary |
| Telemetry engine (`telemetry/engine.py`) | latest values, histories, statistics, clock | ingest, reset; latest, history, statistics, snapshot | rejected frames, bounded histories, freshness boundary | every view is a view of one log |
| CAN explorer (`can/explorer.py`) | bounded window, per-message counters | observe, reset; frames, frame, statistics, messages | eviction of a frame of the same message | the counters equal a recount |
| Diagnostic engine (`diagnostics/engine.py`, `rules.py`, `catalog.py`) | a record and two timers per code, a bounded event list | evaluate a snapshot, clear, reset; list codes, list events, summarize | interrupted evidence, zero durations, reoccurrence after clearing | a code is confirmed exactly by continuous evidence, and its record survives what it must survive |
| Telemetry service (`telemetry/service.py`) | source state, worker, recorder, generations of views | start, start_replay, stop, subscribe, the two workers | two threads and several callers, join timeouts, waits without a lock | one source, unmixed views, reported states that are true |
| Broadcasting and WebSockets (`telemetry/service.py`, `api/app.py`) | subscriptions, delivery counter, callbacks, queues, handlers | publish, deliver, receive, send, disconnect | publisher thread, event loop and coroutines share one counter | a contiguous stream, a bounded queue, a publisher that never waits |
| Session recorder, reader, catalog (`session/`) | a partial directory, a frame stream, a manifest, a reader's digest | write, complete, abort, validate, list, stream, replay | failure of any file-system call, kill at any point, files that change after or while they are read | a complete manifest is true, a published artifact can be read, and a replay that completes was the recording |
| Investigation (`investigation/service.py`) | engines and collections of one query | resolve a window, pass over a session, compare with a baseline | both edges of the window, equal timestamps, a center after which no frame follows | the answer is the whole window and nothing else, with the state at its center and the value at every cursor |
| Frontend state (`frontend/lib`, providers) | samples, histories, connection and service state | snapshot, updates, reconnect, replay | updates batched until an animation frame | the view is a prefix of the server's view |

How they interact.  The network is driven by one loop that ticks the simulation
and asks both ECUs for their due frames; the gateway writes them as records.  A
live worker thread of the service reads records and, for each, records it, puts
it into the explorer under the service lock, decodes it and, under the lock
again, updates engine and diagnostics and publishes one update; a replay worker
does the same, without recording, from an artifact.  The
broadcaster hands an update to each subscription with `call_soon_threadsafe`;
the loop runs the delivery; the handler coroutine takes it from an
`asyncio.Queue` and sends it; the CAN handler puts the name of the source on each
event as it sends it.  REST routes read views under the same lock; some answers
are put together from two or three such reads.

## 2. Modules

| Module | Models | Correspondence |
|---|---|---|
| `VehicleNetwork` | `simulator/src/simulation_clock.cpp`, `simulation.cpp`, the ECUs, `vehicle_network_simulation.cpp`, `in_memory_transport.cpp` | `now`, `runState`, `due` are the members of the same meaning; one action per public call |
| `TelemetryEngine` | `telemetry/engine.py` | one operator per query (`LatestOf`, `History`, `Statistics`, `Snapshot`); `log` is a history variable the properties compare the answers with |
| `CanExplorer` | `can/explorer.py`, the length check of `can/decoder.py` | window, counters and queries (`FramesOf`, `FrameAt`, `Statistics`), again against a history log |
| `DiagnosticEngine` | `diagnostics/engine.py` | one record per code; a rule's reading of a snapshot is one of four values (unavailable, clear, band, fault); `Dtcs`, `EventsUpTo` and `Summary` are its queries |
| `DtcLifecycle` | | the abstract specification of the engine and its rules (`DiagnosticEngine`, `MonitoredDiagnostics`): what stands about a code, a pending condition on top of it, confirmations and the freeze frame; no time, no events |
| `DiagnosticRules` | `diagnostics/rules.py`, `catalog.py` | the four condition classes as operators, the catalog's rules as records, its descriptions as predicates on values |
| `MonitoredDiagnostics` | the two together | each rule reads values; the history variable `evidence` says since when each description of a code has held |
| `SubscriberStream` | `TelemetryBroadcaster`, `TelemetrySubscription`, the WebSocket handlers | `Schedule`, `Post`, `RunCallback`, `Take`, `Account`, `Send`: each atomic piece between two lock operations or awaits is an action |
| `ServiceLifecycle` | `TelemetryService` | calls of `stop` are split where the lock is released; workers are numbered records |
| `SessionRecorder` | `session/recorder.py`, the checks of `session/models.py` | the disk and the page cache are separate; every call may fail, the process may be killed |
| `SessionReader` | `session/reader.py`, `catalog.py`, `replay.py`, the replay worker | extends `SessionRecorder`: an artifact is checked, opened and streamed record by record; `Damage`, once per behaviour, changes a record, the length, the header or the manifest before or under the stream |
| `SessionInvestigation` | `investigation/service.py`, `latestAtOrBefore` of the page | extends `SessionReader`: a query of the published artifact, one action per frame of the pass; `log` is a history variable |
| `FramePipeline` | the body of the worker loops of `TelemetryService` | composes `CanExplorer` (by `INSTANCE`) and `TelemetryEngine` (by `EXTENDS`): explorer and engine are fed in two locked sections, a refused frame ends the source between them, and a source that has ended, however, can be followed by a replay |
| `CanFeed` | `can_websocket` of `api/app.py` and its subscription | extends `FramePipeline`: publication, a queue that overflows, the handler that labels and sends; delivery is coarser than in `SubscriberStream` |
| `GatewayStream` | `can/src/tcp_gateway.cpp`, `gateway_sim_main.cpp`, `backend/.../can/gateway.py` | `written` and `read` are byte positions; a record is the position it starts at; `send` and `recv` move any number of bytes; either side may end at any byte |
| `TelemetryClient` | `frontend/lib/telemetry/state.ts`, `telemetry-provider.tsx` | `view` is the reducer's state; one action per socket event, timer, animation frame and effect run; the server side is what `SubscriberStream` promises |
| `CanClient` | `frontend/lib/can/state.ts`, `can-explorer-provider.tsx` | the same for the CAN page, with its bounded waiting queue and its freeze button |
| `ChartHistory` | `appendChartPoint`, `historiesFromSnapshot` | one chart buffer against the samples it was fed |
| `SubscriberStreamProofs`, `MonitoredDiagnosticsProofs`, `ServiceLifecycleProofs`, `SessionProofs`, `CanFeedProofs`, `SimulatorProofs`, `TelemetryClientProofs`, `CanClientProofs` | | the theorems of section 5 |

Which components meet: `FramePipeline` with `CanFeed`, `MonitoredDiagnostics`, and
the chain `SessionRecorder`, `SessionReader`, `SessionInvestigation` are compositions; `TelemetryClient` and
`CanClient` start from the server behaviour that `SubscriberStream` establishes
(a snapshot, every later event, at most one closure); `ServiceLifecycle` holds
the pipeline as sequences of worker numbers and the recorder as a status, whose
details are `FramePipeline` and `SessionRecorder`.  `MonitoredDiagnostics` is also
checked, and proved, to implement `DtcLifecycle` (`ImplementsLifecycle`).

The modules of the components state a type invariant, `TypeOK` or `LinkTypeOK`.
Those of `SubscriberStream`, with the bound of the queue, of `GatewayStream`, with
that of the buffer, and of `CanClient`, with those of its buffers, are theorems;
`MonitoredType` is part of one.

`MC*.tla` only define constant values that a `.cfg` cannot write.  Operators
introduced by "Mutant:" are plausible bugs of the definition that follows them;
nothing in the specifications uses them.

## 3. Runs

| Run | Module, config | Expected | Properties | Shows |
|---|---|---|---|---|
| `dtc_lifecycle` | `MCMonitoredDiagnostics`, `MCMonitoredDiagnostics.cfg` | pass | `ConfirmedRecordKept`, `Timeline`, `EventsExplainStatus`, `ImplementsLifecycle`, `TransitionsAsDescribed` | Two rules of the catalog, one of zero durations, on values at and beside each threshold, through several occurrences with stale inputs, hysteresis, clears, resets and a shared event deque of three: record retention, the event history and the lists and counts the routes give, DTCs that come and go as the catalog describes, and a life of each record that implements the documented lifecycle. |
| `subscriber_stream` | `MCSubscriberStream`, `MCSubscriberStream.cfg` | pass | `OutstandingExact`, `NeverQueueFull`, `ContiguousStream`, `FoundSlowOnlyBehind`, `PublisherReturns`, `EndReachesClient` | A client that reads and one that may stall, publisher thread, event loop and handlers interleaved: exact delivery accounting, room in every queue, contiguous streams, justified disconnections; publication always returns and the reader learns how the source ended. |
| `session_lifecycle` | `MCSessionInvestigation`, `MCSessionInvestigation.cfg` | pass | `CompleteManifestIsTrue`, `ReplayIsRecording`, `WindowExact`, `CenterState`, `CursorExact` | Recording with a failure of any file-system call and a kill at any point; then a list, a replay or any query of the published session, whose files may be changed before or under the reader: a complete manifest is true and can be read, a replay that completes was the recording, and an answer holds the whole window, the diagnostic state of its center and the value at every cursor. |
| `recorder_failure` | `SessionRecorder`, `SessionRecorder_failure.cfg` | violation | `FailureLeavesIncomplete` | A write failure does not always leave an incomplete manifest: when the final flush or fsync fails the manifest stays "recording". |
| `service_sources` | `ServiceLifecycle`, `ServiceLifecycle.cfg` | pass | `OneSource`, `StoppedMeansJoined`, `SourcesNotMixed`, `CompletedMeansAll`, `StopEndsWorkers`, `SubscriberStartsReplay` | One caller starting and stopping live and replay sources with join timeouts, failures and recordings: one source at a time, unmixed, the reported states true; a requested stop ends every worker and a subscriber starts a waiting replay. |
| `service_two_callers` | `ServiceLifecycle`, `ServiceLifecycle_two.cfg` | violation | `OneSource` | With a stop() overlapping a start_replay() of another thread two sources can be active at once. |
| `frame_pipeline` | `MCCanFeed`, `MCCanFeed.cfg` | pass | `ViewsAgree`, `FreshMeansRecent`, `ExplorerExact`, `PagesAgree`, `LabelledBySource` | Frames of two messages and of an unknown ID, undecodable ones and ones that move backward, through the explorer and the telemetry engine to a CAN client that may be too slow, over a source and a replay after it: whatever the routes answer are views of one log, through evictions, failures and stops, the two pages agree, and every event is sent under the name of its source. |
| `vehicle_network` | `VehicleNetwork`, `VehicleNetwork.cfg` | pass | `OnSchedule`, `DueAhead` | Every step, period and duration up to a word of nine, paused, resumed and reset: publication exactly on the grid, each frame once and in bus order, up to due times that saturate. |
| `telemetry_client` | `MCTelemetryClient`, `MCTelemetryClient.cfg` | pass | `ViewIsPrefixOfOneSource`, `NoFalseStreamWarning`, `ConvergesToFinalView` | A page through a replay after another source, with connections lost, refused and retried, late close events and slow animation frames: what it shows is always one prefix of one source, and it comes to show the last frame of a source that ended. |
| `chart_sampling` | `ChartHistory`, `ChartHistory_sampling.cfg` | violation | `SamplesRepresented` | A signal sampled faster than the interval never gets a second chart point: each sample replaces the one before. |
| `can_client` | `MCCanClient`, `MCCanClient.cfg` | pass | `BufferIsNewestWindow`, `PassedFramesExact`, `CleanEndShowsAll` | A page of three frames with bursts that overflow its waiting queue, freezes at any moment and lost connections: the buffer stays the newest window and the frozen count exact. |
| `gateway` | `GatewayStream`, `GatewayStream.cfg` | pass | `FramesArePrefix`, `CleanEndIsWhole`, `TruncationIsReal`, `ClientEndsAfterServer` | Three records sent and received in pieces of any size, with failures, resets and closes at any byte: framing, clean ends and truncations, and an end for the reader once the simulator has gone. |

`violation` runs state what a document of the repository says and show that the
code does otherwise; the findings in `PROJECT.json` quote the lines.

### Bounds

Each bound is the smallest at which every branch of the component is taken with
something before and after it.

* `MonitoredDiagnostics`: two rules, one with durations of one time unit and one
  with durations of zero, values at and beside each threshold, a false context and
  missing inputs, six snapshots and three times, so that a code is pending,
  confirmed, recovering, historical, cleared and confirmed again, and an event
  deque of three that both rules fill and that evicts.
* `SubscriberStream`: two clients, one of which need not read, a queue of two and
  three events: a client can be full, drain, or be found slow, while the
  other goes on, is disconnected or closes.
* `ServiceLifecycle`: three workers let a source follow one that followed
  another; a source has no frame or one, so that it can be stopped before, in the
  middle of and after a frame.
* `SessionRecorder`, `SessionReader`, `SessionInvestigation`: three records and three
  times, so that times may repeat and differ; one change of the published files, to
  any record, the length, the header or a field of the manifest, at any point
  before or within the pass; two signals of which one may be selected, windows of up
  to three time units, which can cover the session or stop short of either end, and
  a limit of two raw frames, which a window can reach and exceed.  No operation
  tells one signal from another, so the two are symmetric.
* `FramePipeline`, `CanFeed`: two messages with one and two signals and an unknown
  ID, right and wrong lengths, histories and a window of two, four frames between
  resets: everything is evicted at least twice, also by a frame of the same
  message.  The times 0, 2 and 5 differ by exactly two of the shorter period, by
  less and by more, and for the longer period by less and by more.  A queue of one
  and one replay after the live source: a client can be full, be found slow, and
  hold an event when the source changes.
* `VehicleNetwork`: all steps, durations and period pairs from {1, 2, 3, 5} below
  a word of nine, so that due times reach the saturation.
* `GatewayStream`: three records at the real sizes of header and record.
* `TelemetryClient`: a source and a replay of up to three frames of two messages,
  two lost or refused connections.
* `CanClient`: a buffer and a waiting queue of three, eight frames: each can
  overflow twice.
* `ChartHistory`: periods from a fifth of the sampling interval to twice it.

Deadlock checking is off only where the system may rightly stop: all events
published and every connection closed (`SubscriberStream`), an artifact
published or abandoned, read, replayed, or its query answered (`SessionRecorder`,
`SessionInvestigation`), the bounded number of sources used
up (`ServiceLifecycle`, `TelemetryClient`, `CanFeed`, where the client of a stopped
service then waits), the source and its connection over
(`CanClient`), both ends of the link gone (`GatewayStream`), the bound on time
reached (`ChartHistory`).

### Behaviour met on the way

Differences between a document and the code, and gaps in it, that are in the models
but are not runs of their own:

* A page that starts a replay after a completed source goes on showing
  "completed" while it takes in the replay's updates: `start_replay` publishes
  `RUNNING` when nobody is subscribed, and a snapshot carries no service state
  (`OnReplay`, `OnSnapshot` of `TelemetryClient`; docs/FRONTEND.md:169).
* The CAN page reports forward gaps (docs/FRONTEND.md:98-99), but none before its
  first frame, when no sequence number is expected yet (`ApplyFrame` of
  `CanClient`).
* A client that connects to a stopped service is not told so (only completion and
  failure are), its handler waits on the queue alone and does not notice that the
  client has gone, and the subscription keeps `start_replay` out.
  `EndReachesClient` is about sources that complete or fail.
* A CAN client that was found too slow is no subscriber any more, but its handler
  goes on with the queue until the loop has run the disconnection: if a replay is
  started just then, an old frame is sent under the new name.  `LabelledBySource`
  excepts exactly this client.
* `/can/statistics` and `/diagnostics` read values and source status in separate
  locked sections (docs/DECISIONS.md:56 speaks of coherent views).
* If the answer to an accepted replay request is lost, the page does not reconnect
  and the replay waits for a subscriber; `ConvergesToFinalView` excludes this case.

## 4. Fairness

`SubscriberStream`'s `FairSpec` gives weak fairness to the publisher's own steps
(a thread that holds no lock another thread waits on), to the event loop's
callbacks and to the local steps of each handler (asyncio runs ready callbacks
in order), and to the sends of `Responsive` clients only: a peer that has
stopped reading may never let a send finish.  Publishing new events is not fair,
nor is subscribing, disconnecting or closing the loop.  `ServiceLifecycle`'s
`FairSpec` is weakly fair in the steps of worker threads and of calls under way
and in nothing a user decides.  Its connection attempts end because the code
gives them a timeout.

`TelemetryClient`'s `FairSpec` is weakly fair in the server accepting a
connection, in the delivery of socket events in order, in the retry timer, in the
answer to a replay request and in the effect that follows it: the browser's event
loop runs them all.  It is not fair in animation frames, which a hidden page is
never given.  `GatewayStream`'s `FairLinkSpec` only has the client read what has
arrived; nothing is assumed of the simulator.  The other specifications state safety
only.

## 5. Proofs

Every theorem holds for every value of the constants that the module's `ASSUME`s
admit; each assumption is what the code guarantees of a configuration (capacities
at least one, times and counts natural numbers, finitely many clients, codes, CAN
IDs, and signals in a message).  Each proof follows one pattern: an inductive
invariant that says what the property leaves unsaid, one lemma per action that it
is kept, and the properties as its consequences.  TLC checked each of these
invariants on the module's run before it was proved.

### Subscriber stream

Assumed: `Clients` is finite, `Responsive` a subset of it, `Capacity` a
positive natural, `MaxEvents` a natural.

`TypeOK` is not inductive with the queue bound it contains, and neither is
`OutstandingExact` alone.  `AccountingInv` adds what the threads have in hand:
an event counted and not yet posted, one being accounted for, callbacks in
flight and queued items; with it each step changes both sides of the equation by
the same amount.  From it follow

* `TypeCorrect`: `Spec => []TypeOK`;
* `DeliveriesExact`: the shared counter equals the events on their way, and
  never exceeds the capacity;
* `RoomForDelivery`: `put_nowait` in a loop callback never meets a full queue of
  an active subscription, so no event is lost in a callback whose exception
  nobody would see.

`StreamInv` describes, for each client, the concatenation of what was sent, what
is in hand, what is queued, what is in flight and what is still to be posted: it
is an interval of the stream that starts after the snapshot, reaches the newest
event as long as the subscription is active and the publisher is between events,
and may be cut by one closure at the end.  From it follow

* `StreamContiguous`: no gap, repetition or reordering in what a client is sent;
* `SlowMeansBehind`: a client is disconnected as slow only if it really is more
  than the capacity behind.

### Gateway

For the link, `SimulatorProofs` assumes only that `MaxRecords` is a natural number.  None of
the three properties is inductive: none says where in the stream the buffer of
`_read_exact` stands.  Its `StreamInv` adds that the bytes read are the header,
the records yielded and the buffer, that a simulator that is done has written the
whole run, and that the two ends are justified.  From it follow

* `GatewayTypes`: `LinkSpec => []LinkTypeOK`, the bound of the buffer included;
* `PrefixYielded`: the frames yielded are the first frames sent, however the
  bytes were cut;
* `CleanEnd`: a clean end means that all that was written has been yielded;
* `TruncationMeansFailure`: a truncation is reported only of a failed run.

### Diagnostics

`MonitoredDiagnosticsProofs` assumes of the constants only that `Catalog` lists
distinct codes of the default catalog, that durations are natural numbers and that
snapshots give integers.  `ThresholdsAsDescribed` shows, class by class, that the
conditions of `rules.py` on the constants of `catalog.py` are what the catalog's
texts say; it gives

* `ReadingAsDescribed`: a fresh reading is a fault exactly where the activation
  description holds and clear exactly where the recovery description holds, and
  never both.

`TransitionsAsDescribed` is not inductive: it speaks of durations, while the
engine's steps look at timers.  `CodeInv` ties the two for each code: the
confirmation timer of a code that is not active is the time since which its
activation description has held, the recovery timer of an active one the time
since which its recovery description has, each is unset when the description does
not hold, and neither has run for its duration yet, because the snapshot in which
it does is the one that makes the transition.  From it follow

* `EvidenceKept`: `CodeInv` always holds, for every code;
* `AsDescribed`: the statuses change exactly as the catalog describes.

On top of these, `MonitoredSpec` implements `DtcLifecycle`.  The mapping hides a pending condition under what stands about the
code, so a condition that normalizes must leave the record as it was; `LifeInv`
says why it does: a record that stands at nothing was never confirmed, a record
that was never confirmed has no freeze frame, and a pending condition never rests
on an active code.  Each evaluation then keeps, confirms or recovers one record
(`EvaluationLives`), which is a step of the lifecycle (`RecordStep`):

* `LifecycleImplemented`: `MonitoredSpec => ImplementsLifecycle`.

Two more invariants concern the record alone (`RecordInv`): what stands about a
code determines which timestamps it has, and they are dated in the order of its
life.  From it follow

* `ConfirmedRecordKeptHolds`: an action property.  In no step but `reset()` does a
  record that was confirmed lose its first detection, its freeze frame or the time
  of its last confirmation, and its count grows by one just when the DTC becomes
  active.  `EvaluationRetains` shows it of one evaluation: the only step that drops
  a record is a retraction to nothing, and what stands at nothing was never confirmed;
* `TimelineHolds`: no timestamp is left over from an earlier occurrence.

`EventsInv` is about the retained events as a sequence: numbered up to the next
number, in time order, and such that the next event of a code starts where the one
before ended and the last one ends at the record.  It survives eviction because it
looks only forward from an event, and holds of the whole story while nothing has
been evicted.  Each step appends at most two events that lead from the record before
to the record after (`TellAll`), the detection and the confirmation of an immediate
confirmation included.  From it follows

* `EventsExplainStatusHolds`: the lists and the summary explain the statuses.

### Sources of the telemetry service

`OneSource` does not hold of `ServiceLifecycle` as it stands: the run
`service_two_callers` finds the interleaving of a `stop()` with a `start_replay()`
that starts a second worker.  The theorems therefore state what it takes:
`StopsAlone`, an action formula, says that no source is started while a `stop()`
is under way and that two `stop()`s do not overlap.  Starts may come from any
number of threads.  This is how `api/app.py` uses the service: the lifespan stops
it once, after the last request has been served, and the only other caller,
the replay route, only starts.  Each theorem has the form
`Spec /\ [][StopsAlone]_vars => []P`; a service called by one thread satisfies
the hypothesis, so what the run `service_sources` explores is an instance of it.

`ServiceInv`: what `stop()` has read is what the service still refers to
(`CallInv`), and a worker that has not ended is the last one started, is referred
to, and shows in the state until it has made its last decision (`SourceInv`).
`CountInv` adds how many frames of that worker are in the pipeline at each of its
steps.

* `ServiceTypes`: `Spec => []TypeOK`, without the hypothesis;
* `OneSourceHolds`, `StoppedMeansJoinedHolds`;
* `SourcesNotMixedHolds`: nothing of an earlier source is left in the pipeline;
* `CompletedMeansAllHolds`: completion is reported of a whole source only, and of
  a recorded one with its session published.

### Sessions

`SessionProofs` is about `InvestigationSpec`, hence about recorder, reader and
query together.  It assumes that the signals are finitely many and the limits
natural numbers.  None of the five properties is inductive.  `MemoryInv` and
`DiskInv` say which manifest may be on disk at which point of the recorder's
program and that `complete` is only ever written over a closed and synced file;
`ArtifactInv` what is left of that after one change on disk; `ReaderInv` that a
manifest the reader has accepted has the digest of what was recorded, and that
what it has digested and what it has not add up to the file; `ScanInv` that the
answer collected so far is the exact answer for the frames read so far.

* `SessionInvariant`: the invariant;
* `CompleteManifestIsTrueHolds`, `ReplayIsRecordingHolds`;
* `WindowExactHolds`, `CenterStateHolds`, `CursorExactHolds`.

The digest is modelled by the sequence it is of: that no two sequences have one
SHA-256 is an assumption of the model.

### Frame pipeline and CAN clients

`CanFeedProofs` assumes that no signal belongs to two messages, periods are
positive and capacities at least one.  `EngineInv` ties latest values, histories
and counters, which the engine keeps apart, to one log, by naming for each signal
the positions at which it was updated.  `ExplorerInv` does the same for the
explorer: `WindowInv` says that the window is the newest part of what was seen and
that sequence numbers count it, `CountersInv` that each incremental counter, the one
eviction decrements included, is the number of positions a recount would find.
`AgreeInv` says that the explorer is a frame ahead while a frame is decoded, and stays so when it is
refused; `FeedInv` that whoever still holds events of a source keeps a replay from
starting.

* `FeedInvariant`: the invariant;
* `ViewsAgreeHolds`, `FreshMeansRecentHolds`, `ExplorerExactHolds`, `PagesAgreeHolds`;
* `LabelledBySourceHolds`.

### Publication schedule

For the network, `SimulatorProofs` assumes finitely many CAN IDs and periods of at least one
and at most the largest word.  `DueInv`: the due time, which the ECUs advance
incrementally and which saturates, is the next multiple of the period after the
clock, cut at the largest word (`AdvanceToNext`).  The frames on the bus are the
multiples of the periods up to the clock, one frame for all the multiples that
one step spans, and they lie on it in order: a tick appends frames of one later
time, ascending by ID (`BusInv`).

* `NetworkInvariant`: the invariant;
* `DueAheadHolds`: `observed - next_due` never wraps;
* `OnScheduleHolds`: what the bus has carried, frame by frame: one per message and
  step that reaches a multiple, none twice, by time and arbitration ID.

### Browser

`TelemetryClientProofs` assumes that frames carry known messages and the bounds
are natural numbers, at least one source.  `ClientInv`: the view is the engine's
view of one source after some frame (`ViewAt`), the queued updates continue there
(`Follows`), and what the socket has yet to deliver continues behind them, unless
a snapshot comes first, and then nothing is queued (`Stream`).  Applying the whole
queue is a recursive function; what it computes is proved by counting up to the
first index at which it could differ (`FlushShows`).

* `ClientInvariant`: the invariant;
* `ViewIsPrefixOfOneSourceHolds`, `NoFalseStreamWarningHolds`.

`CanClientProofs` assumes a capacity of at least one and an ID for every frame.
`CanInv`: the waiting frames are consecutive up to the newest one received
(`Taken`), and start right behind the last one shown unless the queue has
overflowed, and then it is as long as the buffer (`PendingInv`).  So a flush leaves
the newest window either way (`WindowGrows`) and counts every frame that went by
(`FlushStep`).  `ConnectionInv` says what the socket still carries: frames that
continue `Taken`, then the end, or nothing but the close of a lost connection; the
clean end is the one where all of them have come.

* `InvariantHolds`: the invariant; `CanClientTypesHold`: its types;
* `BufferIsNewestWindowHolds`, `PassedFramesExactHolds` (a view frozen before its
  first frame whose queue has overflowed excepted), `CleanEndShowsAllHolds`.

### Only model-checked

Every liveness property (`PublisherReturns`, `EndReachesClient`,
`StopEndsWorkers`, `SubscriberStartsReplay`, `ConvergesToFinalView`,
`ClientEndsAfterServer`): the prover has no reasoning about fairness.
Every safety and action property of a passing run is a theorem.  The violated ones
(`FailureLeavesIncomplete`, `SamplesRepresented`, and `OneSource` with two callers)
are refuted by TLC; of these, `OneSource` is a theorem under the hypothesis that
calls do not overlap.

## 6. Not modelled

* Vehicle network simulation (partly): Clock, run states, schedules, bus order and transport; payloads and physics are left out.
* Simulator physics, scenarios and drivetrain (not modelled): Floating-point evolution of the vehicle state: no discrete protocol to check.
* Fault injection (not modelled): Activation windows and sensor overlays; planned.
* CAN frame encoding and DBC decoding (partly): Which frames decode (known ID, exact length) and which records are refused; the bit-level encodings, delegated to cantools on the Python side, and the C++ encoders are left out.
* REST and WebSocket API (partly): The telemetry handler is in SubscriberStream, the CAN handler with its source label in CanFeed, what REST routes answer in the query operators of the engines; Pydantic models, validation of parameters and the wording of errors are left out.
* Calibration catalog (not modelled): An immutable table.
* Investigation (partly): The query, its checks and its one pass over a session, and the baseline of a comparison; the numeric summaries and the exported report are left out.
* Diagnostics and investigation clients (partly): The look-up of the value at the cursor; polling and request effects with answers that may arrive out of order are planned.
* Frontend API client and validation (not modelled): Stateless fetches and shape checks of JSON.
* Frontend views (not modelled): React rendering and layout.

## 7. Plan

Order of work, most important behaviour first.  Done: `SubscriberStream` with
its proofs, `DiagnosticEngine` with `DiagnosticRules` and their proofs,
`ServiceLifecycle`, `SessionRecorder` with `SessionReader` and
`SessionInvestigation`, `TelemetryEngine`, `CanExplorer` and their composition
`FramePipeline` with `CanFeed`, the abstract `DtcLifecycle` and its refinement,
`VehicleNetwork`, `GatewayStream`, `TelemetryClient` and `CanClient` with their
proofs, `ChartHistory`.

Next, in this order:

1. An abstract stream (each client sees an interval of the log) that
   `SubscriberStream` implements, and `TelemetryClient` over it.
2. The encoders of both sides, composed with `GatewayStream`; fault injection
   (`faults.cpp`) composed with `VehicleNetwork`.
3. The request effects of the session browser, diagnostics and investigation
   pages, whose answers may arrive out of order.

Components that interact are to be checked together, as in `FramePipeline`, rather
than each by a run of its own.
