---------------------------- MODULE VehicleNetwork ----------------------------
(***************************************************************************)
(* The simulated vehicle network: the fixed-step clock and run states of     *)
(* simulator/src/simulation.cpp and simulation_clock.cpp, the publication    *)
(* schedules of the DME and the DSC (can/src/simulated_dme.cpp,             *)
(* simulated_dsc.cpp, periodic_publication.hpp), the shared bus order        *)
(* (can/src/vehicle_network_simulation.cpp) and the in-memory transport.     *)
(*                                                                         *)
(* A frame is its arbitration ID and its timestamp.  Timestamps are uint64   *)
(* in the code; MaxWord stands for their maximum, so that saturation and     *)
(* the overflow check are reached.  The vehicle's physics is left out: it    *)
(* decides payloads, never when a frame is published.  Pause and resume are  *)
(* operations of VehicleSimulation, open to an owner that drives one beside  *)
(* a VehicleNetworkPublisher, as gateway_sim_main.cpp does;                  *)
(* VehicleNetworkSimulation itself never calls them.                        *)
(***************************************************************************)
EXTENDS Integers, Sequences, FiniteSets

CONSTANTS
  Ids,       \* arbitration IDs of the DME and the DSC
  Optional,  \* those sent only in the wide-open-throttle scenario
  Periods,   \* publication periods a schedule may name
  MaxWord    \* largest timestamp, std::numeric_limits<uint64_t>::max()

ASSUME NetworkAssumption ==
  /\ IsFiniteSet(Ids) /\ Ids \subseteq Nat /\ Optional \subseteq Ids
  /\ MaxWord \in Nat \ {0}
  /\ Periods \subseteq 1..MaxWord

Word == 0..MaxWord

VARIABLES
  period,     \* period[id], for the enabled messages: the publication schedule
  step,       \* fixed_step
  duration,   \* the run's duration
  now,        \* the clock's and the state's timestamp
  paused,     \* the clock's paused_
  runState,   \* SimulationRunState
  due,        \* due[id]: next_..._timestamp_
  transport,  \* the frames of the InMemoryTransport, oldest first
  received    \* history: the frames taken from it since the last reset

configuration == <<period, step, duration>>
vars == <<configuration, now, paused, runState, due, transport, received>>

Enabled == DOMAIN period

\* Mutant: the schedule restarts from the observed time.
AdvanceDueDrifting(next, p, t) == IF p > MaxWord - t THEN MaxWord ELSE t + p

\* Mutant: one period at a time.
AdvanceDueOnce(next, p, t) == IF p > MaxWord - next THEN MaxWord ELSE next + p

\* advance_due_timestamp, with its saturation at the largest word.
AdvanceDue(next, p, t) ==
  LET periods == (t - next) \div p + 1
  IN  IF periods > (MaxWord - next) \div p THEN MaxWord ELSE next + periods * p

\* collect_due_frames of both ECUs at time t with schedule d.
DueAt(d, t) == {id \in Enabled : t >= d[id]}

\* The schedule after the publication at t.
Advanced(d, t) ==
  [id \in Enabled |-> IF id \in DueAt(d, t) THEN AdvanceDue(d[id], period[id], t) ELSE d[id]]

\* A set of arbitration IDs in ascending order.
InOrder(S) ==
  CHOOSE s \in [1..Cardinality(S) -> S] : \A i, j \in DOMAIN s : i < j => s[i] < s[j]

\* The combined frames, sorted by arbitration ID.
Frames(d, t) ==
  LET ids == InOrder(DueAt(d, t)) IN [i \in DOMAIN ids |-> [id |-> ids[i], at |-> t]]

Unscheduled == [id \in Enabled |-> 0]

\* validate_configuration, then the publication of the initial state.
Init ==
  /\ period \in UNION {[enabled -> Periods] : enabled \in {Ids, Ids \ Optional}}
  /\ step \in 1..MaxWord
  /\ duration \in {d \in 1..MaxWord : d % step = 0}
  /\ now = 0 /\ paused = FALSE /\ runState = "running"
  /\ due = Advanced(Unscheduled, 0)
  /\ transport = Frames(Unscheduled, 0)
  /\ received = <<>>

Completed(t) == t = duration

\* VehicleNetworkSimulation::tick: nothing happens while the clock is paused
\* or after completion; the clock throws rather than wrap around.
Tick ==
  /\ ~paused /\ runState # "completed"
  /\ step <= MaxWord - now
  /\ LET t == now + step
     IN  /\ now' = t
         /\ runState' = IF Completed(t) THEN "completed" ELSE "running"
         /\ due' = Advanced(due, t)
         /\ transport' = transport \o Frames(due, t)
  /\ UNCHANGED <<configuration, paused, received>>

Pause ==
  /\ runState # "completed"
  /\ paused' = TRUE
  /\ runState' = "paused"
  /\ UNCHANGED <<configuration, now, due, transport, received>>

Resume ==
  /\ runState = "paused"
  /\ paused' = FALSE
  /\ runState' = "running"
  /\ UNCHANGED <<configuration, now, due, transport, received>>

\* VehicleNetworkSimulation::reset: clock, schedules and transport start over
\* and the initial state is published again.
Reset ==
  /\ now' = 0 /\ paused' = FALSE /\ runState' = "running"
  /\ due' = Advanced(Unscheduled, 0)
  /\ transport' = Frames(Unscheduled, 0)
  /\ received' = <<>>
  /\ UNCHANGED configuration

\* InMemoryTransport::receive; drain is the same until the queue is empty.
Receive ==
  /\ transport # <<>>
  /\ received' = Append(received, Head(transport))
  /\ transport' = Tail(transport)
  /\ UNCHANGED <<configuration, now, paused, runState, due>>

Next == Tick \/ Pause \/ Resume \/ Reset \/ Receive

Spec == Init /\ [][Next]_vars

-----------------------------------------------------------------------------
\* Properties.

TypeOK ==
  /\ period \in [Enabled -> Periods] /\ Enabled \subseteq Ids
  /\ step \in Word /\ duration \in Word /\ now \in Word
  /\ paused \in BOOLEAN /\ runState \in {"running", "paused", "completed"}
  /\ due \in [Enabled -> Word]
  /\ transport \in Seq([id : Ids, at : Word])
  /\ received \in Seq([id : Ids, at : Word])

Bus == received \o transport

\* A tick publishes id when a multiple of its period lies in the step that
\* ends there.  At the largest word the saturated schedule is always due.
OnGrid(id, t) ==
  t = 0 \/ t = MaxWord \/ t \div period[id] # (t - step) \div period[id]

\* The order of the bus: by time, and by arbitration ID among frames of one time.
Precedes(f, g) == f.at < g.at \/ (f.at = g.at /\ f.id < g.id)

\* The incremental schedule, advanced tick by tick whether or not the step
\* divides the period, publishes what the grid of multiples of each period
\* says: no drift and no frame missed, one frame for all multiples of a period
\* that one step spans, each frame once, and all of them in bus order, whatever
\* has been received in between.
OnSchedule ==
  /\ {Bus[i] : i \in DOMAIN Bus} =
       {f \in [id : Enabled, at : 0..now] : f.at % step = 0 /\ OnGrid(f.id, f.at)}
  /\ \A i, j \in DOMAIN Bus : i < j => Precedes(Bus[i], Bus[j])

\* The schedule always points past the clock, by at most a period: the
\* subtraction observed - next_due of unsigned words never wraps around.
DueAhead ==
  \A id \in Enabled :
    /\ due[id] > now \/ due[id] = MaxWord
    /\ due[id] <= now + period[id]
=============================================================================
