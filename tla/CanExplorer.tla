----------------------------- MODULE CanExplorer -----------------------------
(***************************************************************************)
(* The bounded window of raw frames and the per-message statistics of        *)
(* backend/src/tuneros/can/explorer.py.                                     *)
(*                                                                         *)
(* The explorer sees every frame the source yields, before it is decoded     *)
(* for telemetry: unknown IDs, undecodable payloads and timestamps that      *)
(* move backward are all observed.  A frame is abstracted to its ID, its     *)
(* timestamp and its payload length, which decides whether it decodes.      *)
(* The filters of a query (arbitration ID, message name, ECU) are each a set *)
(* of IDs.                                                                 *)
(***************************************************************************)
EXTENDS Integers, Sequences, FiniteSets, FiniteSetsExt, SequencesExt

CONSTANTS
  Ids,        \* arbitration IDs that frames carry
  KnownIds,   \* the IDs the DBC defines
  Size,       \* Size[id]: payload length of each of them
  Lengths,    \* payload lengths that frames carry
  Capacity,   \* maxlen of the frame deque
  Time,       \* bound: the timestamps frames carry
  MaxFrames   \* bound: frames observed between resets

Frames == [sequence : Nat, id : Ids, at : Time, dlc : Lengths, status : {"decoded", "unknown", "error"}]

VARIABLES
  frames,     \* the retained frames, oldest first
  messages,   \* messages[id]: the statistics of each ID seen
  next,       \* _next_sequence
  log         \* history: every frame observed since the last reset

vars == <<frames, messages, next, log>>

None == -1
Unseen == [retained |-> 0, total |-> 0, first |-> None, latest |-> None, dlc |-> None]

Init ==
  /\ frames = <<>>
  /\ messages = [id \in Ids |-> Unseen]
  /\ next = 0
  /\ log = <<>>

\* TunerOsDbcDecoder.decode, which raises unless the length is the message's.
Decodes(id, dlc) == id \in KnownIds /\ dlc = Size[id]

DecodeStatus(id, dlc) ==
  IF id \notin KnownIds THEN "unknown" ELSE IF Decodes(id, dlc) THEN "decoded" ELSE "error"

\* Mutant: the frame pushed out of the deque stays counted.
EvictUncounted(stats) == stats

\* The bookkeeping before the append that evicts the oldest frame.
Evict(stats) ==
  IF Len(frames) = Capacity THEN [stats EXCEPT ![Head(frames).id].retained = @ - 1]
  ELSE stats

\* _update_message
Count(stats, id, t, dlc) ==
  [stats EXCEPT ![id] = [retained |-> @.retained + 1, total |-> @.total + 1,
                         first |-> IF @.total = 0 THEN t ELSE @.first, latest |-> t,
                         dlc |-> dlc]]

\* A deque with maxlen.
Push(frame) == Append(IF Len(frames) = Capacity THEN Tail(frames) ELSE frames, frame)

Ingest(id, t, dlc) ==
  /\ next < MaxFrames
  /\ LET frame == [sequence |-> next, id |-> id, at |-> t, dlc |-> dlc,
                   status |-> DecodeStatus(id, dlc)]
     IN  frames' = Push(frame) /\ log' = Append(log, frame)
  /\ messages' = Count(Evict(messages), id, t, dlc)
  /\ next' = next + 1

Reset ==
  /\ frames' = <<>>
  /\ messages' = [id \in Ids |-> Unseen]
  /\ next' = 0
  /\ log' = <<>>

Next ==
  \/ \E id \in Ids, t \in Time, dlc \in Lengths : Ingest(id, t, dlc)
  \/ Reset

Spec == Init /\ [][Next]_vars

-----------------------------------------------------------------------------
\* Queries.

\* The last n of a sequence, or all of it.
Newest(s, n) == SubSeq(s, Len(s) - Min({n, Len(s)}) + 1, Len(s))

\* The frames that pass the filters of a query.
Passing(s, ids) == SelectSeq(s, LAMBDA frame : frame.id \in ids)

\* frames(limit, filters).
FramesOf(limit, ids) == Newest(Passing(frames, ids), limit)

\* frame(sequence); None is the 404 of the route.
FrameAt(sequence) ==
  LET found == {i \in DOMAIN frames : frames[i].sequence = sequence}
  IN  IF found = {} THEN None ELSE frames[Min(found)]

Statistics ==
  [retained |-> Len(frames), total |-> next,
   unique |-> Cardinality({id \in Ids : messages[id] # Unseen}),
   oldest |-> IF frames = <<>> THEN None ELSE Head(frames).at,
   newest |-> IF frames = <<>> THEN None ELSE Last(frames).at,
   last |-> IF next = 0 THEN None ELSE next - 1]

\* _freeze_message; the average period is span divided by gaps, and there is no
\* frequency without a positive one.
MessageStatistics(id) ==
  LET m == messages[id]
  IN  [retained |-> m.retained, total |-> m.total, dlc |-> m.dlc,
       span |-> IF m.total >= 2 THEN m.latest - m.first ELSE None,
       gaps |-> IF m.total >= 2 THEN m.total - 1 ELSE None,
       frequency |-> m.total >= 2 /\ m.latest > m.first]

-----------------------------------------------------------------------------
\* Properties.

TypeOK ==
  /\ frames \in Seq(Frames) /\ Len(frames) <= Capacity
  /\ messages \in [Ids -> [retained : Nat, total : Nat, dlc : Lengths \cup {None},
                           first : Time \cup {None}, latest : Time \cup {None}]]
  /\ next \in Nat

\* The positions in the log of the frames of one ID.
Positions(id) == {i \in DOMAIN log : log[i].id = id}

\* Every query answers from the newest frames of all that were observed: a list
\* holds the last ones that pass its filters, up to its limit, and a frame is
\* found under its number until it has been evicted, and never another one.
QueriesOfLog ==
  /\ \A limit \in 1..(Capacity + 1), ids \in SUBSET Ids :
       FramesOf(limit, ids) = Newest(Passing(Newest(log, Capacity), ids), limit)
  /\ \A n \in 0..next :
       FrameAt(n) = IF n < next /\ n >= next - Capacity THEN log[n + 1] ELSE None

\* The statistics, kept up to date frame by frame and through every eviction,
\* say what a recount of the log and of its newest part would say.
StatisticsAgree ==
  /\ Statistics.total = Len(log)
  /\ Statistics.retained = Min({Len(log), Capacity})
  /\ Statistics.unique = Cardinality({log[i].id : i \in DOMAIN log})
  /\ log # <<>> =>
       /\ Statistics.newest = Last(log).at /\ Statistics.last = Last(log).sequence
       /\ Statistics.oldest = Head(Newest(log, Capacity)).at
  /\ \A id \in Ids :
       LET all == Positions(id)
           of == MessageStatistics(id)
       IN  /\ of.retained = Cardinality({i \in all : i > Len(log) - Capacity})
           /\ of.total = Cardinality(all)
           /\ all # {} => of.dlc = log[Max(all)].dlc
           /\ Cardinality(all) >= 2 => of.span = log[Max(all)].at - log[Min(all)].at
=============================================================================
