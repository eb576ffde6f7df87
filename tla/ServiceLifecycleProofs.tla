------------------------ MODULE ServiceLifecycleProofs ------------------------
(***************************************************************************)
(* One source at a time, for a service whose stop() overlaps no other start  *)
(* or stop: any number of callers, workers, frames and subscribers.         *)
(*                                                                         *)
(* The argument: the reference _worker and the state are read and written by *)
(* different sections of stop(), but nobody else starts a source meanwhile,  *)
(* so what stop() joins is what it forgets (CallInv).  Hence a worker that    *)
(* has not ended is the last one started, the service still refers to it, and *)
(* its state says so until the worker has made its last decision (SourceInv). *)
(* The frames of that worker are then the only ones in the pipeline, and     *)
(* where it stands in its loop tells how many of them (CountInv).            *)
(***************************************************************************)
EXTENDS ServiceLifecycle, TLAPS

\* As api/app.py calls it: the lifespan stops the service once, when no request
\* that starts a replay is served any more.  Starts of different threads may
\* come in any order.  Without this OneSource does not hold: that is the run
\* service_two_callers.
StopsAlone ==
  /\ started' # started => \A p \in Callers : caller[p].pc = "idle"
  /\ \A p, q \in Callers : p # q => caller'[p].pc = "idle" \/ caller'[q].pc = "idle"

Kinds == {"none", "live", "replay"}
Threads == [kind : Kinds, pc : Pcs, left : 0..MaxFrames, total : 0..MaxFrames]
Calls == [pc : {"idle", "wake", "read", "close", "join"},
          worker : Workers \cup {None}, client : Workers \cup {None}]

\* One call of stop at a time.
SerialInv ==
  \A p, q \in Callers : p # q => caller[p].pc = "idle" \/ caller[q].pc = "idle"

\* What stop() has read is what the service still refers to.
CallInv ==
  \A p \in Callers : caller[p].pc \in {"close", "join"} => caller[p].worker = worker

\* Which steps belong to which kind of worker.
KindInv ==
  \A w \in Workers :
    /\ w > started => thread[w].pc = "unborn"
    /\ thread[w].pc # "unborn" => thread[w].kind \in {"live", "replay"}
    /\ thread[w].kind = "live" => liveOnce
    /\ thread[w].pc \in {"connecting", "attach", "record", "complete", "finally"} =>
         thread[w].kind = "live"

SourceInv ==
  \A w \in Workers :
    /\ Alive(w) => w = started /\ worker = w
    /\ Busy(w) => state \in {"connecting", "running"} /\ thread[w].kind = mode

\* How many frames of the worker that is busy are in the pipeline.
Progress(w) ==
  LET read == thread[w].total - thread[w].left
      pc == thread[w].pc
  IN  /\ pc \in {"connecting", "attach", "waiting", "reading"} =>
           Len(explorer) = read /\ Len(diagnostics) = read
      /\ pc \in {"record", "explore"} =>
           Len(explorer) = read - 1 /\ Len(diagnostics) = read - 1
      /\ pc = "ingest" => Len(explorer) = read /\ Len(diagnostics) = read - 1
      /\ pc \in {"complete", "completed"} =>
           Len(explorer) = thread[w].total /\ Len(diagnostics) = thread[w].total
      /\ pc = "completed" /\ thread[w].kind = "live" => recorder \in {"none", "complete"}

CountInv ==
  /\ \A w \in Workers : Progress(w)
  /\ mode = "replay" => Len(engine) = Len(diagnostics)

ServiceInv == SerialInv /\ CallInv /\ KindInv /\ SourceInv

-----------------------------------------------------------------------------
\* Types.

\* Moving a thread changes its place only.
LEMMA GoMoves ==
  ASSUME TypeOK, NEW w \in Workers, NEW pc \in Pcs, Go(w, pc)
  PROVE  /\ thread' \in [Workers -> Threads]
         /\ thread'[w] = [thread[w] EXCEPT !.pc = pc]
         /\ thread'[w].pc = pc /\ thread'[w].kind = thread[w].kind
         /\ thread'[w].left = thread[w].left /\ thread'[w].total = thread[w].total
         /\ \A v \in Workers \ {w} : thread'[v] = thread[v]
<1>1. thread \in [Workers -> Threads]
  BY DEF TypeOK, Threads, Kinds
<1>2. thread[w] \in Threads
  BY <1>1
<1>3. [thread[w] EXCEPT !.pc = pc] \in Threads
  BY <1>2 DEF Threads
<1>4. thread' = [thread EXCEPT ![w] = [thread[w] EXCEPT !.pc = pc]]
  BY <1>1 DEF Go
<1>5. QED
  BY <1>1, <1>2, <1>3, <1>4 DEF Threads

\* Read takes a frame and moves.
LEMMA ReadMoves ==
  ASSUME TypeOK, NEW w \in Workers, Read(w)
  PROVE  /\ thread' \in [Workers -> Threads]
         /\ thread'[w].pc = IF stopRequested THEN AfterEnd(w)
                            ELSE IF thread[w].kind = "live" THEN "record" ELSE "explore"
         /\ thread'[w].kind = thread[w].kind
         /\ thread'[w].left = thread[w].left - 1 /\ thread'[w].total = thread[w].total
         /\ \A v \in Workers \ {w} : thread'[v] = thread[v]
<1> DEFINE pc == IF stopRequested THEN AfterEnd(w)
                 ELSE IF thread[w].kind = "live" THEN "record" ELSE "explore"
           r == [thread[w] EXCEPT !.left = thread[w].left - 1, !.pc = pc]
<1>1. thread \in [Workers -> Threads]
  BY DEF TypeOK, Threads, Kinds
<1>2. thread[w] \in Threads /\ thread[w].left > 0
  BY <1>1 DEF Read
<1>3. pc \in Pcs
  BY DEF AfterEnd, Pcs
<1>4. thread[w].left - 1 \in 0..MaxFrames
  BY <1>2, LifecycleAssumption DEF Threads
<1> HIDE DEF pc
<1>5. r \in Threads /\ r.pc = pc /\ r.kind = thread[w].kind
      /\ r.left = thread[w].left - 1 /\ r.total = thread[w].total
  BY <1>2, <1>3, <1>4 DEF Threads
<1>6. thread' = [thread EXCEPT ![w] = r]
  <2> USE DEF pc
  <2>1. QED
    BY <1>1 DEF Read
<1> HIDE DEF r
<1>7. QED
  BY <1>1, <1>5, <1>6 DEF pc

\* What every step of a worker does to the threads, and what it leaves alone.
Moves(w) ==
  /\ thread' \in [Workers -> Threads]
  /\ Alive(w) /\ thread'[w].pc # "unborn"
  /\ thread'[w].kind = thread[w].kind /\ thread'[w].total = thread[w].total
  /\ \A v \in Workers \ {w} : thread'[v] = thread[v]
  /\ UNCHANGED <<mode, liveOnce, stopRequested, replayStart, worker, started, caller,
                 subscribers>>

LEMMA RunMoves ==
  ASSUME TypeOK, NEW w \in Workers, Run(w)
  PROVE  Moves(w)
<1> USE DEF Moves, At, Alive, source, pipeline
<1>p. /\ {"attach", "failing", "finally", "reading", "record", "explore", "ingest",
           "complete", "completed", "failed", "dead"} \subseteq Pcs \ {"unborn"}
      /\ AfterEnd(w) \in {"finally", "dead"}
  BY DEF Pcs, AfterEnd
<1>1. CASE Connect(w)
  BY <1>1, <1>p, GoMoves DEF Connect
<1>2. CASE Attach(w)
  BY <1>2, <1>p, GoMoves DEF Attach
<1>3. CASE Read(w)
  BY <1>3, <1>p, ReadMoves DEF Read
<1>4. CASE Record(w)
  BY <1>4, <1>p, GoMoves DEF Record
<1>5. CASE Explore(w)
  BY <1>5, <1>p, GoMoves DEF Explore
<1>6. CASE Ingest(w)
  BY <1>6, <1>p, GoMoves DEF Ingest
<1>7. CASE EndOfStream(w)
  BY <1>7, <1>p, GoMoves DEF EndOfStream
<1>8. CASE StreamFails(w)
  BY <1>8, <1>p, GoMoves DEF StreamFails
<1>9. CASE CompleteRecording(w)
  BY <1>9, <1>p, GoMoves DEF CompleteRecording
<1>10. CASE Completed(w)
  BY <1>10, <1>p, GoMoves DEF Completed
<1>11. CASE Failing(w)
  BY <1>11, <1>p, GoMoves DEF Failing
<1>12. CASE Failed(w)
  BY <1>12, <1>p, GoMoves DEF Failed
<1>13. CASE Finally(w)
  BY <1>13, <1>p, GoMoves DEF Finally
<1>14. CASE Wait(w)
  BY <1>14, <1>p, GoMoves DEF Wait
<1>15. QED
  BY <1>1, <1>2, <1>3, <1>4, <1>5, <1>6, <1>7, <1>8, <1>9, <1>10, <1>11, <1>12, <1>13,
     <1>14 DEF Run

\* What a step of a worker may do to the rest.
LEMMA RunTypes ==
  ASSUME TypeOK, NEW w \in Workers, Run(w)
  PROVE  TypeOK'
<1>1. Moves(w)
  BY RunMoves
<1>2. /\ state' \in States /\ client' \in Workers \cup {None} /\ cut' \subseteq Workers
      /\ recorder' \in {"none", "recording", "complete", "incomplete"}
  BY DEF TypeOK, Run, Connect, Attach, Read, Record, Explore, Ingest, EndOfStream,
         StreamFails, CompleteRecording, Completed, Failing, Failed, Finally, Wait, Aborted,
         source, pipeline, States
<1>3. explorer' \in Seq(Workers) /\ engine' \in Seq(Workers) /\ diagnostics' \in Seq(Workers)
  <2>1. Append(explorer, w) \in Seq(Workers) /\ Append(engine, w) \in Seq(Workers)
        /\ Append(diagnostics, w) \in Seq(Workers)
    BY DEF TypeOK
  <2>2. QED
    BY <2>1 DEF TypeOK, Run, Connect, Attach, Read, Record, Explore, Ingest, EndOfStream,
         StreamFails, CompleteRecording, Completed, Failing, Failed, Finally, Wait, pipeline
<1>4. QED
  BY <1>1, <1>2, <1>3 DEF TypeOK, Moves, Threads, Kinds

\* The thread a start adds.
LEMMA SpawnAdds ==
  ASSUME TypeOK, NEW kind \in Kinds, NEW pc \in Pcs, NEW n \in 0..MaxFrames,
         Spawn(kind, pc, n)
  PROVE  /\ started + 1 \in Workers /\ started' = started + 1 /\ worker' = started + 1
         /\ thread' \in [Workers -> Threads]
         /\ thread'[started + 1] = [kind |-> kind, pc |-> pc, left |-> n, total |-> n]
         /\ \A v \in Workers \ {started + 1} : thread'[v] = thread[v]
<1>1. started + 1 \in Workers
  BY LifecycleAssumption DEF Spawn, TypeOK, Workers
<1>2. [kind |-> kind, pc |-> pc, left |-> n, total |-> n] \in Threads
  BY DEF Threads
<1>3. thread \in [Workers -> Threads]
  BY DEF TypeOK, Threads, Kinds
<1>4. QED
  BY <1>1, <1>2, <1>3 DEF Spawn

\* Moving a caller within stop().
LEMMA CallTypes ==
  ASSUME TypeOK, NEW p \in Callers, NEW pc \in {"idle", "wake", "read", "close", "join"},
         caller' = [caller EXCEPT ![p].pc = pc]
  PROVE  /\ caller' \in [Callers -> Calls]
         /\ caller'[p].pc = pc /\ caller'[p].worker = caller[p].worker
         /\ \A q \in Callers \ {p} : caller'[q] = caller[q]
<1>1. caller \in [Callers -> Calls]
  BY DEF TypeOK, Calls
<1>2. caller[p] \in Calls
  BY <1>1
<1>3. [caller[p] EXCEPT !.pc = pc] \in Calls
  BY <1>2 DEF Calls
<1>4. caller' = [caller EXCEPT ![p] = [caller[p] EXCEPT !.pc = pc]]
  BY <1>1
<1>5. QED
  BY <1>1, <1>2, <1>3, <1>4 DEF Calls

LEMMA StopTypes ==
  ASSUME TypeOK, NEW p \in Callers, StopRequest(p) \/ Stop(p)
  PROVE  TypeOK'
<1>1. CASE StopRequest(p)
  BY <1>1, CallTypes DEF StopRequest, TypeOK, Calls, threads, pipeline
<1>2. CASE StopWake(p)
  BY <1>2, CallTypes DEF StopWake, TypeOK, Calls, threads, pipeline
<1>3. CASE StopRead(p)
  <2>1. [pc |-> "close", worker |-> worker, client |-> client] \in Calls
    BY DEF TypeOK, Calls
  <2>2. caller' \in [Callers -> Calls]
    BY <1>3, <2>1 DEF StopRead, TypeOK, Calls
  <2>3. QED
    BY <1>3, <2>2 DEF StopRead, TypeOK, Calls, source, threads, pipeline
<1>4. CASE StopClose(p)
  <2>1. caller[p].client \in Workers \cup {None}
    BY DEF TypeOK
  <2>2. cut' \subseteq Workers
    BY <1>4, <2>1 DEF StopClose, TypeOK
  <2>3. QED
    BY <1>4, <2>2, CallTypes DEF StopClose, TypeOK, Calls, source, pipeline
<1>5. CASE StopTimesOut(p)
  BY <1>5, CallTypes DEF StopTimesOut, TypeOK, Calls, source, threads, pipeline
<1>6. CASE StopFinish(p)
  BY <1>6, CallTypes DEF StopFinish, TypeOK, Calls, threads, pipeline, States
<1>7. QED
  BY <1>1, <1>2, <1>3, <1>4, <1>5, <1>6 DEF Stop

LEMMA StartTypes ==
  ASSUME TypeOK, NEW p \in Callers, NEW n \in 0..MaxFrames,
         Start(p, n) \/ \E wait \in BOOLEAN : StartReplay(p, n, wait)
  PROVE  TypeOK'
<1>e. <<>> \in Seq(Workers)
  OBVIOUS
<1>w. started + 1 \in Workers => started + 1 \in 0..MaxWorkers
  BY LifecycleAssumption DEF Workers
<1>p. {"live", "replay"} \subseteq Kinds /\ {"connecting", "waiting"} \subseteq Pcs
  BY DEF Kinds, Pcs
<1>1. CASE Start(p, n)
  <2>1. Spawn("live", "connecting", n)
    BY <1>1 DEF Start
  <2>2. /\ started + 1 \in Workers /\ started' = started + 1 /\ worker' = started + 1
        /\ thread' \in [Workers -> Threads]
    BY <2>1, <1>p, SpawnAdds
  <2>3. QED
    BY <1>1, <1>e, <1>w, <2>2 DEF Start, TypeOK, Threads, Kinds, States
<1>2. ASSUME NEW wait \in BOOLEAN, StartReplay(p, n, wait)
      PROVE  TypeOK'
  <2>1. Spawn("replay", "waiting", n)
    BY <1>2 DEF StartReplay
  <2>2. /\ started + 1 \in Workers /\ started' = started + 1 /\ worker' = started + 1
        /\ thread' \in [Workers -> Threads]
    BY <2>1, <1>p, SpawnAdds
  <2>3. QED
    BY <1>2, <1>e, <1>w, <2>2 DEF StartReplay, TypeOK, Threads, Kinds, States
<1>3. QED
  BY <1>1, <1>2

\* TypeOK holds throughout, whoever calls the service.
THEOREM ServiceTypes == Spec => []TypeOK
<1>1. Init => TypeOK
  <2> SUFFICES ASSUME Init PROVE TypeOK
    OBVIOUS
  <2>1. [kind |-> "none", pc |-> "unborn", left |-> 0, total |-> 0] \in Threads
    BY LifecycleAssumption DEF Threads, Kinds, Pcs
  <2>2. [pc |-> "idle", worker |-> None, client |-> None] \in Calls
    BY DEF Calls
  <2>3. /\ thread \in [Workers -> Threads] /\ caller \in [Callers -> Calls]
    BY <2>1, <2>2 DEF Init
  <2>4. /\ started \in 0..MaxWorkers /\ subscribers \in 0..MaxSubscribers
    BY LifecycleAssumption DEF Init
  <2>5. explorer \in Seq(Workers) /\ engine \in Seq(Workers) /\ diagnostics \in Seq(Workers)
    BY DEF Init
  <2>6. QED
    BY <2>3, <2>4, <2>5 DEF Init, TypeOK, Threads, Kinds, Calls, States
<1>2. TypeOK /\ [Next]_vars => TypeOK'
  <2> SUFFICES ASSUME TypeOK, [Next]_vars PROVE TypeOK'
    OBVIOUS
  <2>1. CASE UNCHANGED vars
    BY <2>1 DEF TypeOK, vars, source, threads, pipeline
  <2>2. CASE Subscribe \/ Unsubscribe
    <3>1. replayStart' \in BOOLEAN
      BY <2>2 DEF Subscribe, Unsubscribe, TypeOK, source
    <3>2. subscribers' \in 0..MaxSubscribers
      BY <2>2, LifecycleAssumption DEF Subscribe, Unsubscribe, TypeOK
    <3>3. QED
      BY <2>2, <3>1, <3>2 DEF Subscribe, Unsubscribe, TypeOK, source, threads, pipeline
  <2>3. QED
    BY <2>1, <2>2, RunTypes, StopTypes, StartTypes DEF Next
<1>3. QED
  BY <1>1, <1>2, PTL DEF Spec

-----------------------------------------------------------------------------
\* One source.

\* A worker keeps to the steps of its kind; while it is busy the state is
\* "connecting" or "running", and no step makes it busy again.
LEMMA RunShape ==
  ASSUME TypeOK, KindInv, NEW w \in Workers, Run(w)
  PROVE  /\ Busy(w)' => Busy(w) /\ state' \in {state, "running"}
         /\ thread'[w].pc \in {"connecting", "attach", "record", "complete", "finally"} =>
              thread[w].kind = "live"
<1> USE DEF At, Busy, source, pipeline
<1>p. {"attach", "failing", "finally", "reading", "record", "explore", "ingest",
           "complete", "completed", "failed", "dead"} \subseteq Pcs
  BY DEF Pcs
<1>e. AfterEnd(w) \in {"finally", "dead"} /\ (AfterEnd(w) = "finally" => thread[w].kind = "live")
  BY DEF AfterEnd
<1>k. thread[w].pc \in {"connecting", "attach", "record", "complete", "finally"} =>
        thread[w].kind = "live"
  BY DEF KindInv
<1>1. CASE Connect(w)
  BY <1>1, <1>p, <1>k, GoMoves DEF Connect
<1>2. CASE Attach(w)
  BY <1>2, <1>p, <1>k, GoMoves DEF Attach
<1>3. CASE Read(w)
  <2>1. thread'[w].pc = IF stopRequested THEN AfterEnd(w)
                        ELSE IF thread[w].kind = "live" THEN "record" ELSE "explore"
    BY <1>3, ReadMoves
  <2>2. Busy(w) /\ state' = state
    BY <1>3 DEF Read
  <2> HIDE DEF Busy
  <2>3. QED
    BY <1>e, <2>1, <2>2
<1>4. CASE Record(w)
  BY <1>4, <1>p, <1>k, GoMoves DEF Record
<1>5. CASE Explore(w)
  BY <1>5, <1>p, <1>k, GoMoves DEF Explore
<1>6. CASE Ingest(w)
  BY <1>6, <1>p, <1>k, GoMoves DEF Ingest
<1>7. CASE EndOfStream(w)
  BY <1>7, <1>p, <1>k, GoMoves DEF EndOfStream
<1>8. CASE StreamFails(w)
  BY <1>8, <1>p, <1>k, GoMoves DEF StreamFails
<1>9. CASE CompleteRecording(w)
  BY <1>9, <1>p, <1>k, GoMoves DEF CompleteRecording
<1>10. CASE Completed(w)
  BY <1>10, <1>p, <1>k, <1>e, GoMoves, ZenonT(20) DEF Completed
<1>11. CASE Failing(w)
  BY <1>11, <1>p, <1>k, GoMoves DEF Failing
<1>12. CASE Failed(w)
  BY <1>12, <1>p, <1>k, <1>e, GoMoves, ZenonT(20) DEF Failed
<1>13. CASE Finally(w)
  BY <1>13, <1>p, <1>k, GoMoves DEF Finally
<1>14. CASE Wait(w)
  BY <1>14, <1>p, <1>k, GoMoves DEF Wait
<1>15. QED
  BY <1>1, <1>2, <1>3, <1>4, <1>5, <1>6, <1>7, <1>8, <1>9, <1>10, <1>11, <1>12, <1>13,
     <1>14 DEF Run

LEMMA RunService ==
  ASSUME TypeOK, ServiceInv, NEW w \in Workers, Run(w)
  PROVE  ServiceInv'
<1>1. Moves(w)
  BY RunMoves
<1>2. /\ Busy(w)' => Busy(w) /\ state' \in {state, "running"}
      /\ thread'[w].pc \in {"connecting", "attach", "record", "complete", "finally"} =>
           thread[w].kind = "live"
  BY RunShape DEF ServiceInv
<1>3. CallInv'
  BY <1>1 DEF Moves, ServiceInv, CallInv
<1>4. KindInv'
  <2> SUFFICES ASSUME NEW v \in Workers
               PROVE  /\ v > started' => thread'[v].pc = "unborn"
                      /\ thread'[v].pc # "unborn" => thread'[v].kind \in {"live", "replay"}
                      /\ thread'[v].kind = "live" => liveOnce'
                      /\ thread'[v].pc \in {"connecting", "attach", "record", "complete",
                                            "finally"} => thread'[v].kind = "live"
    BY DEF KindInv
  <2>1. CASE v # w
    BY <1>1, <2>1 DEF Moves, ServiceInv, KindInv
  <2>2. CASE v = w
    BY <1>1, <1>2, <2>2 DEF Moves, ServiceInv, KindInv, Alive
  <2>3. QED
    BY <2>1, <2>2
<1>5. SourceInv'
  <2> SUFFICES ASSUME NEW v \in Workers
               PROVE  /\ Alive(v)' => v = started' /\ worker' = v
                      /\ Busy(v)' => /\ state' \in {"connecting", "running"}
                                     /\ thread'[v].kind = mode'
    BY DEF SourceInv
  <2>1. CASE v # w
    <3>1. ~Alive(v)
      BY <1>1, <2>1 DEF Moves, ServiceInv, SourceInv
    <3>2. QED
      BY <1>1, <2>1, <3>1 DEF Moves, Alive, Busy
  <2>2. CASE v = w
    BY <1>1, <1>2, <2>2 DEF Moves, ServiceInv, SourceInv
  <2>3. QED
    BY <2>1, <2>2
<1>6. SerialInv'
  BY <1>1 DEF Moves, ServiceInv, SerialInv
<1>7. QED
  BY <1>3, <1>4, <1>5, <1>6 DEF ServiceInv

\* What stop() does to the source: nothing but the stop request until the join
\* has found no worker alive.
LEMMA StopService ==
  ASSUME StopsAlone, TypeOK, ServiceInv, NEW p \in Callers, StopRequest(p) \/ Stop(p)
  PROVE  /\ ServiceInv'
         /\ state' # state => state' = "stopped"
<1> USE DEF source, threads, pipeline
<1>o. \A q \in Callers \ {p} : caller'[q].pc = "idle"
  <2> SUFFICES ASSUME NEW q \in Callers \ {p} PROVE caller'[q].pc = "idle"
    OBVIOUS
  <2>1. CASE StopRequest(p)
    <3>1. caller'[p].pc = "wake"
      BY <2>1, CallTypes DEF StopRequest
    <3>2. QED
      BY <3>1 DEF StopsAlone
  <2>2. CASE Stop(p)
    <3>1. caller[p].pc # "idle"
      BY <2>2 DEF Stop, StopWake, StopRead, StopClose, StopTimesOut, StopFinish
    <3>2. caller[q].pc = "idle"
      BY <3>1 DEF ServiceInv, SerialInv
    <3>3. caller'[q] = caller[q]
      <4>1. CASE StopWake(p)
        BY <4>1, CallTypes DEF StopWake
      <4>2. CASE StopRead(p)
        BY <4>2 DEF StopRead, TypeOK
      <4>3. CASE StopClose(p)
        BY <4>3, CallTypes DEF StopClose
      <4>4. CASE StopTimesOut(p)
        BY <4>4, CallTypes DEF StopTimesOut
      <4>5. CASE StopFinish(p)
        BY <4>5, CallTypes DEF StopFinish
      <4>6. QED
        BY <2>2, <4>1, <4>2, <4>3, <4>4, <4>5 DEF Stop
    <3>4. QED
      BY <3>2, <3>3
  <2>3. QED
    BY <2>1, <2>2
<1>s. SerialInv'
  BY <1>o DEF SerialInv
<1>u. ASSUME UNCHANGED <<state, mode, liveOnce, worker, started, thread>>
      PROVE  (KindInv /\ SourceInv)'
  BY <1>u DEF ServiceInv, KindInv, SourceInv, Alive, Busy
<1>1. CASE StopRequest(p)
  <2>1. CallInv'
    BY <1>1, <1>o, CallTypes DEF StopRequest, CallInv
  <2>2. QED
    BY <1>1, <1>s, <1>u, <2>1 DEF StopRequest, ServiceInv
<1>2. CASE StopWake(p)
  <2>1. CallInv'
    BY <1>2, <1>o, CallTypes DEF StopWake, CallInv
  <2>2. QED
    BY <1>2, <1>s, <1>u, <2>1 DEF StopWake, ServiceInv
<1>3. CASE StopRead(p)
  <2>1. CallInv'
    <3>1. caller'[p] = [pc |-> "close", worker |-> worker, client |-> client]
      BY <1>3 DEF StopRead, TypeOK
    <3>2. QED
      BY <1>3, <1>o, <3>1 DEF StopRead, CallInv
  <2>2. QED
    BY <1>3, <1>s, <1>u, <2>1 DEF StopRead, ServiceInv
<1>4. CASE StopClose(p)
  <2>1. CallInv'
    BY <1>4, <1>o, CallTypes DEF StopClose, ServiceInv, CallInv
  <2>2. QED
    BY <1>4, <1>s, <1>u, <2>1 DEF StopClose, ServiceInv
<1>5. CASE StopTimesOut(p)
  <2>1. CallInv'
    BY <1>5, <1>o, CallTypes DEF StopTimesOut, CallInv
  <2>2. QED
    BY <1>5, <1>s, <1>u, <2>1 DEF StopTimesOut, ServiceInv
<1>6. CASE StopFinish(p)
  <2>1. CallInv'
    BY <1>6, <1>o, CallTypes DEF StopFinish, CallInv
  <2>2. \A w \in Workers : ~Alive(w)
    BY <1>6 DEF StopFinish, Joined, ServiceInv, CallInv, SourceInv
  <2>3. SourceInv' /\ KindInv'
    BY <1>6, <2>2 DEF StopFinish, ServiceInv, KindInv, SourceInv, Alive, Busy
  <2>4. QED
    BY <1>6, <1>s, <2>1, <2>3 DEF StopFinish, ServiceInv
<1>7. QED
  BY <1>1, <1>2, <1>3, <1>4, <1>5, <1>6 DEF Stop

\* A source is started only when no worker is alive.
LEMMA StartFindsNone ==
  ASSUME TypeOK, ServiceInv, NEW p \in Callers, NEW n \in 0..MaxFrames,
         Start(p, n) \/ \E wait \in BOOLEAN : StartReplay(p, n, wait)
  PROVE  \A w \in Workers : ~Alive(w)
<1> SUFFICES ASSUME NEW w \in Workers, Alive(w)
             PROVE  FALSE
  OBVIOUS
<1>1. ~Busy(w) /\ worker = w
  BY DEF ServiceInv, SourceInv, Start, StartReplay
<1>2. thread[w].pc = "finally"
  BY <1>1 DEF Busy, Alive
<1>3. liveOnce
  BY <1>2 DEF ServiceInv, KindInv
<1>4. QED
  BY <1>1, <1>3 DEF Start, StartReplay

LEMMA StartService ==
  ASSUME StopsAlone, TypeOK, ServiceInv, NEW p \in Callers, NEW n \in 0..MaxFrames,
         Start(p, n) \/ \E wait \in BOOLEAN : StartReplay(p, n, wait)
  PROVE  /\ ServiceInv'
         /\ explorer' = <<>> /\ diagnostics' = <<>>
         /\ state' \in {"connecting", "running"}
         /\ \/ mode' = "live"
            \/ mode' = "replay" /\ engine' = <<>>
         /\ thread'[started'].left = thread'[started'].total
         /\ thread'[started'].pc \in {"connecting", "waiting"}
         /\ started' \in Workers
         /\ \A v \in Workers \ {started'} : ~Alive(v)'
<1>1. PICK kind \in {"live", "replay"}, pc \in {"connecting", "waiting"} :
        /\ Spawn(kind, pc, n)
        /\ mode' = kind
        /\ pc = "connecting" => kind = "live"
        /\ kind = "live" => liveOnce'
        /\ liveOnce => liveOnce'
        /\ kind = "replay" => engine' = <<>>
  BY DEF Start, StartReplay
<1>2. /\ caller' = caller /\ caller[p].pc = "idle"
      /\ explorer' = <<>> /\ diagnostics' = <<>>
      /\ state' \in {"connecting", "running"}
  BY DEF Start, StartReplay
<1>3. kind \in Kinds /\ pc \in Pcs
  BY DEF Kinds, Pcs
<1>4. /\ started + 1 \in Workers /\ started' = started + 1 /\ worker' = started + 1
      /\ thread'[started + 1] = [kind |-> kind, pc |-> pc, left |-> n, total |-> n]
      /\ \A v \in Workers \ {started + 1} : thread'[v] = thread[v]
  BY <1>1, <1>3, SpawnAdds
<1>5. \A v \in Workers : ~Alive(v)
  BY StartFindsNone
<1>6. \A v \in Workers \ {started + 1} : ~Alive(v)' /\ ~Busy(v)'
  BY <1>4, <1>5 DEF Alive, Busy
<1>7. SerialInv' /\ CallInv'
  <2>1. started' # started
    BY <1>4 DEF TypeOK
  <2>2. \A q \in Callers : caller'[q].pc = "idle"
    BY <1>2, <2>1 DEF StopsAlone
  <2>3. QED
    BY <2>2 DEF SerialInv, CallInv
<1>8. KindInv'
  <2> SUFFICES ASSUME NEW v \in Workers
               PROVE  /\ v > started' => thread'[v].pc = "unborn"
                      /\ thread'[v].pc # "unborn" => thread'[v].kind \in {"live", "replay"}
                      /\ thread'[v].kind = "live" => liveOnce'
                      /\ thread'[v].pc \in {"connecting", "attach", "record", "complete",
                                            "finally"} => thread'[v].kind = "live"
    BY DEF KindInv
  <2>t. started \in Int /\ v \in Int
    BY DEF TypeOK, Workers
  <2>1. CASE v # started + 1
    <3>1. thread'[v] = thread[v]
      BY <1>4, <2>1
    <3>2. v > started' => v > started
      BY <1>4, <2>t
    <3>3. QED
      BY <1>1, <3>1, <3>2 DEF ServiceInv, KindInv
  <2>2. CASE v = started + 1
    BY <1>1, <1>4, <2>2, <2>t
  <2>3. QED
    BY <2>1, <2>2
<1>9. SourceInv'
  <2> SUFFICES ASSUME NEW v \in Workers
               PROVE  /\ Alive(v)' => v = started' /\ worker' = v
                      /\ Busy(v)' => /\ state' \in {"connecting", "running"}
                                     /\ thread'[v].kind = mode'
    BY DEF SourceInv
  <2>1. CASE v # started + 1
    BY <1>6, <2>1
  <2>2. CASE v = started + 1
    BY <1>1, <1>2, <1>4, <2>2
  <2>3. QED
    BY <2>1, <2>2
<1>10. QED
  BY <1>1, <1>2, <1>4, <1>6, <1>7, <1>8, <1>9 DEF ServiceInv

LEMMA SubscribeService ==
  ASSUME ServiceInv, Subscribe \/ Unsubscribe \/ UNCHANGED vars
  PROVE  /\ ServiceInv'
         /\ UNCHANGED <<state, mode, started, thread, pipeline>>
<1>1. UNCHANGED <<state, mode, liveOnce, worker, started, thread, caller, pipeline>>
  BY DEF Subscribe, Unsubscribe, vars, source, threads
<1>2. QED
  BY <1>1 DEF ServiceInv, SerialInv, CallInv, KindInv, SourceInv, Alive, Busy

\* The invariant, for a service that is stopped by one thread at a time and not
\* started meanwhile (stop, start and start_replay of service.py).
THEOREM SerialService == Spec /\ [][StopsAlone]_vars => []ServiceInv
<1>1. Init => ServiceInv
  BY DEF Init, ServiceInv, SerialInv, CallInv, KindInv, SourceInv, Alive, Busy
<1>2. TypeOK /\ ServiceInv /\ [Next]_vars /\ [StopsAlone]_vars => ServiceInv'
  BY RunService, StopService, StartService, SubscribeService DEF Next
<1>3. QED
  BY <1>1, <1>2, ServiceTypes, PTL DEF Spec

\* OneSource: two workers are never busy together, in whatever order starts,
\* stops, join timeouts and ends of streams come, since each of them would be
\* the last one started.
THEOREM OneSourceHolds == Spec /\ [][StopsAlone]_vars => []OneSource
<1>1. ServiceInv => OneSource
  BY DEF ServiceInv, SourceInv, OneSource, Busy, Alive
<1>2. QED
  BY <1>1, SerialService, PTL

\* StoppedMeansJoined: no worker is busy under the state "stopped".
THEOREM StoppedMeansJoinedHolds == Spec /\ [][StopsAlone]_vars => []StoppedMeansJoined
<1>1. ServiceInv => StoppedMeansJoined
  BY DEF ServiceInv, SourceInv, StoppedMeansJoined
<1>2. QED
  BY <1>1, SerialService, PTL

-----------------------------------------------------------------------------
\* What the pipeline holds.

LEMMA AppendOwn ==
  ASSUME NEW s \in Seq(Workers), NEW w \in Workers,
         \A i \in DOMAIN s : s[i] = w
  PROVE  /\ \A i \in DOMAIN Append(s, w) : Append(s, w)[i] = w
         /\ Len(Append(s, w)) = Len(s) + 1
  OBVIOUS

\* SourcesNotMixed: every frame in the explorer and in the diagnostic engine,
\* and under a replay in the telemetry engine, is of the last worker started.
THEOREM SourcesNotMixedHolds == Spec /\ [][StopsAlone]_vars => []SourcesNotMixed
<1>1. Init => SourcesNotMixed
  BY DEF Init, SourcesNotMixed
<1>2. TypeOK /\ ServiceInv /\ SourcesNotMixed /\ [Next]_vars /\ [StopsAlone]_vars
        => SourcesNotMixed'
  <2> SUFFICES ASSUME TypeOK, ServiceInv, SourcesNotMixed, [Next]_vars, [StopsAlone]_vars
               PROVE  SourcesNotMixed'
    OBVIOUS
  <2>1. ASSUME NEW w \in Workers, Run(w)
        PROVE  SourcesNotMixed'
    <3>1. w = started /\ started' = started /\ mode' = mode
      BY <2>1, RunMoves DEF Moves, ServiceInv, SourceInv
    <3>2. explorer' \in {explorer, Append(explorer, w)}
      BY <2>1 DEF Run, Connect, Attach, Read, Record, Explore, Ingest, EndOfStream,
         StreamFails, CompleteRecording, Completed, Failing, Failed, Finally, Wait, pipeline
    <3>3. \/ engine' = engine /\ diagnostics' = diagnostics
          \/ engine' = Append(engine, w) /\ diagnostics' = Append(diagnostics, w)
      BY <2>1 DEF Run, Connect, Attach, Read, Record, Explore, Ingest, EndOfStream,
         StreamFails, CompleteRecording, Completed, Failing, Failed, Finally, Wait, pipeline
    <3>4. explorer \in Seq(Workers) /\ engine \in Seq(Workers) /\ diagnostics \in Seq(Workers)
      BY DEF TypeOK
    <3>a. ASSUME NEW s \in Seq(Workers), NEW t, t = s \/ t = Append(s, w),
                 \A i \in DOMAIN s : s[i] = w
          PROVE  \A i \in DOMAIN t : t[i] = w
      BY <3>a, AppendOwn
    <3>5. \A i \in DOMAIN explorer' : explorer'[i] = w
      <4>1. \A i \in DOMAIN explorer : explorer[i] = w
        BY <3>1 DEF SourcesNotMixed
      <4>2. QED
        BY <3>2, <3>4, <3>a, <4>1
    <3>6. \A i \in DOMAIN diagnostics' : diagnostics'[i] = w
      <4>1. \A i \in DOMAIN diagnostics : diagnostics[i] = w
        BY <3>1 DEF SourcesNotMixed
      <4>2. QED
        BY <3>3, <3>4, <3>a, <4>1
    <3>7. mode = "replay" => \A i \in DOMAIN engine' : engine'[i] = w
      <4> SUFFICES ASSUME mode = "replay" PROVE \A i \in DOMAIN engine' : engine'[i] = w
        OBVIOUS
      <4>1. \A i \in DOMAIN engine : engine[i] = w
        BY <3>1 DEF SourcesNotMixed
      <4>2. QED
        BY <3>3, <3>4, <3>a, <4>1
    <3>8. QED
      BY <3>1, <3>5, <3>6, <3>7 DEF SourcesNotMixed
  <2>2. ASSUME NEW p \in Callers, StopRequest(p) \/ Stop(p)
        PROVE  SourcesNotMixed'
    <3>1. UNCHANGED <<explorer, engine, diagnostics, started, mode>>
      BY <2>2 DEF StopRequest, Stop, StopWake, StopRead, StopClose, StopTimesOut, StopFinish,
                  source, threads, pipeline
    <3>2. QED
      BY <3>1 DEF SourcesNotMixed
  <2>3. ASSUME NEW p \in Callers, NEW n \in 0..MaxFrames,
               Start(p, n) \/ \E wait \in BOOLEAN : StartReplay(p, n, wait), StopsAlone
        PROVE  SourcesNotMixed'
    BY <2>3, StartService DEF SourcesNotMixed
  <2>4. CASE Subscribe \/ Unsubscribe \/ UNCHANGED vars
    BY <2>4, SubscribeService DEF SourcesNotMixed, pipeline
  <2>5. QED
    BY <2>1, <2>2, <2>3, <2>4 DEF Next
<1>3. QED
  BY <1>1, <1>2, ServiceTypes, SerialService, PTL DEF Spec

\* The numbers the counts are made of.
LEMMA Numbers ==
  ASSUME TypeOK, NEW w \in Workers
  PROVE  /\ thread[w].left \in Nat /\ thread[w].total \in Nat
         /\ Len(explorer) \in Nat /\ Len(diagnostics) \in Nat /\ Len(engine) \in Nat
         /\ Len(Append(explorer, w)) = Len(explorer) + 1
         /\ Len(Append(engine, w)) = Len(engine) + 1
         /\ Len(Append(diagnostics, w)) = Len(diagnostics) + 1
<1>1. thread[w] \in Threads
  BY DEF TypeOK, Threads, Kinds
<1>2. thread[w].left \in Nat /\ thread[w].total \in Nat
  BY <1>1, LifecycleAssumption DEF Threads
<1>3. QED
  BY <1>2 DEF TypeOK

\* Where a worker goes with the frame it holds, and what that leaves in the
\* pipeline.
LEMMA RunProgress ==
  ASSUME TypeOK, KindInv, NEW w \in Workers, Run(w), Progress(w)
  PROVE  Progress(w)'
<1> USE DEF At, Progress, source, pipeline
<1>p. {"attach", "failing", "finally", "reading", "record", "explore", "ingest",
           "complete", "completed", "failed", "dead"} \subseteq Pcs
  BY DEF Pcs
<1>e. AfterEnd(w) \in {"finally", "dead"}
  BY DEF AfterEnd
<1>n. /\ thread[w].left \in Nat /\ thread[w].total \in Nat
      /\ Len(explorer) \in Nat /\ Len(diagnostics) \in Nat /\ Len(engine) \in Nat
      /\ Len(Append(explorer, w)) = Len(explorer) + 1
      /\ Len(Append(diagnostics, w)) = Len(diagnostics) + 1
  BY Numbers
<1>1. CASE Connect(w)
  BY <1>1, <1>p, <1>n, GoMoves DEF Connect
<1>2. CASE Attach(w)
  BY <1>2, <1>p, <1>n, GoMoves DEF Attach
<1>3. CASE Read(w)
  <2>1. /\ thread'[w].pc \in {"finally", "dead", "record", "explore"}
        /\ thread'[w].left = thread[w].left - 1 /\ thread'[w].total = thread[w].total
    BY <1>3, <1>e, ReadMoves
  <2>2. /\ Len(explorer') = thread[w].total - thread[w].left
        /\ Len(diagnostics') = thread[w].total - thread[w].left
    BY <1>3 DEF Read
  <2>3. Len(explorer') = thread'[w].total - thread'[w].left - 1
        /\ Len(diagnostics') = thread'[w].total - thread'[w].left - 1
    BY <1>n, <2>1, <2>2
  <2>4. QED
    BY <2>1, <2>3
<1>4. CASE Record(w)
  <2>1. /\ thread'[w].pc \in {"explore", "failing"}
        /\ thread'[w].left = thread[w].left /\ thread'[w].total = thread[w].total
    BY <1>4, <1>p, GoMoves DEF Record
  <2>2. /\ Len(explorer') = thread[w].total - thread[w].left - 1
        /\ Len(diagnostics') = thread[w].total - thread[w].left - 1
    BY <1>4 DEF Record
  <2>3. QED
    BY <2>1, <2>2
<1>5. CASE Explore(w)
  <2>1. /\ thread'[w].pc = "ingest"
        /\ thread'[w].left = thread[w].left /\ thread'[w].total = thread[w].total
    BY <1>5, <1>p, GoMoves DEF Explore
  <2>2. /\ Len(explorer) = thread[w].total - thread[w].left - 1
        /\ Len(diagnostics') = thread[w].total - thread[w].left - 1
        /\ explorer' = Append(explorer, w)
    BY <1>5 DEF Explore
  <2>3. Len(explorer') = thread[w].total - thread[w].left
    BY <1>n, <2>2
  <2>4. QED
    BY <2>1, <2>2, <2>3
<1>6. CASE Ingest(w)
  <2>1. /\ \/ thread'[w].pc = "failing"
           \/ thread'[w].pc = "reading" /\ diagnostics' = Append(diagnostics, w)
        /\ thread'[w].left = thread[w].left /\ thread'[w].total = thread[w].total
    BY <1>6, <1>p, GoMoves DEF Ingest
  <2>2. /\ Len(explorer') = thread[w].total - thread[w].left
        /\ Len(diagnostics) = thread[w].total - thread[w].left - 1
    BY <1>6 DEF Ingest
  <2>3. Len(Append(diagnostics, w)) = thread[w].total - thread[w].left
    BY <1>n, <2>2
  <2>4. QED
    BY <2>1, <2>2, <2>3
<1>7. CASE EndOfStream(w)
  <2>1. /\ thread'[w].pc = (IF thread[w].kind = "live" THEN "complete" ELSE "completed")
        /\ thread'[w].kind = thread[w].kind /\ thread'[w].total = thread[w].total
    BY <1>7, <1>p, GoMoves DEF EndOfStream
  <2>2. /\ Len(explorer') = thread[w].total - thread[w].left
        /\ Len(diagnostics') = thread[w].total - thread[w].left
        /\ thread[w].left = 0
    BY <1>7 DEF EndOfStream
  <2>3. Len(explorer') = thread[w].total /\ Len(diagnostics') = thread[w].total
    BY <1>n, <2>2
  <2>4. QED
    BY <2>1, <2>3
<1>8. CASE StreamFails(w)
  BY <1>8, <1>p, <1>n, GoMoves DEF StreamFails
<1>9. CASE CompleteRecording(w)
  BY <1>9, <1>p, <1>n, GoMoves DEF CompleteRecording
<1>10. CASE Completed(w)
  BY <1>10, <1>p, <1>e, <1>n, GoMoves DEF Completed
<1>11. CASE Failing(w)
  BY <1>11, <1>p, <1>n, GoMoves DEF Failing
<1>12. CASE Failed(w)
  BY <1>12, <1>p, <1>e, <1>n, GoMoves DEF Failed
<1>13. CASE Finally(w)
  BY <1>13, <1>p, <1>n, GoMoves DEF Finally
<1>14. CASE Wait(w)
  BY <1>14, <1>p, <1>n, GoMoves DEF Wait
<1>15. QED
  BY <1>1, <1>2, <1>3, <1>4, <1>5, <1>6, <1>7, <1>8, <1>9, <1>10, <1>11, <1>12, <1>13,
     <1>14 DEF Run

\* CompletedMeansAll follows a terminal transition taken with every frame in
\* the pipeline; no later step touches the pipeline before the next start.
LEMMA RunCompleted ==
  ASSUME TypeOK, ServiceInv, CountInv, CompletedMeansAll, NEW w \in Workers, Run(w)
  PROVE  CompletedMeansAll'
<1>1. /\ Moves(w) /\ w = started
  BY RunMoves DEF Moves, ServiceInv, SourceInv
<1>2. /\ started' = started /\ mode' = mode /\ thread'[started].total = thread[started].total
  BY <1>1 DEF Moves
<1>3. CASE Completed(w)
  <2>1. /\ UNCHANGED <<explorer, engine, diagnostics, recorder>>
        /\ thread[w].pc = "completed"
    BY <1>3 DEF Completed, At, pipeline
  <2>2. /\ Len(explorer) = thread[w].total /\ Len(diagnostics) = thread[w].total
        /\ thread[w].kind = "live" => recorder \in {"none", "complete"}
        /\ mode = "replay" => Len(engine) = Len(diagnostics)
    BY <2>1 DEF CountInv, Progress
  <2>3. thread[w].kind = mode
    BY <2>1 DEF ServiceInv, SourceInv, Busy
  <2>4. QED
    BY <1>1, <1>2, <2>1, <2>2, <2>3 DEF CompletedMeansAll
<1>4. CASE Finally(w)
  BY <1>1, <1>2, <1>4 DEF Finally, Aborted, CompletedMeansAll
<1>5. CASE ~Completed(w) /\ ~Finally(w)
  <2>1. Busy(w)
    BY <1>5 DEF Run, Connect, Attach, Read, Record, Explore, Ingest, EndOfStream,
         StreamFails, CompleteRecording, Failing, Failed, Wait, At, Busy
  <2>2. state \in {"connecting", "running"}
    BY <2>1 DEF ServiceInv, SourceInv
  <2>3. state' # "completed"
    BY <1>5, <2>2 DEF Run, Connect, Attach, Read, Record, Explore, Ingest, EndOfStream,
         StreamFails, CompleteRecording, Failing, Failed, Wait, source
  <2>4. QED
    BY <2>3 DEF CompletedMeansAll
<1>6. QED
  BY <1>3, <1>4, <1>5

\* The frames in the pipeline are counted by where the worker stands.
LEMMA FramesCounted == Spec /\ [][StopsAlone]_vars => [](CountInv /\ CompletedMeansAll)
<1>1. Init => CountInv /\ CompletedMeansAll
  BY DEF Init, CountInv, Progress, CompletedMeansAll
<1>2. TypeOK /\ ServiceInv /\ CountInv /\ CompletedMeansAll /\ [Next]_vars /\ [StopsAlone]_vars
        => (CountInv /\ CompletedMeansAll)'
  <2> SUFFICES ASSUME TypeOK, ServiceInv, CountInv, CompletedMeansAll,
                      [Next]_vars, [StopsAlone]_vars
               PROVE  CountInv' /\ CompletedMeansAll'
    OBVIOUS
  <2>1. ASSUME NEW w \in Workers, Run(w)
        PROVE  CountInv' /\ CompletedMeansAll'
    <3>1. Progress(w)'
      BY <2>1, RunProgress DEF ServiceInv, CountInv
    <3>2. Moves(w)
      BY <2>1, RunMoves
    <3>3. ASSUME NEW v \in Workers, v # w
          PROVE  Progress(v)'
      <4>1. ~Alive(v) /\ thread'[v] = thread[v]
        BY <3>2, <3>3 DEF Moves, ServiceInv, SourceInv
      <4>2. QED
        BY <4>1 DEF Alive, Progress
    <3>4. mode' = "replay" => Len(engine') = Len(diagnostics')
      <4>1. \/ engine' = engine /\ diagnostics' = diagnostics
            \/ engine' = Append(engine, w) /\ diagnostics' = Append(diagnostics, w)
        BY <2>1 DEF Run, Connect, Attach, Read, Record, Explore, Ingest, EndOfStream,
           StreamFails, CompleteRecording, Completed, Failing, Failed, Finally, Wait, pipeline
      <4>2. QED
        BY <2>1, <3>2, <4>1, Numbers DEF Moves, CountInv
    <3>5. CountInv'
      BY <3>1, <3>3, <3>4 DEF CountInv
    <3>6. QED
      BY <2>1, <3>5, RunCompleted
  <2>2. ASSUME NEW p \in Callers, StopRequest(p) \/ Stop(p), StopsAlone
        PROVE  CountInv' /\ CompletedMeansAll'
    <3>1. UNCHANGED <<pipeline, started, thread, mode>>
      BY <2>2 DEF StopRequest, Stop, StopWake, StopRead, StopClose, StopTimesOut, StopFinish,
                  source, threads
    <3>2. state' = state \/ state' = "stopped"
      BY <2>2, StopService
    <3>3. QED
      BY <3>1, <3>2 DEF CountInv, Progress, CompletedMeansAll, pipeline
  <2>3. ASSUME NEW p \in Callers, NEW n \in 0..MaxFrames,
               Start(p, n) \/ \E wait \in BOOLEAN : StartReplay(p, n, wait), StopsAlone
        PROVE  CountInv' /\ CompletedMeansAll'
    <3>1. /\ explorer' = <<>> /\ diagnostics' = <<>>
          /\ state' \in {"connecting", "running"}
          /\ mode' = "replay" => engine' = <<>>
          /\ thread'[started'].left = thread'[started'].total
          /\ thread'[started'].pc \in {"connecting", "waiting"}
          /\ started' \in Workers
          /\ \A v \in Workers \ {started'} : ~Alive(v)'
      BY <2>3, StartService
    <3>2. TypeOK'
      BY <2>3, StartTypes
    <3>3. thread'[started'].total \in Nat
      BY <3>1, <3>2, LifecycleAssumption DEF TypeOK
    <3>4. \A v \in Workers : Progress(v)'
      BY <3>1, <3>3 DEF Progress, Alive
    <3>5. QED
      BY <3>1, <3>4 DEF CountInv, CompletedMeansAll
  <2>4. CASE Subscribe \/ Unsubscribe \/ UNCHANGED vars
    BY <2>4, SubscribeService DEF CountInv, Progress, CompletedMeansAll, pipeline
  <2>5. QED
    BY <2>1, <2>2, <2>3, <2>4 DEF Next
<1>3. QED
  BY <1>1, <1>2, ServiceTypes, SerialService, PTL DEF Spec

\* CompletedMeansAll: the state "completed" is reported with every frame of the
\* source in explorer, diagnostic engine and (of a replay) telemetry engine, and
\* with the session of a recorded live source published.
THEOREM CompletedMeansAllHolds == Spec /\ [][StopsAlone]_vars => []CompletedMeansAll
  BY FramesCounted, PTL
=============================================================================
