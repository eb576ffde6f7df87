---------------------------- MODULE GatewayStream ----------------------------
(***************************************************************************)
(* The TCP link between the simulator and the backend: TcpCanServer and    *)
(* TcpCanTransport (can/src/tcp_gateway.cpp), driven by the main loop of   *)
(* can/src/gateway_sim_main.cpp, and RawCanGatewayClient                   *)
(* (backend/src/tuneros/can/gateway.py).                                   *)
(*                                                                         *)
(* The stream is a header and then records of fixed size; TCP carries      *)
(* bytes, and send and recv may move any number of them.  A byte is its    *)
(* position in the stream, so a record is the position it starts at.       *)
(***************************************************************************)
EXTENDS Integers, Sequences

CONSTANT MaxRecords   \* the frames of a complete run

ASSUME RecordsAssumption == MaxRecords \in Nat

HeaderSize == 8    \* GATEWAY_HEADER_SIZE, kGatewayHeaderSize
RecordSize == 19   \* GATEWAY_RECORD_SIZE, kGatewayRecordSize

VARIABLES
  server,    \* "sending", or how main ended: "done" or "failed"
  produced,  \* frames handed to TcpCanTransport::send
  written,   \* bytes accepted by ::send
  client,    \* what the client reads, or how it ended
  read,      \* bytes returned by recv
  data,      \* bytes in the buffer of _read_exact
  starts     \* where the records that frames() has yielded started

linkVars == <<server, produced, written, client, read, data, starts>>

Reading == {"header", "record"}
ClientEnds == {"completed", "truncated", "broken", "closed"}

\* The end of the bytes that send_all is committed to.
Target == HeaderSize + RecordSize * produced

LinkInit ==
  /\ server = "sending" /\ produced = 0 /\ written = 0
  /\ client = "header" /\ read = 0 /\ data = 0 /\ starts = <<>>

-----------------------------------------------------------------------------
\* The simulator process.

\* ::send takes some of what is left.
Write(n) ==
  /\ server = "sending"
  /\ n \in 1 .. Target - written
  /\ written' = written + n
  /\ UNCHANGED <<server, produced, client, read, data, starts>>

\* TcpCanTransport::send of the next frame, once send_all has returned.
Send ==
  /\ server = "sending"
  /\ written = Target
  /\ produced < MaxRecords
  /\ produced' = produced + 1
  /\ UNCHANGED <<server, written, client, read, data, starts>>

\* Mutant: main leaves without waiting for the last send.
FinishEarly ==
  /\ server = "sending"
  /\ produced = MaxRecords
  /\ server' = "done"
  /\ UNCHANGED <<produced, written, client, read, data, starts>>

\* The run is over: main returns and the socket is shut down and closed.
Finish ==
  /\ server = "sending"
  /\ written = Target
  /\ produced = MaxRecords
  /\ server' = "done"
  /\ UNCHANGED <<produced, written, client, read, data, starts>>

\* A send fails, the simulation throws or the process is killed.
Fail ==
  /\ server = "sending"
  /\ server' = "failed"
  /\ UNCHANGED <<produced, written, client, read, data, starts>>

-----------------------------------------------------------------------------
\* The backend.

Wanted == IF client = "header" THEN HeaderSize ELSE RecordSize

\* recv returns a part of what is asked for and has arrived.
Recv(n) ==
  /\ client \in Reading
  /\ n \in 1 .. written - read
  /\ n <= Wanted - data
  /\ read' = read + n
  /\ data' = data + n
  /\ UNCHANGED <<server, produced, written, client, starts>>

\* Mutant: the last byte is not waited for.
DecodeShort ==
  /\ client \in Reading
  /\ data >= Wanted - 1
  /\ client' = "record"
  /\ data' = 0
  /\ starts' = IF client = "header" THEN starts ELSE Append(starts, read - data)
  /\ UNCHANGED <<server, produced, written, read>>

\* _read_exact has its bytes: the header is validated or a frame yielded.
Decode ==
  /\ client \in Reading
  /\ data >= Wanted
  /\ client' = "record"
  /\ data' = 0
  /\ starts' = IF client = "header" THEN starts ELSE Append(starts, read - data)
  /\ UNCHANGED <<server, produced, written, read>>

\* Mutant: the end of the stream is clean wherever it is.
EndOfFileLenient ==
  /\ client \in Reading
  /\ server # "sending" /\ read = written /\ data < Wanted
  /\ client' = "completed"
  /\ UNCHANGED <<server, produced, written, read, data, starts>>

\* Mutant: an end within a record is waited out.
EndOfFileWaiting ==
  /\ client = "record"
  /\ server # "sending" /\ read = written /\ data = 0
  /\ client' = "completed"
  /\ UNCHANGED <<server, produced, written, read, data, starts>>

\* recv returns nothing: a clean end between records, a truncation elsewhere.
EndOfFile ==
  /\ client \in Reading
  /\ server # "sending" /\ read = written /\ data < Wanted
  /\ client' = IF client = "record" /\ data = 0 THEN "completed" ELSE "truncated"
  /\ UNCHANGED <<server, produced, written, read, data, starts>>

\* recv raises: a reset, or the socket's timeout.
ConnectionError ==
  /\ client \in Reading
  /\ client' = "broken"
  /\ UNCHANGED <<server, produced, written, read, data, starts>>

\* close(), from the service's stop.
Close ==
  /\ client \in Reading
  /\ client' = "closed"
  /\ UNCHANGED <<server, produced, written, read, data, starts>>

-----------------------------------------------------------------------------
LinkNext ==
  \/ \E n \in 1 .. RecordSize : Write(n) \/ Recv(n)
  \/ Send \/ Finish \/ Fail
  \/ Decode \/ EndOfFile \/ ConnectionError \/ Close

LinkSpec == LinkInit /\ [][LinkNext]_linkVars

\* The client reads what arrives; the simulator's progress is not assumed.
FairLinkSpec == LinkSpec /\ WF_linkVars(Decode \/ EndOfFile \/ \E n \in 1 .. RecordSize : Recv(n))

-----------------------------------------------------------------------------
\* Properties.

LinkTypeOK ==
  /\ server \in {"sending", "done", "failed"}
  /\ produced \in Nat /\ produced <= MaxRecords
  /\ written \in Nat /\ written <= Target
  /\ client \in Reading \cup ClientEnds
  /\ read \in Nat /\ read <= written
  /\ data \in 0 .. RecordSize
  /\ starts \in Seq(Nat)

\* However the bytes are cut into segments, the frames yielded are the frames
\* sent, from the first on: each starts where the server started it, and none
\* is yielded before all of it was written.
FramesArePrefix ==
  /\ \A i \in 1 .. Len(starts) : starts[i] = HeaderSize + RecordSize * (i - 1)
  /\ starts # <<>> => HeaderSize + RecordSize * Len(starts) <= written

\* A clean end is reported only when every byte the server ever wrote was
\* yielded in a frame, and after a run that finished that is every frame.
CleanEndIsWhole ==
  client = "completed" =>
    /\ server # "sending"
    /\ written = HeaderSize + RecordSize * Len(starts)
    /\ server = "done" => Len(starts) = MaxRecords

\* A run that finished is never reported as truncated.
TruncationIsReal == client = "truncated" => server = "failed"

\* Once the simulator has gone, the client comes to an end.
ClientEndsAfterServer == server # "sending" ~> client \in ClientEnds
=============================================================================
