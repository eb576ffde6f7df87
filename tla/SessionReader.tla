----------------------------- MODULE SessionReader -----------------------------
(***************************************************************************)
(* Reading a published session back: SessionCatalog.list and .reader,       *)
(* SessionReader (backend/src/tuneros/session/catalog.py, reader.py,        *)
(* format.py) and the replay that consumes its frames (replay.py and        *)
(* TelemetryService._run_replay).                                          *)
(*                                                                         *)
(* A reader checks the whole artifact when it is made and then streams the   *)
(* file again, so that the file may have changed in between or may change    *)
(* under the open stream: Damage changes it, once per behaviour.            *)
(***************************************************************************)
EXTENDS SessionRecorder

VARIABLES
  damaged,   \* "no", "frames", "manifest", or "unreadable": no frames.bin, bad header
  stream,    \* the reader: "none", "checked", "open", "ended" or "failed"
  expected,  \* the reader's _manifest
  unread,    \* the records the open stream will still deliver
  cut,       \* and then part of one
  digested,  \* the frames it has yielded, which are the ones it has hashed
  replayed   \* what a replay has done with them: "no", "running" or "complete"

reading == <<stream, expected, unread, cut, digested, replayed>>
artifactVars == <<vars, damaged, reading>>

Garbage == -2   \* a record that decode_raw_can_record or the DBC decoder rejects

ReaderInit ==
  /\ Init
  /\ damaged = "no"
  /\ stream = "none" /\ expected = NoManifest
  /\ unread = <<>> /\ cut = FALSE /\ digested = <<>> /\ replayed = "no"

-----------------------------------------------------------------------------
\* Checks.

NonDecreasing(s) == \A i \in 1..(Len(s) - 1) : s[i] <= s[i + 1]

\* Mutant: the digest is not compared.
MatchesCounts(m, s) ==
  /\ m.count = Len(s)
  /\ m.first = (IF s = <<>> THEN None ELSE s[1])
  /\ m.last = (IF s = <<>> THEN None ELSE s[Len(s)])

\* The checks after the last record: count, timestamps, digest.
Matches(m, s) ==
  /\ m.count = Len(s)
  /\ m.first = (IF s = <<>> THEN None ELSE s[1])
  /\ m.last = (IF s = <<>> THEN None ELSE s[Len(s)])
  /\ m.hash = s

\* validate_integrity accepts the frame file under manifest m.
Intact(m) ==
  /\ damaged # "unreadable" /\ ~torn
  /\ \A i \in DOMAIN file : file[i] # Garbage
  /\ NonDecreasing(file)
  /\ Matches(m, file)

\* __init__ reads the manifest and accepts it, and so does validate_integrity.
Valid ==
  /\ stored # NoManifest /\ WellFormed(stored) /\ stored.status = "complete"
  /\ Intact(stored)

\* SessionCatalog.list() raises: one bad artifact under a final name hides all.
ListFails == place = "final" /\ ~Valid

-----------------------------------------------------------------------------
\* The reader.

\* SessionCatalog.reader(session_id): a KeyError without the directory; what is
\* not valid, or was recorded under another DBC, is refused.
OpenReader(compatible) ==
  /\ place = "final" /\ stream = "none"
  /\ IF Valid /\ compatible
     THEN stream' = "checked" /\ expected' = stored
     ELSE stream' = "failed" /\ UNCHANGED expected
  /\ UNCHANGED <<vars, damaged, unread, cut, digested, replayed>>

\* frames(): open and read the header.
OpenStream ==
  /\ stream = "checked"
  /\ stream' = IF damaged = "unreadable" THEN "failed" ELSE "open"
  /\ unread' = file /\ cut' = torn
  /\ UNCHANGED <<vars, damaged, expected, digested>>

\* The next record is a frame that does not move backward.
Deliverable ==
  /\ stream = "open" /\ unread # <<>>
  /\ Head(unread) # Garbage
  /\ digested # <<>> => Head(unread) >= digested[Len(digested)]

Deliver ==
  /\ Deliverable
  /\ digested' = Append(digested, Head(unread))
  /\ unread' = Tail(unread)
  /\ UNCHANGED <<vars, damaged, stream, expected, cut>>

\* A bad or short record ends the stream with an error.
BreakOff ==
  /\ stream = "open"
  /\ IF unread = <<>> THEN cut ELSE ~Deliverable
  /\ stream' = "failed"
  /\ UNCHANGED <<vars, damaged, expected, unread, cut, digested>>

EndStream ==
  /\ stream = "open" /\ unread = <<>> /\ ~cut
  /\ stream' = IF Matches(expected, digested) THEN "ended" ELSE "failed"
  /\ UNCHANGED <<vars, damaged, expected, unread, cut, digested>>

-----------------------------------------------------------------------------
\* A replay ingests every frame as it comes and completes when the stream ends.

\* replay_session checks the artifact once more before it streams it, the
\* service's worker does not.
Replay(again) ==
  /\ stream = "checked" /\ replayed = "no"
  /\ IF again => Intact(expected)
     THEN OpenStream /\ replayed' = "running"
     ELSE /\ stream' = "failed"
          /\ UNCHANGED <<vars, damaged, expected, unread, cut, digested, replayed>>

ReplayFrame ==
  /\ replayed = "running"
  /\ Deliver \/ BreakOff
  /\ UNCHANGED replayed

ReplayEnds ==
  /\ replayed = "running"
  /\ EndStream
  /\ replayed' = IF stream' = "ended" THEN "complete" ELSE "running"

-----------------------------------------------------------------------------
\* The environment changes a published artifact.

\* One record changed or added, or the file cut off, perhaps within a record.
Edited == {[file EXCEPT ![i] = t] : i \in DOMAIN file, t \in Time \cup {Garbage}}
            \cup {Append(file, t) : t \in Time}
CutOff == {SubSeq(file, 1, n) : n \in 0..Len(file)}
Versions == [content : Edited, part : {FALSE}] \cup [content : CutOff, part : BOOLEAN]

\* The open stream sees the change from its position on.  Records it has read
\* ahead keep their old content: what it then delivers is the recorded file or
\* that of a later cut, which other versions stand for.
DamageFrames(version) ==
  /\ version # [content |-> file, part |-> FALSE]
  /\ damaged' = "frames" /\ file' = version.content /\ torn' = version.part
  /\ IF stream = "open"
     THEN LET from == Len(digested) + 1
          IN  /\ unread' = SubSeq(version.content, from, Len(version.content))
              /\ cut' = (version.part /\ from <= Len(version.content) + 1)
              /\ <<unread', cut'>> # <<unread, cut>>
     ELSE UNCHANGED <<unread, cut>>
  /\ UNCHANGED <<pc, memory, place, stored, stream, expected, digested, replayed>>

\* frames.bin is removed or its header is changed; an open stream has read it.
LoseFrames ==
  /\ stream \in {"none", "checked"}
  /\ damaged' = "unreadable"
  /\ UNCHANGED <<vars, reading>>

\* A reader keeps the manifest it has read.
DamageManifest(m) ==
  /\ stream = "none"
  /\ m # stored
  /\ damaged' = "manifest" /\ stored' = m
  /\ UNCHANGED <<pc, memory, place, file, torn, reading>>

DamagedManifests ==
  {NoManifest}
    \cup {[stored EXCEPT !.status = s] : s \in Statuses}
    \cup {[stored EXCEPT !.count = n] : n \in 0..MaxRecords}
    \cup {[stored EXCEPT !.first = t] : t \in Time}
    \cup {[stored EXCEPT !.hash = <<>>]}

Damage ==
  /\ place = "final" /\ damaged = "no"
  /\ stream \notin {"ended", "failed"}
  /\ \/ \E version \in Versions : DamageFrames(version)
     \/ LoseFrames
     \/ \E m \in DamagedManifests : DamageManifest(m)

-----------------------------------------------------------------------------
ReaderNext ==
  \/ Next /\ UNCHANGED <<damaged, reading>>
  \/ Damage
  \/ \E compatible \in BOOLEAN : OpenReader(compatible)
  \/ \E again \in BOOLEAN : Replay(again)
  \/ ReplayFrame \/ ReplayEnds

ReaderSpec == ReaderInit /\ [][ReaderNext]_artifactVars

-----------------------------------------------------------------------------
\* Properties.

\* What a recorder leaves behind can be read: every manifest it writes passes
\* the reader's own checks, one that says "complete" is true of the frame file
\* beside it, wherever the artifact stands, whichever file-system call has
\* failed and whenever the process was killed, and the catalog, whose list()
\* fails as a whole on one bad artifact, never meets one under a final name
\* (recorder.py complete and abort, models.py _validate_consistency).
CompleteManifestIsTrue ==
  damaged = "no" =>
    /\ stored # NoManifest => WellFormed(stored)
    /\ stored.status = "complete" => Valid
    /\ ~ListFails

\* A replay that reports completion has ingested exactly the frames that were
\* recorded, in their order, although it streams a file that was checked
\* earlier and may have changed before or under the stream; and a reader that
\* fails does so only for a changed artifact or another DBC
\* (SessionReader.frames, the checks after the last record).
ReplayIsRecording ==
  /\ replayed = "complete" => digested = hashed
  /\ stream = "failed" /\ expected # NoManifest => damaged # "no"
=============================================================================
