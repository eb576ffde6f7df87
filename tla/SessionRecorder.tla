---------------------------- MODULE SessionRecorder ----------------------------
(***************************************************************************)
(* One session artifact, from SessionRecorder.__init__ to publication       *)
(* (backend/src/tuneros/session/recorder.py, format.py), and what a reader   *)
(* requires of its manifest (models.py).  SessionReader.tla reads it back.  *)
(*                                                                         *)
(* The recorder's operations are split at their file-system calls: each    *)
(* may raise OSError, and the process may be killed between any two.  A     *)
(* frame is abstracted to its timestamp, the SHA-256 of the frame file to   *)
(* the sequence of frames hashed.  Renames are atomic (os.replace).         *)
(***************************************************************************)
EXTENDS Integers, Sequences

CONSTANTS
  MaxTime,      \* bound: latest frame timestamp
  MaxRecords    \* bound: frames recorded

ASSUME RecorderAssumption == MaxTime \in Nat /\ MaxRecords \in Nat

None == -1
Time == 0..MaxTime
Statuses == {"recording", "complete", "incomplete"}

VARIABLES
  pc,          \* the recorder call in progress, at its next file-system call
  manifest,    \* _manifest, in memory
  hashed,      \* _hasher: the frames it has digested
  closed,      \* _closed
  buffer,      \* what has been written to _stream, oldest first
  place,       \* the artifact directory: "absent", "partial" or "final"
  file,        \* frames.bin as another process sees it
  torn,        \* frames.bin ends in part of a record
  stored       \* manifest.json on disk; NoManifest while there is none

memory == <<manifest, hashed, closed, buffer>>
disk == <<place, file, torn, stored>>
vars == <<pc, memory, disk>>

Manifests ==
  [status : Statuses, count : Nat, first : Time \cup {None}, last : Time \cup {None},
   duration : Nat, hash : Seq(Time) \cup {<<None>>}, failed : BOOLEAN]
NoHash == <<None>>
NoManifest == [status |-> "absent"]
\* failed stands for a failure_reason, which is never the empty string.
Fresh == [status |-> "recording", count |-> 0, first |-> None, last |-> None,
          duration |-> 0, hash |-> NoHash, failed |-> FALSE]

\* from_dict and _validate_consistency: what read_manifest accepts.
WellFormed(m) ==
  /\ m.status \in Statuses
  /\ IF m.count = 0
     THEN m.first = None /\ m.last = None /\ m.duration = 0
     ELSE /\ m.first # None /\ m.last # None
          /\ m.first <= m.last /\ m.duration = m.last - m.first
  /\ (m.hash = NoHash) <=> (m.status = "recording")
  /\ m.failed <=> (m.status = "incomplete")

Recording == ~closed /\ manifest.status = "recording"

Init ==
  /\ pc = "new"
  /\ manifest = Fresh /\ hashed = <<>> /\ closed = FALSE /\ buffer = <<>>
  /\ place = "absent" /\ file = <<>> /\ torn = FALSE /\ stored = NoManifest

-----------------------------------------------------------------------------
\* __init__

\* mkdir, before the calibration arguments are checked: a rejected call leaves
\* an empty directory behind.
MakeDirectory(valid) ==
  /\ pc = "new"
  /\ place' = "partial"
  /\ pc' = IF valid THEN "open" ELSE "raised"
  /\ UNCHANGED <<memory, file, torn, stored>>

\* open("wb"), the header and the first manifest; a failed open or write raises.
Open(ok) ==
  /\ pc = "open"
  /\ stored' = IF ok THEN manifest ELSE NoManifest
  /\ pc' = IF ok THEN "idle" ELSE "raised"
  /\ UNCHANGED <<memory, place, file, torn>>

-----------------------------------------------------------------------------
\* record(frame)

Record(t) ==
  /\ pc = "idle" /\ Recording
  /\ manifest.count < MaxRecords
  /\ t >= manifest.last
  /\ buffer' = Append(buffer, t)
  /\ hashed' = Append(hashed, t)
  /\ LET first == IF manifest.first = None THEN t ELSE manifest.first
     IN  manifest' = [manifest EXCEPT !.count = @ + 1, !.first = first, !.last = t,
                                      !.duration = t - first]
  /\ UNCHANGED <<pc, closed, disk>>

\* A frame that moves backward is rejected; a failed write of the buffered
\* stream may have kept the record.  Either error makes the caller abort.
RecordFails(t) ==
  /\ pc = "idle" /\ Recording
  /\ \/ t < manifest.last /\ UNCHANGED buffer
     \/ /\ t >= manifest.last /\ manifest.count < MaxRecords
        /\ buffer' \in {buffer, Append(buffer, t)}
  /\ pc' = "abort"
  /\ UNCHANGED <<manifest, hashed, closed, disk>>

\* The buffered stream, or the kernel, writes some of it out at any time.
WriteBack(n, part) ==
  /\ pc # "crashed" /\ ~closed
  /\ n \in Len(file)..Len(buffer)
  /\ part => n < Len(buffer)
  /\ file' = SubSeq(buffer, 1, n)
  /\ torn' = part
  /\ UNCHANGED <<pc, memory, place, stored>>

-----------------------------------------------------------------------------
\* complete() and abort(reason)

Complete ==
  /\ pc = "idle" /\ Recording
  /\ pc' = "finish_complete"
  /\ UNCHANGED <<memory, disk>>

\* abort of a closed recorder returns at once; close() and the context
\* manager's __exit__ end in one of these two calls.
Abort ==
  /\ pc \in {"idle", "abort"} /\ ~closed
  /\ pc' = "finish_abort"
  /\ UNCHANGED <<memory, disk>>

CompleteManifest == [manifest EXCEPT !.status = "complete", !.hash = hashed]
IncompleteManifest ==
  [manifest EXCEPT !.status = "incomplete", !.hash = hashed, !.failed = TRUE]

\* _finish_stream: flush, fsync and close.  The finally clause marks the
\* recorder closed on an error too.
FinishStream(ok) ==
  /\ pc \in {"finish_complete", "finish_abort"}
  /\ closed' = TRUE
  /\ IF ok
     THEN /\ file' = buffer /\ torn' = FALSE
          /\ IF pc = "finish_complete"
             THEN pc' = "publish_manifest" /\ UNCHANGED manifest
             ELSE pc' = "abort_manifest" /\ manifest' = IncompleteManifest
     ELSE pc' = "raised" /\ UNCHANGED <<manifest, file, torn>>
  /\ UNCHANGED <<hashed, buffer, place, stored>>

\* Mutant: an error writing the complete manifest is ignored.
PublishManifestAnyway(ok) ==
  /\ pc = "publish_manifest"
  /\ stored' = IF ok THEN CompleteManifest ELSE stored
  /\ pc' = "rename"
  /\ UNCHANGED <<memory, place, file, torn>>

\* complete: write_manifest_atomic of the complete manifest.
PublishManifest(ok) ==
  /\ pc = "publish_manifest"
  /\ stored' = IF ok THEN CompleteManifest ELSE stored
  /\ pc' = IF ok THEN "rename" ELSE "repair"
  /\ UNCHANGED <<memory, place, file, torn>>

\* complete: os.replace of the directory.
Rename(ok) ==
  /\ pc = "rename"
  /\ IF ok
     THEN place' = "final" /\ manifest' = CompleteManifest /\ pc' = "done"
     ELSE pc' = "repair" /\ UNCHANGED <<place, manifest>>
  /\ UNCHANGED <<hashed, closed, buffer, file, torn, stored>>

\* complete: an error so far makes the session incomplete, on disk too if that
\* write succeeds; the error is raised again.
Repair(ok) ==
  /\ pc = "repair"
  /\ manifest' = IncompleteManifest
  /\ stored' = IF ok THEN manifest' ELSE stored
  /\ pc' = "raised"
  /\ UNCHANGED <<hashed, closed, buffer, place, file, torn>>

\* abort: write_manifest_atomic of the incomplete manifest.
AbortManifest(ok) ==
  /\ pc = "abort_manifest"
  /\ stored' = IF ok THEN manifest ELSE stored
  /\ pc' = IF ok THEN "done" ELSE "raised"
  /\ UNCHANGED <<memory, place, file, torn>>

\* The process is killed; what it had not written out is lost.
Crash ==
  /\ pc \notin {"crashed", "done", "raised"}
  /\ pc' = "crashed"
  /\ UNCHANGED <<memory, disk>>

-----------------------------------------------------------------------------
Next ==
  \/ \E ok \in BOOLEAN :
       \/ MakeDirectory(ok) \/ Open(ok)
       \/ FinishStream(ok) \/ PublishManifest(ok) \/ Rename(ok) \/ Repair(ok)
       \/ AbortManifest(ok)
  \/ \E t \in Time : Record(t) \/ RecordFails(t)
  \/ \E n \in 0..(MaxRecords + 1), part \in BOOLEAN : WriteBack(n, part)
  \/ Complete \/ Abort \/ Crash

Spec == Init /\ [][Next]_vars

-----------------------------------------------------------------------------
\* Properties.

TypeOK ==
  /\ pc \in {"new", "open", "idle", "abort", "finish_complete", "finish_abort",
             "publish_manifest", "rename", "repair", "abort_manifest", "done",
             "raised", "crashed"}
  /\ manifest \in Manifests
  /\ hashed \in Seq(Time) /\ buffer \in Seq(Time) /\ file \in Seq(Time)
  /\ closed \in BOOLEAN /\ torn \in BOOLEAN
  /\ place \in {"absent", "partial", "final"}
  /\ stored \in Manifests \cup {NoManifest}

\* docs/SESSIONS.md, "Recording lifecycle": on a failure the recorder leaves an
\* "incomplete" manifest inside the ".partial" directory.
FailureLeavesIncomplete ==
  (pc = "raised" /\ stored # NoManifest) => stored.status = "incomplete"
=============================================================================
