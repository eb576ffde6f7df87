----------------------------- MODULE SessionProofs -----------------------------
(***************************************************************************)
(* Recording, reading and investigating a session, for sessions of any       *)
(* length and any window, signals and limits.                               *)
(*                                                                         *)
(* The argument: whatever file-system call fails, a manifest that says        *)
(* "complete" is written only over a closed and synced file, and only a       *)
(* directory with that manifest gets the final name (DiskInv).  Of the two    *)
(* files a change spares one, so a reader that accepts both holds the digest  *)
(* of what was recorded (ReaderInv), and a stream that ends under it has      *)
(* delivered just that.  The pass over the stream keeps, at every frame, the  *)
(* exact answer for the frames read so far (ScanInv).                        *)
(***************************************************************************)
EXTENDS SessionInvestigation, FiniteSetTheorems, WellFoundedInduction, TLAPS

-----------------------------------------------------------------------------
\* Sequences and numbers.

\* Any two, not only adjacent ones: adjacent order would need an induction.
Ordered(s) == \A i, j \in DOMAIN s : i <= j => s[i] <= s[j]

LEMMA WiderSeq ==
  ASSUME NEW A, NEW B, A \subseteq B, NEW s \in Seq(A)
  PROVE  s \in Seq(B)
<1>1. s \in [1..Len(s) -> B] /\ Len(s) \in Nat
  OBVIOUS
<1>2. QED
  BY <1>1

LEMMA RestType ==
  ASSUME NEW s \in Seq(Int), NEW m \in Nat \ {0}
  PROVE  SubSeq(s, m, Len(s)) \in Seq(Int)
  OBVIOUS

LEMMA SameSequence ==
  ASSUME NEW s \in Seq(Int), NEW t \in Seq(Int), Len(s) = Len(t),
         \A i \in 1..Len(s) : s[i] = t[i]
  PROVE  s = t
  OBVIOUS

LEMMA AppendOrdered ==
  ASSUME NEW s \in Seq(Int), Ordered(s), NEW t \in Int,
         s # <<>> => s[Len(s)] <= t
  PROVE  Ordered(Append(s, t))
<1> DEFINE a == Append(s, t)
<1>1. /\ Len(s) \in Nat /\ DOMAIN s = 1..Len(s) /\ DOMAIN a = 1..(Len(s) + 1)
      /\ \A i \in 1..Len(s) : a[i] = s[i] /\ s[i] \in Int
      /\ a[Len(s) + 1] = t
  OBVIOUS
<1>2. \A i \in 1..Len(s) : s[i] <= t
  <2> SUFFICES ASSUME NEW i \in 1..Len(s) PROVE s[i] <= t
    OBVIOUS
  <2>1. s # <<>> /\ Len(s) \in DOMAIN s /\ i \in DOMAIN s /\ i <= Len(s)
    BY <1>1
  <2>2. s[i] <= s[Len(s)] /\ s[Len(s)] <= t /\ s[Len(s)] \in Int /\ s[i] \in Int
    BY <1>1, <2>1 DEF Ordered
  <2>3. QED
    BY <2>2
<1> HIDE DEF a
<1>3. ASSUME NEW i \in DOMAIN a, NEW j \in DOMAIN a, i <= j
      PROVE  a[i] <= a[j]
  <2>1. CASE j \in 1..Len(s)
    BY <1>1, <1>3, <2>1 DEF Ordered
  <2>2. CASE j = Len(s) + 1
    BY <1>1, <1>2, <1>3, <2>2
  <2>3. QED
    BY <1>1, <2>1, <2>2
<1>4. QED
  BY <1>3 DEF Ordered, a

LEMMA LeastNatural ==
  ASSUME NEW T \in SUBSET Nat, T # {}
  PROVE  \E m \in T : \A k \in T : m <= k
<1>1. PICK m \in T : \A k \in T : ~ (<<k, m>> \in OpToRel(<, Nat))
  BY WFMin, NatLessThanWellFounded
<1>2. \A k \in T : ~(k < m)
  BY <1>1 DEF OpToRel
<1>3. QED
  BY <1>2

LEMMA GreatestNatural ==
  ASSUME NEW n \in Nat, NEW T \in SUBSET (0..n), T # {}
  PROVE  \E m \in T : \A k \in T : k <= m
<1> DEFINE U == {n - k : k \in T}
<1>1. U \in SUBSET Nat
  OBVIOUS
<1>2. U # {}
  <2>1. PICK k \in T : TRUE
    OBVIOUS
  <2>2. n - k \in U
    OBVIOUS
  <2>3. QED
    BY <2>2
<1>3. PICK u \in U : \A v \in U : u <= v
  <2> HIDE DEF U
  <2>1. QED
    BY <1>1, <1>2, LeastNatural
<1>4. PICK m \in T : u = n - m
  OBVIOUS
<1>5. \A k \in T : n - m <= n - k
  BY <1>3, <1>4
<1>6. QED
  BY <1>5

-----------------------------------------------------------------------------
\* The recorder.

\* The manifest of a recorder that has hashed s.
TrueOf(m, s) ==
  /\ m \in Manifests
  /\ m.count = Len(s)
  /\ m.first = IF s = <<>> THEN None ELSE s[1]
  /\ m.last = IF s = <<>> THEN None ELSE s[Len(s)]
  /\ m.duration = IF s = <<>> THEN 0 ELSE m.last - m.first
  /\ m.hash = IF m.status = "recording" THEN NoHash ELSE s
  /\ m.failed = (m.status = "incomplete")

MemoryInv ==
  /\ hashed \in Seq(Time) /\ buffer \in Seq(Time) /\ closed \in BOOLEAN
  /\ Ordered(hashed)
  /\ TrueOf(manifest, hashed)
  /\ closed => pc \in {"publish_manifest", "rename", "repair", "abort_manifest",
                       "done", "raised", "crashed"}
  /\ pc \in {"new", "open", "idle", "finish_complete"} => buffer = hashed
  /\ pc \in {"new", "open", "idle", "abort", "finish_complete", "finish_abort",
             "publish_manifest", "rename", "repair"} => manifest.status = "recording"
  /\ pc = "abort_manifest" => manifest.status = "incomplete"
  /\ place = "final" => pc = "done" /\ closed

\* What the disk holds of a recording that nobody has changed.
DiskInv ==
  /\ stored # NoManifest => WellFormed(stored)
  /\ stored.status = "complete" =>
       TrueOf(stored, hashed) /\ file = hashed /\ torn = FALSE /\ closed
  /\ pc \in {"publish_manifest", "rename", "repair"} =>
       file = hashed /\ torn = FALSE /\ closed
  /\ pc = "rename" => stored.status = "complete"
  /\ place = "final" => stored.status = "complete"
  /\ file \in Seq(Time) /\ torn \in BOOLEAN

\* A true manifest passes _validate_consistency.
LEMMA TrueIsWellFormed ==
  ASSUME NEW s \in Seq(Time), Ordered(s), NEW m, TrueOf(m, s)
  PROVE  WellFormed(m)
<1>t. Time \subseteq Int /\ \A t \in Time : t # None
  BY RecorderAssumption DEF Time, None
<1>1. m.status \in Statuses /\ m.failed \in BOOLEAN
  BY DEF TrueOf, Manifests
<1>2. m.failed <=> (m.status = "incomplete")
  BY <1>1 DEF TrueOf
<1>3. s # NoHash
  <2>1. Len(NoHash) = 1 /\ NoHash[1] = None
    BY DEF NoHash
  <2>2. Len(s) = 1 => s[1] \in Time
    OBVIOUS
  <2>3. QED
    BY <1>t, <2>1, <2>2
<1>4. (m.hash = NoHash) <=> (m.status = "recording")
  BY <1>3 DEF TrueOf
<1>5. CASE s = <<>>
  BY <1>1, <1>2, <1>4, <1>5 DEF TrueOf, WellFormed
<1>6. CASE s # <<>>
  <2>1. Len(s) \in Nat \ {0} /\ 1 \in DOMAIN s /\ Len(s) \in DOMAIN s
    BY <1>6
  <2>2. s[1] <= s[Len(s)] /\ s[1] \in Time /\ s[Len(s)] \in Time
    BY <2>1 DEF Ordered
  <2>3. QED
    BY <1>1, <1>2, <1>4, <1>6, <1>t, <2>1, <2>2 DEF TrueOf, WellFormed
<1>7. QED
  BY <1>5, <1>6

\* Setting the fields that a manifest has at its end.
LEMMA EndManifests ==
  ASSUME MemoryInv, manifest.status = "recording"
  PROVE  /\ TrueOf(CompleteManifest, hashed) /\ CompleteManifest.status = "complete"
         /\ TrueOf(IncompleteManifest, hashed) /\ IncompleteManifest.status = "incomplete"
<1>1. manifest \in Manifests /\ hashed \in Seq(Time) /\ TrueOf(manifest, hashed)
  BY DEF MemoryInv, TrueOf
<1>2. CompleteManifest \in Manifests /\ IncompleteManifest \in Manifests
  BY <1>1 DEF CompleteManifest, IncompleteManifest, Manifests, Statuses
<1>3. /\ CompleteManifest.status = "complete" /\ CompleteManifest.hash = hashed
      /\ CompleteManifest.count = manifest.count /\ CompleteManifest.first = manifest.first
      /\ CompleteManifest.last = manifest.last /\ CompleteManifest.duration = manifest.duration
      /\ CompleteManifest.failed = manifest.failed
  BY <1>1 DEF CompleteManifest, Manifests
<1>4. /\ IncompleteManifest.status = "incomplete" /\ IncompleteManifest.hash = hashed
      /\ IncompleteManifest.count = manifest.count
      /\ IncompleteManifest.first = manifest.first
      /\ IncompleteManifest.last = manifest.last
      /\ IncompleteManifest.duration = manifest.duration /\ IncompleteManifest.failed = TRUE
  BY <1>1 DEF IncompleteManifest, Manifests
<1>5. QED
  BY <1>1, <1>2, <1>3, <1>4 DEF TrueOf

\* record(frame): what the manifest says of the frames grows with them.
LEMMA RecordTrue ==
  ASSUME MemoryInv, NEW t \in Time, Record(t)
  PROVE  /\ hashed' \in Seq(Time) /\ Ordered(hashed')
         /\ TrueOf(manifest', hashed') /\ manifest'.status = "recording"
<1> DEFINE first == IF manifest.first = None THEN t ELSE manifest.first
           m == [manifest EXCEPT !.count = @ + 1, !.first = first, !.last = t,
                                 !.duration = t - first]
           h == Append(hashed, t)
<1>t. Time \subseteq Int /\ (\A u \in Time : u # None /\ u \in Nat)
  BY RecorderAssumption DEF Time, None
<1>1. /\ hashed' = h /\ manifest' = m /\ t >= manifest.last
  BY DEF Record
<1>2. /\ manifest \in Manifests /\ hashed \in Seq(Time) /\ TrueOf(manifest, hashed)
      /\ manifest.status = "recording" /\ Ordered(hashed)
  BY DEF MemoryInv, TrueOf, Record
<1>3. h \in Seq(Time) /\ Len(h) = Len(hashed) + 1 /\ h # <<>> /\ h[Len(h)] = t
      /\ h[1] = (IF hashed = <<>> THEN t ELSE hashed[1]) /\ Len(hashed) \in Nat
  BY <1>2
<1>4. hashed # <<>> => hashed[1] \in Time /\ hashed[Len(hashed)] \in Time
  BY <1>2
<1>5. first = h[1] /\ first \in Time
  BY <1>2, <1>3, <1>4, <1>t DEF TrueOf
<1>6. hashed # <<>> => hashed[Len(hashed)] <= t
  BY <1>1, <1>2 DEF TrueOf
<1>7. Ordered(h)
  <2>1. hashed \in Seq(Int) /\ t \in Int
    BY <1>2, <1>t, WiderSeq
  <2>2. QED
    BY <1>2, <1>6, <2>1, AppendOrdered
<1>8. first <= t
  <2>1. 1 \in DOMAIN h /\ Len(h) \in DOMAIN h /\ 1 <= Len(h)
    BY <1>3
  <2>2. QED
    BY <1>3, <1>5, <1>7, <2>1 DEF Ordered
<1> HIDE DEF first, h
<1>9. t - first \in Nat
  BY <1>5, <1>8, <1>t
<1>10. /\ m \in Manifests /\ m.count = manifest.count + 1 /\ m.first = first /\ m.last = t
       /\ m.duration = t - first /\ m.hash = manifest.hash /\ m.failed = manifest.failed
       /\ m.status = manifest.status
  <2>1. ASSUME NEW n \in Nat, NEW d \in Nat
        PROVE  [manifest EXCEPT !.count = n, !.first = first, !.last = t, !.duration = d]
                 \in Manifests
    BY <1>2, <1>5 DEF Manifests
  <2>2. manifest.count + 1 \in Nat
    BY <1>2 DEF Manifests
  <2>3. m \in Manifests
    BY <1>9, <2>1, <2>2
  <2>4. QED
    BY <1>2, <2>3 DEF Manifests
<1> HIDE DEF m
<1>11. TrueOf(m, h)
  BY <1>2, <1>3, <1>5, <1>10 DEF TrueOf
<1>12. QED
  BY <1>1, <1>2, <1>3, <1>7, <1>10, <1>11

\* Under a final name the recorder has nothing left to do.
LEMMA FinalIsQuiet ==
  ASSUME MemoryInv, Next
  PROVE  place # "final"
BY DEF MemoryInv, Next, MakeDirectory, Open, FinishStream, PublishManifest, Rename, Repair,
       AbortManifest, Record, RecordFails, WriteBack, Complete, Abort, Crash

LEMMA RecorderStep ==
  ASSUME MemoryInv, DiskInv, Next
  PROVE  MemoryInv' /\ DiskInv'
<1> USE DEF memory, disk
<1>f. place # "final"
  BY FinalIsQuiet
<1>w. WellFormed(manifest) /\ hashed \in Seq(Time) /\ TrueOf(manifest, hashed) /\ Ordered(hashed)
  BY TrueIsWellFormed DEF MemoryInv
<1>1. ASSUME NEW ok \in BOOLEAN, MakeDirectory(ok)
      PROVE  MemoryInv' /\ DiskInv'
  BY <1>1 DEF MakeDirectory, MemoryInv, DiskInv
<1>2. ASSUME NEW ok \in BOOLEAN, Open(ok)
      PROVE  MemoryInv' /\ DiskInv'
  <2>1. NoManifest.status = "absent"
    BY DEF NoManifest
  <2>2. MemoryInv'
    BY <1>2, <1>f DEF Open, MemoryInv
  <2>3. manifest.status = "recording" /\ ~closed
    BY <1>2 DEF Open, MemoryInv
  <2>4. stored' \in {manifest, NoManifest} /\ stored'.status # "complete" /\ pc' \in {"idle", "raised"}
    BY <1>2, <2>1, <2>3 DEF Open
  <2>5. QED
    BY <1>2, <1>f, <1>w, <2>2, <2>4 DEF Open, DiskInv
<1>3. ASSUME NEW ok \in BOOLEAN, FinishStream(ok)
      PROVE  MemoryInv' /\ DiskInv'
  <2>1. manifest.status = "recording" /\ ~closed /\ stored.status # "complete"
    BY <1>3 DEF FinishStream, MemoryInv, DiskInv
  <2>2. TrueOf(IncompleteManifest, hashed) /\ IncompleteManifest.status = "incomplete"
    BY <2>1, EndManifests
  <2>3. MemoryInv'
    BY <1>3, <1>f, <2>1, <2>2 DEF FinishStream, MemoryInv
  <2>4. DiskInv'
    BY <1>3, <1>f, <2>1 DEF FinishStream, MemoryInv, DiskInv
  <2>5. QED
    BY <2>3, <2>4
<1>4. ASSUME NEW ok \in BOOLEAN, PublishManifest(ok)
      PROVE  MemoryInv' /\ DiskInv'
  <2>1. manifest.status = "recording" /\ closed /\ file = hashed /\ torn = FALSE
    BY <1>4 DEF PublishManifest, MemoryInv, DiskInv
  <2>2. /\ TrueOf(CompleteManifest, hashed) /\ CompleteManifest.status = "complete"
        /\ WellFormed(CompleteManifest)
    BY <1>w, <2>1, EndManifests, TrueIsWellFormed
  <2>3. MemoryInv'
    BY <1>4, <1>f, <2>1 DEF PublishManifest, MemoryInv
  <2>4. \/ stored' = CompleteManifest /\ pc' = "rename"
        \/ stored' = stored /\ pc' = "repair"
    BY <1>4 DEF PublishManifest
  <2>5. DiskInv'
    BY <1>4, <1>f, <2>1, <2>2, <2>4 DEF PublishManifest, DiskInv
  <2>6. QED
    BY <2>3, <2>5
<1>5. ASSUME NEW ok \in BOOLEAN, Rename(ok)
      PROVE  MemoryInv' /\ DiskInv'
  <2>1. manifest.status = "recording" /\ closed /\ file = hashed /\ torn = FALSE
        /\ stored.status = "complete"
    BY <1>5 DEF Rename, MemoryInv, DiskInv
  <2>2. TrueOf(CompleteManifest, hashed)
    BY <2>1, EndManifests
  <2>3. MemoryInv'
    BY <1>5, <1>f, <2>1, <2>2 DEF Rename, MemoryInv
  <2>4. DiskInv'
    BY <1>5, <1>f, <2>1 DEF Rename, DiskInv
  <2>5. QED
    BY <2>3, <2>4
<1>6. ASSUME NEW ok \in BOOLEAN, Repair(ok)
      PROVE  MemoryInv' /\ DiskInv'
  <2>1. manifest.status = "recording" /\ closed
    BY <1>6 DEF Repair, MemoryInv, DiskInv
  <2>2. /\ TrueOf(IncompleteManifest, hashed) /\ IncompleteManifest.status = "incomplete"
        /\ WellFormed(IncompleteManifest)
    BY <1>w, <2>1, EndManifests, TrueIsWellFormed
  <2>3. MemoryInv'
    BY <1>6, <1>f, <2>1, <2>2 DEF Repair, MemoryInv
  <2>4. stored' = IncompleteManifest \/ stored' = stored
    BY <1>6 DEF Repair
  <2>5. DiskInv'
    BY <1>6, <1>f, <2>2, <2>4 DEF Repair, DiskInv
  <2>6. QED
    BY <2>3, <2>5
<1>7. ASSUME NEW ok \in BOOLEAN, AbortManifest(ok)
      PROVE  MemoryInv' /\ DiskInv'
  <2>1. manifest.status = "incomplete"
    BY <1>7 DEF AbortManifest, MemoryInv
  <2>2. MemoryInv'
    BY <1>7, <1>f DEF AbortManifest, MemoryInv
  <2>3. stored' \in {manifest, stored} /\ pc' \in {"done", "raised"}
    BY <1>7 DEF AbortManifest
  <2>4. DiskInv'
    BY <1>7, <1>f, <1>w, <2>1, <2>3 DEF AbortManifest, DiskInv
  <2>5. QED
    BY <2>2, <2>4
<1>8. ASSUME NEW t \in Time, Record(t)
      PROVE  MemoryInv' /\ DiskInv'
  <2>1. ~closed /\ stored.status # "complete" /\ pc = "idle" /\ buffer = hashed
    BY <1>8 DEF Record, Recording, MemoryInv, DiskInv
  <2>2. buffer' = hashed' /\ pc' = pc /\ closed' = closed /\ UNCHANGED disk
    BY <1>8, <2>1 DEF Record
  <2>3. /\ hashed' \in Seq(Time) /\ Ordered(hashed')
        /\ TrueOf(manifest', hashed') /\ manifest'.status = "recording"
    BY <1>8, RecordTrue
  <2>4. MemoryInv'
    BY <1>f, <2>1, <2>2, <2>3 DEF MemoryInv
  <2>5. DiskInv'
    BY <1>f, <2>1, <2>2 DEF DiskInv
  <2>6. QED
    BY <2>4, <2>5
<1>9. ASSUME NEW t \in Time, RecordFails(t)
      PROVE  MemoryInv' /\ DiskInv'
  <2>1. ~closed /\ stored.status # "complete" /\ pc = "idle" /\ pc' = "abort"
    BY <1>9 DEF RecordFails, Recording, MemoryInv, DiskInv
  <2>2. buffer' \in {buffer, Append(buffer, t)} /\ UNCHANGED <<manifest, hashed, closed, disk>>
    BY <1>9 DEF RecordFails
  <2>3. buffer' \in Seq(Time)
    BY <2>2 DEF MemoryInv
  <2>4. MemoryInv'
    BY <1>f, <2>1, <2>2, <2>3 DEF MemoryInv
  <2>5. DiskInv'
    BY <1>f, <2>1, <2>2 DEF DiskInv
  <2>6. QED
    BY <2>4, <2>5
<1>10. ASSUME NEW n \in 0..(MaxRecords + 1), NEW part \in BOOLEAN, WriteBack(n, part)
       PROVE  MemoryInv' /\ DiskInv'
  <2>1. ~closed /\ stored.status # "complete"
    BY <1>10 DEF WriteBack, DiskInv
  <2>2. file' = SubSeq(buffer, 1, n) /\ torn' = part /\ n <= Len(buffer) /\ n \in Nat
    BY <1>10, RecorderAssumption DEF WriteBack, DiskInv
  <2>3. file' \in Seq(Time)
    BY <2>2 DEF MemoryInv
  <2>4. UNCHANGED <<pc, memory, place, stored>>
    BY <1>10 DEF WriteBack
  <2>5. MemoryInv'
    BY <2>4 DEF MemoryInv
  <2>6. DiskInv'
    BY <1>f, <2>1, <2>2, <2>3, <2>4 DEF DiskInv
  <2>7. QED
    BY <2>5, <2>6
<1>11. CASE Complete \/ Abort \/ Crash
  <2>1. UNCHANGED <<memory, disk>>
    BY <1>11 DEF Complete, Abort, Crash
  <2>2. \/ pc = "idle" /\ pc' = "finish_complete" /\ ~closed
        \/ pc \in {"idle", "abort"} /\ pc' = "finish_abort" /\ ~closed
        \/ pc' = "crashed"
    BY <1>11 DEF Complete, Abort, Crash, Recording
  <2>3. MemoryInv'
    BY <1>f, <2>1, <2>2 DEF MemoryInv
  <2>4. DiskInv'
    BY <1>f, <2>1, <2>2 DEF DiskInv
  <2>5. QED
    BY <2>3, <2>4
<1>12. QED
  BY <1>1, <1>2, <1>3, <1>4, <1>5, <1>6, <1>7, <1>8, <1>9, <1>10, <1>11 DEF Next

-----------------------------------------------------------------------------
\* The reader.

\* The recorder's invariant, and what a change of one of the two published files
\* leaves of it: the other file.
ArtifactInv ==
  /\ MemoryInv
  /\ file \in Seq(Int)
  /\ damaged = "no" => DiskInv
  /\ damaged # "no" => place = "final"
  /\ place = "final" /\ damaged # "frames" => file = hashed /\ torn = FALSE
  /\ place = "final" /\ damaged # "manifest" =>
       TrueOf(stored, hashed) /\ stored.status = "complete"

\* d has been read of h and u is still to come.
Aligned(d, u, h) ==
  /\ Len(d) + Len(u) = Len(h)
  /\ \A i \in 1..Len(d) : d[i] = h[i]
  /\ \A i \in 1..Len(u) : u[i] = h[Len(d) + i]

ReaderInv ==
  /\ unread \in Seq(Int) /\ digested \in Seq(Int)
  /\ stream \in {"none", "checked", "open", "ended", "failed"}
  /\ stream # "none" => place = "final"
  /\ stream = "none" => expected = NoManifest
  /\ stream \in {"checked", "open", "ended"} => expected # NoManifest
  /\ expected # NoManifest => Matches(expected, hashed)
  /\ stream \in {"none", "checked"} => digested = <<>>
  /\ Ordered(digested)
  /\ stream = "open" /\ damaged = "no" => cut = FALSE /\ Aligned(digested, unread, hashed)
  /\ stream = "ended" => Matches(expected, digested)
  /\ replayed = "complete" => stream = "ended"
  /\ stream = "failed" /\ expected # NoManifest => damaged # "no"

SessionInv == ArtifactInv /\ ReaderInv

LEMMA TrueMatches ==
  ASSUME NEW m, NEW s, TrueOf(m, s), m.status = "complete"
  PROVE  Matches(m, s)
BY DEF TrueOf, Matches

\* Times are numbers, and no record of a recorder is garbage.
LEMMA HashedFrames ==
  ASSUME MemoryInv
  PROVE  /\ hashed \in Seq(Int) /\ Len(hashed) \in Nat
         /\ \A i \in 1..Len(hashed) : hashed[i] \in Int /\ hashed[i] # Garbage
         /\ \A i, j \in 1..Len(hashed) : i <= j => hashed[i] <= hashed[j]
<1>1. Time \subseteq Int /\ (\A t \in Time : t # Garbage)
  BY RecorderAssumption DEF Time, Garbage
<1>2. hashed \in Seq(Time) /\ Ordered(hashed)
  BY DEF MemoryInv
<1>3. hashed \in Seq(Int)
  BY <1>1, <1>2, WiderSeq
<1>4. QED
  BY <1>1, <1>2, <1>3 DEF Ordered

\* validate_integrity accepts an artifact nobody has changed.
LEMMA IntactUnchanged ==
  ASSUME ArtifactInv, place = "final", damaged = "no", NEW m, Matches(m, hashed)
  PROVE  Intact(m)
<1>1. file = hashed /\ torn = FALSE /\ MemoryInv
  BY DEF ArtifactInv
<1>2. NonDecreasing(file) /\ \A i \in DOMAIN file : file[i] # Garbage
  BY <1>1, HashedFrames DEF NonDecreasing
<1>3. QED
  BY <1>1, <1>2 DEF Intact

\* A step of the recorder comes before any reader.
LEMMA RecorderReader ==
  ASSUME SessionInv, Next, UNCHANGED <<damaged, reading>>
  PROVE  SessionInv'
<1>1. place # "final" /\ damaged = "no" /\ stream = "none"
  BY FinalIsQuiet DEF SessionInv, ArtifactInv, ReaderInv
<1>2. MemoryInv' /\ DiskInv'
  BY <1>1, RecorderStep DEF SessionInv, ArtifactInv
<1>3. damaged' = "no" /\ stream' = "none" /\ expected' = expected /\ digested' = digested
      /\ unread' = unread /\ replayed' = replayed
  BY <1>1 DEF reading
<1>4. file' \in Seq(Int)
  <2>1. Time \subseteq Int
    BY RecorderAssumption DEF Time
  <2>2. QED
    BY <1>2, <2>1, WiderSeq DEF DiskInv
<1>5. ArtifactInv'
  BY <1>2, <1>3, <1>4 DEF ArtifactInv, DiskInv
<1>6. ReaderInv'
  BY <1>1, <1>3 DEF SessionInv, ReaderInv
<1>7. QED
  BY <1>5, <1>6 DEF SessionInv

\* Any change of a published artifact.
LEMMA DamageReader ==
  ASSUME SessionInv, Damage
  PROVE  /\ SessionInv'
         /\ UNCHANGED <<hashed, digested, stream, expected, replayed>>
         /\ damaged' # "no"
<1>1. place = "final" /\ damaged = "no" /\ stream \notin {"ended", "failed"}
  BY DEF Damage
<1>2. /\ file = hashed /\ torn = FALSE /\ TrueOf(stored, hashed) /\ stored.status = "complete"
      /\ file \in Seq(Int)
  BY <1>1 DEF SessionInv, ArtifactInv
<1>t. Time \subseteq Int /\ Garbage \in Int
  BY RecorderAssumption DEF Time, Garbage
<1>3. ASSUME NEW version \in Versions, DamageFrames(version)
      PROVE  /\ SessionInv' /\ damaged' # "no"
             /\ UNCHANGED <<hashed, digested, stream, expected, replayed>>
  <2>1. version.content \in Seq(Int)
    <3>1. ASSUME NEW i \in DOMAIN file, NEW t \in Time \cup {Garbage}
          PROVE  [file EXCEPT ![i] = t] \in Seq(Int)
      BY <1>2, <1>t
    <3>2. ASSUME NEW t \in Time
          PROVE  Append(file, t) \in Seq(Int)
      BY <1>2, <1>t
    <3>3. ASSUME NEW n \in 0..Len(file)
          PROVE  SubSeq(file, 1, n) \in Seq(Int)
      BY <1>2
    <3>4. Edited \subseteq Seq(Int)
      <4> SUFFICES ASSUME NEW x \in Edited PROVE x \in Seq(Int)
        OBVIOUS
      <4>1. \/ \E i \in DOMAIN file, t \in Time \cup {Garbage} : x = [file EXCEPT ![i] = t]
            \/ \E t \in Time : x = Append(file, t)
        BY DEF Edited
      <4>2. QED
        BY <3>1, <3>2, <4>1
    <3>5. CutOff \subseteq Seq(Int)
      BY <3>3 DEF CutOff
    <3>6. version.content \in Edited \cup CutOff
      BY DEF Versions
    <3>7. QED
      BY <3>4, <3>5, <3>6
  <2>2. /\ damaged' = "frames" /\ file' = version.content
        /\ UNCHANGED <<pc, memory, place, stored, stream, expected, digested, replayed>>
        /\ unread' \in {unread, SubSeq(version.content, Len(digested) + 1, Len(version.content))}
    BY <1>3 DEF DamageFrames
  <2>3. unread' \in Seq(Int)
    <3>1. unread \in Seq(Int) /\ Len(digested) + 1 \in Nat \ {0}
      BY DEF SessionInv, ReaderInv
    <3>2. QED
      BY <2>1, <2>2, <3>1, RestType
  <2>4. MemoryInv'
    BY <2>2 DEF memory, SessionInv, ArtifactInv, MemoryInv
  <2>5. ArtifactInv'
    BY <1>1, <1>2, <2>1, <2>2, <2>4 DEF ArtifactInv, memory
  <2>6. ReaderInv'
    BY <2>2, <2>3 DEF memory, SessionInv, ReaderInv
  <2>7. QED
    BY <2>2, <2>5, <2>6 DEF SessionInv, memory
<1>4. ASSUME LoseFrames
      PROVE  /\ SessionInv' /\ damaged' # "no"
             /\ UNCHANGED <<hashed, digested, stream, expected, replayed>>
  <2>1. damaged' = "unreadable" /\ UNCHANGED <<vars, reading>>
    BY <1>4 DEF LoseFrames
  <2>2. MemoryInv'
    BY <2>1 DEF vars, memory, disk, SessionInv, ArtifactInv, MemoryInv
  <2>3. ArtifactInv'
    BY <1>1, <2>1, <2>2 DEF ArtifactInv, SessionInv, vars, memory, disk
  <2>4. ReaderInv'
    BY <2>1 DEF SessionInv, ReaderInv, vars, memory, disk, reading
  <2>5. QED
    BY <2>1, <2>3, <2>4 DEF SessionInv, vars, memory, reading
<1>5. ASSUME NEW m \in DamagedManifests, DamageManifest(m)
      PROVE  /\ SessionInv' /\ damaged' # "no"
             /\ UNCHANGED <<hashed, digested, stream, expected, replayed>>
  <2>1. damaged' = "manifest" /\ UNCHANGED <<pc, memory, place, file, torn, reading>>
    BY <1>5 DEF DamageManifest
  <2>2. MemoryInv'
    BY <2>1 DEF memory, SessionInv, ArtifactInv, MemoryInv
  <2>3. ArtifactInv'
    BY <1>1, <1>2, <2>1, <2>2 DEF ArtifactInv, memory
  <2>4. ReaderInv'
    BY <2>1 DEF SessionInv, ReaderInv, memory, reading
  <2>5. QED
    BY <2>1, <2>3, <2>4 DEF SessionInv, memory, reading
<1>6. QED
  BY <1>3, <1>4, <1>5 DEF Damage

\* A step of the reader leaves the artifact alone.
LEMMA ReaderLeavesArtifact ==
  ASSUME ArtifactInv, UNCHANGED <<vars, damaged>>
  PROVE  ArtifactInv' /\ UNCHANGED <<hashed, place, file, torn, stored>>
BY DEF ArtifactInv, MemoryInv, DiskInv, vars, memory, disk

LEMMA OpenReaderStep ==
  ASSUME SessionInv, NEW compatible \in BOOLEAN, OpenReader(compatible)
  PROVE  SessionInv'
<1>1. place = "final" /\ stream = "none"
      /\ UNCHANGED <<vars, damaged, unread, cut, digested, replayed>>
  BY DEF OpenReader
<1>2. ArtifactInv' /\ UNCHANGED <<hashed, place, file, torn, stored>>
  BY <1>1, ReaderLeavesArtifact DEF SessionInv
<1>3. expected = NoManifest
  BY <1>1 DEF SessionInv, ReaderInv
<1>4. CASE Valid /\ compatible
  <2>1. stream' = "checked" /\ expected' = stored /\ stored # NoManifest
    BY <1>4 DEF OpenReader, Valid
  <2>2. Matches(stored, file)
    BY <1>4 DEF Valid, Intact
  <2>3. Matches(stored, hashed)
    BY <1>1, <2>2, TrueMatches DEF SessionInv, ArtifactInv
  <2>4. ReaderInv'
    BY <1>1, <1>2, <2>1, <2>3 DEF SessionInv, ReaderInv
  <2>5. QED
    BY <1>2, <2>4 DEF SessionInv
<1>5. CASE ~(Valid /\ compatible)
  <2>1. stream' = "failed" /\ expected' = NoManifest
    BY <1>3, <1>5 DEF OpenReader
  <2>2. ReaderInv'
    BY <1>1, <1>2, <2>1 DEF SessionInv, ReaderInv
  <2>3. QED
    BY <1>2, <2>2 DEF SessionInv
<1>6. QED
  BY <1>4, <1>5

LEMMA OpenStreamStep ==
  ASSUME SessionInv, OpenStream, replayed' # "complete"
  PROVE  SessionInv'
<1>1. stream = "checked" /\ UNCHANGED <<vars, damaged, expected, digested>>
      /\ unread' = file /\ cut' = torn
      /\ stream' = IF damaged = "unreadable" THEN "failed" ELSE "open"
  BY DEF OpenStream
<1>2. ArtifactInv' /\ UNCHANGED <<hashed, place, file, torn, stored>>
  BY <1>1, ReaderLeavesArtifact DEF SessionInv
<1>3. place = "final" /\ digested = <<>> /\ file \in Seq(Int)
  BY <1>1 DEF SessionInv, ReaderInv, ArtifactInv
<1>4. damaged = "no" => cut' = FALSE /\ Aligned(digested, file, hashed)
  <2>1. damaged = "no" => file = hashed /\ torn = FALSE
    BY <1>3 DEF SessionInv, ArtifactInv
  <2>2. Aligned(<<>>, file, file)
    BY <1>3 DEF Aligned
  <2>3. QED
    BY <1>1, <1>3, <2>1, <2>2
<1>5. ReaderInv'
  BY <1>1, <1>2, <1>3, <1>4 DEF SessionInv, ReaderInv
<1>6. QED
  BY <1>2, <1>5 DEF SessionInv

LEMMA DeliverStep ==
  ASSUME SessionInv, Deliver, UNCHANGED replayed
  PROVE  SessionInv'
<1> DEFINE t == Head(unread)
<1>1. /\ stream = "open" /\ unread # <<>>
      /\ digested # <<>> => t >= digested[Len(digested)]
      /\ digested' = Append(digested, t) /\ unread' = Tail(unread)
      /\ UNCHANGED <<vars, damaged, stream, expected, cut>>
  BY DEF Deliver, Deliverable
<1>2. ArtifactInv' /\ UNCHANGED <<hashed, place, file, torn, stored>>
  BY <1>1, ReaderLeavesArtifact DEF SessionInv
<1>3. unread \in Seq(Int) /\ digested \in Seq(Int) /\ Ordered(digested)
  BY DEF SessionInv, ReaderInv
<1>4. /\ t \in Int /\ digested' \in Seq(Int) /\ unread' \in Seq(Int)
  BY <1>1, <1>3
<1>5. Ordered(digested')
  <2>1. digested # <<>> => digested[Len(digested)] <= t
    BY <1>1, <1>3, <1>4
  <2>2. QED
    BY <1>1, <1>3, <1>4, <2>1, AppendOrdered
<1>6. ASSUME Aligned(digested, unread, hashed), Len(hashed) \in Nat
      PROVE  Aligned(digested', unread', hashed)
  <2>1. /\ Len(digested) \in Nat /\ Len(unread) \in Nat \ {0}
        /\ Len(digested') = Len(digested) + 1 /\ Len(unread') = Len(unread) - 1
        /\ \A i \in 1..Len(digested) : digested'[i] = digested[i]
        /\ digested'[Len(digested) + 1] = unread[1]
        /\ \A i \in 1..(Len(unread) - 1) : unread'[i] = unread[i + 1]
    BY <1>1, <1>3
  <2>2. Len(digested') + Len(unread') = Len(hashed)
    BY <1>6, <2>1 DEF Aligned
  <2>3. unread[1] = hashed[Len(digested) + 1]
    BY <1>6, <2>1 DEF Aligned
  <2>4. \A i \in 1..Len(digested') : digested'[i] = hashed[i]
    <3> SUFFICES ASSUME NEW i \in 1..Len(digested')
                 PROVE  digested'[i] = hashed[i]
      OBVIOUS
    <3>1. CASE i \in 1..Len(digested)
      BY <1>6, <2>1, <3>1 DEF Aligned
    <3>2. CASE i = Len(digested) + 1
      BY <2>1, <2>3, <3>2
    <3>3. QED
      BY <2>1, <3>1, <3>2
  <2>5. \A i \in 1..Len(unread') : unread'[i] = hashed[Len(digested') + i]
    <3> SUFFICES ASSUME NEW i \in 1..Len(unread')
                 PROVE  unread'[i] = hashed[Len(digested') + i]
      OBVIOUS
    <3>1. i + 1 \in 1..Len(unread) /\ i \in 1..(Len(unread) - 1)
      BY <2>1
    <3>2. unread'[i] = unread[i + 1] /\ unread[i + 1] = hashed[Len(digested) + (i + 1)]
      BY <1>6, <2>1, <3>1 DEF Aligned
    <3>3. Len(digested) + (i + 1) = Len(digested') + i
      BY <2>1
    <3>4. QED
      BY <3>2, <3>3
  <2>6. QED
    BY <2>2, <2>4, <2>5 DEF Aligned
<1>7. Len(hashed) \in Nat
  BY HashedFrames DEF SessionInv, ArtifactInv
<1> HIDE DEF t
<1>8. ReaderInv'
  BY <1>1, <1>2, <1>4, <1>5, <1>6, <1>7 DEF SessionInv, ReaderInv
<1>9. QED
  BY <1>2, <1>8 DEF SessionInv

\* A stream that raises streams a file that has changed.
LEMMA BreakOffStep ==
  ASSUME SessionInv, BreakOff, replayed' # "complete"
  PROVE  SessionInv' /\ damaged # "no"
<1>1. /\ stream = "open" /\ stream' = "failed"
      /\ UNCHANGED <<vars, damaged, expected, unread, cut, digested>>
      /\ IF unread = <<>> THEN cut ELSE ~Deliverable
  BY DEF BreakOff
<1>2. ArtifactInv' /\ UNCHANGED <<hashed, place, file, torn, stored>>
  BY <1>1, ReaderLeavesArtifact DEF SessionInv
<1>3. damaged # "no"
  <2> SUFFICES ASSUME damaged = "no" PROVE FALSE
    OBVIOUS
  <2>1. /\ cut = FALSE /\ Aligned(digested, unread, hashed)
        /\ unread \in Seq(Int) /\ digested \in Seq(Int)
    BY <1>1 DEF SessionInv, ReaderInv
  <2>2. /\ Len(hashed) \in Nat
        /\ \A i \in 1..Len(hashed) : hashed[i] \in Int /\ hashed[i] # Garbage
        /\ \A i, j \in 1..Len(hashed) : i <= j => hashed[i] <= hashed[j]
    BY HashedFrames DEF SessionInv, ArtifactInv
  <2>3. unread # <<>> /\ ~Deliverable
    BY <1>1, <2>1
  <2>4. /\ Len(unread) \in Nat \ {0} /\ Len(digested) \in Nat
        /\ Len(digested) + 1 \in 1..Len(hashed)
        /\ Head(unread) = hashed[Len(digested) + 1]
    BY <2>1, <2>2, <2>3 DEF Aligned
  <2>5. Head(unread) # Garbage
    BY <2>2, <2>4
  <2>6. digested # <<>> => Head(unread) >= digested[Len(digested)]
    <3> SUFFICES ASSUME digested # <<>> PROVE Head(unread) >= digested[Len(digested)]
      OBVIOUS
    <3>1. Len(digested) \in 1..Len(digested) /\ Len(digested) \in 1..Len(hashed)
      BY <2>1, <2>4
    <3>2. digested[Len(digested)] = hashed[Len(digested)]
      BY <2>1, <3>1 DEF Aligned
    <3>3. hashed[Len(digested)] <= hashed[Len(digested) + 1]
      BY <2>2, <2>4, <3>1
    <3>4. QED
      BY <2>2, <2>4, <3>1, <3>2, <3>3
  <2>7. QED
    BY <1>1, <2>3, <2>5, <2>6 DEF Deliverable
<1>4. ReaderInv'
  BY <1>1, <1>2, <1>3 DEF SessionInv, ReaderInv
<1>5. QED
  BY <1>2, <1>3, <1>4 DEF SessionInv

\* A stream that ends has delivered what was recorded, or the file has changed.
LEMMA EndStreamStep ==
  ASSUME SessionInv, EndStream, replayed' = "complete" => stream' = "ended"
  PROVE  /\ SessionInv'
         /\ stream' = "ended" => digested = hashed
         /\ stream' = "failed" => damaged # "no"
<1>1. /\ stream = "open" /\ unread = <<>>
      /\ stream' = IF Matches(expected, digested) THEN "ended" ELSE "failed"
      /\ UNCHANGED <<vars, damaged, expected, unread, cut, digested>>
  BY DEF EndStream
<1>2. ArtifactInv' /\ UNCHANGED <<hashed, place, file, torn, stored>>
  BY <1>1, ReaderLeavesArtifact DEF SessionInv
<1>3. Matches(expected, hashed) /\ digested \in Seq(Int)
  BY <1>1 DEF SessionInv, ReaderInv
<1>4. stream' = "failed" => damaged # "no"
  <2> SUFFICES ASSUME damaged = "no" PROVE Matches(expected, digested)
    BY <1>1
  <2>1. Aligned(digested, unread, hashed)
    BY <1>1 DEF SessionInv, ReaderInv
  <2>2. hashed \in Seq(Int)
    BY HashedFrames DEF SessionInv, ArtifactInv
  <2>3. Len(digested) = Len(hashed) /\ \A i \in 1..Len(digested) : digested[i] = hashed[i]
    BY <1>1, <1>3, <2>1 DEF Aligned
  <2>4. QED
    BY <1>3, <2>2, <2>3, SameSequence
<1>5. stream' = "ended" => digested = hashed
  BY <1>1, <1>3 DEF Matches
<1>6. ReaderInv'
  BY <1>1, <1>2, <1>4 DEF SessionInv, ReaderInv
<1>7. QED
  BY <1>2, <1>4, <1>5, <1>6 DEF SessionInv

LEMMA ReaderStep ==
  ASSUME SessionInv, ReaderNext
  PROVE  SessionInv'
<1>1. ASSUME NEW again \in BOOLEAN, Replay(again)
      PROVE  SessionInv'
  <2>1. CASE again => Intact(expected)
    <3>1. OpenStream /\ replayed' = "running"
      BY <1>1, <2>1 DEF Replay
    <3>2. QED
      BY <3>1, OpenStreamStep
  <2>2. CASE ~(again => Intact(expected))
    <3>1. /\ stream = "checked" /\ replayed = "no" /\ stream' = "failed"
          /\ UNCHANGED <<vars, damaged, expected, unread, cut, digested, replayed>>
      BY <1>1, <2>2 DEF Replay
    <3>2. ArtifactInv' /\ UNCHANGED <<hashed, place, file, torn, stored>>
      BY <3>1, ReaderLeavesArtifact DEF SessionInv
    <3>3. place = "final" /\ Matches(expected, hashed)
      BY <3>1 DEF SessionInv, ReaderInv
    <3>4. damaged # "no"
      BY <2>2, <3>3, IntactUnchanged DEF SessionInv
    <3>5. ReaderInv'
      BY <3>1, <3>2, <3>4 DEF SessionInv, ReaderInv
    <3>6. QED
      BY <3>2, <3>5 DEF SessionInv
  <2>3. QED
    BY <2>1, <2>2
<1>2. ASSUME ReplayFrame
      PROVE  SessionInv'
  BY <1>2, DeliverStep, BreakOffStep DEF ReplayFrame
<1>3. ASSUME ReplayEnds
      PROVE  SessionInv'
  BY <1>3, EndStreamStep DEF ReplayEnds
<1>4. QED
  BY <1>1, <1>2, <1>3, RecorderReader, DamageReader, OpenReaderStep DEF ReaderNext

-----------------------------------------------------------------------------
\* The query.

LEMMA MaxIs ==
  ASSUME NEW S \in SUBSET Int, NEW m \in S, \A y \in S : y <= m
  PROVE  Max(S) = m
<1>1. m \in S /\ \A y \in S : m >= y
  OBVIOUS
<1>2. Max(S) \in S /\ \A y \in S : Max(S) >= y
  BY <1>1, Zenon DEF Max
<1>3. Max(S) >= m /\ m >= Max(S) /\ m \in Int /\ Max(S) \in Int
  BY <1>1, <1>2
<1>4. QED
  BY <1>3

LEMMA MinIs ==
  ASSUME NEW S \in SUBSET Int, NEW m \in S, \A y \in S : m <= y
  PROVE  Min(S) = m
<1>1. m \in S /\ \A y \in S : m <= y
  OBVIOUS
<1>2. Min(S) \in S /\ \A y \in S : Min(S) <= y
  BY <1>1, Zenon DEF Min
<1>3. Min(S) <= m /\ m <= Min(S) /\ m \in Int /\ Min(S) \in Int
  BY <1>1, <1>2
<1>4. QED
  BY <1>3

\* A resolved window holds its center and ends inside the spans asked for only
\* where the session itself ends.
QueryInv ==
  /\ query.center \in Int /\ query.start \in Int /\ query.end \in Int
  /\ query.before \in Int /\ query.after \in Int
  /\ query.selected \subseteq Keys
  /\ query.start <= query.center /\ query.center <= query.end
  /\ query.start > query.center - query.before =>
       \A i \in 1..Len(hashed) : query.start <= hashed[i]
  /\ query.end < query.center + query.after =>
       \A i \in 1..Len(hashed) : hashed[i] <= query.end

LEMMA WindowResolved ==
  ASSUME SessionInv, stream = "checked", NEW center, NEW before \in Time, NEW after \in Time,
         NEW selected \in SUBSET Keys, Resolves(center, before, after, selected),
         query' = Window(center, before, after, selected), hashed' = hashed
  PROVE  QueryInv'
<1> DEFINE f == expected.first
           l == expected.last
<1>1. Matches(expected, hashed)
  BY DEF SessionInv, ReaderInv
<1>2. /\ hashed \in Seq(Int) /\ Len(hashed) \in Nat
      /\ \A i \in 1..Len(hashed) : hashed[i] \in Int
      /\ \A i, j \in 1..Len(hashed) : i <= j => hashed[i] <= hashed[j]
  BY HashedFrames DEF SessionInv, ArtifactInv
<1>3. hashed # <<>> /\ f = hashed[1] /\ l = hashed[Len(hashed)]
  BY <1>1 DEF Resolves, Matches
<1>4. /\ 1 \in 1..Len(hashed) /\ Len(hashed) \in 1..Len(hashed)
  BY <1>2, <1>3
<1>5. /\ f \in Int /\ l \in Int
      /\ \A i \in 1..Len(hashed) : f <= hashed[i] /\ hashed[i] <= l
  BY <1>2, <1>3, <1>4
<1>6. center \in f..l
  BY DEF Resolves
<1>7. center \in Int /\ f <= center /\ center <= l
  BY <1>5, <1>6
<1>8. before \in Nat /\ after \in Nat
  BY RecorderAssumption DEF Time
<1> HIDE DEF f, l
<1>9. Max({f, center - before}) = IF f >= center - before THEN f ELSE center - before
  <2>1. {f, center - before} \in SUBSET Int
    BY <1>5, <1>7, <1>8
  <2>2. CASE f >= center - before
    <3>1. f \in {f, center - before} /\ \A y \in {f, center - before} : y <= f
      BY <1>5, <1>7, <1>8, <2>2
    <3>2. QED
      BY <2>1, <2>2, <3>1, MaxIs
  <2>3. CASE ~(f >= center - before)
    <3>1. /\ center - before \in {f, center - before}
          /\ \A y \in {f, center - before} : y <= center - before
      BY <1>5, <1>7, <1>8, <2>3
    <3>2. QED
      BY <2>1, <2>3, <3>1, MaxIs
  <2>4. QED
    BY <2>2, <2>3
<1>10. Min({l, center + after}) = IF l <= center + after THEN l ELSE center + after
  <2>1. {l, center + after} \in SUBSET Int
    BY <1>5, <1>7, <1>8
  <2>2. CASE l <= center + after
    <3>1. l \in {l, center + after} /\ \A y \in {l, center + after} : l <= y
      BY <1>5, <1>7, <1>8, <2>2
    <3>2. QED
      BY <2>1, <2>2, <3>1, MinIs
  <2>3. CASE ~(l <= center + after)
    <3>1. /\ center + after \in {l, center + after}
          /\ \A y \in {l, center + after} : center + after <= y
      BY <1>5, <1>7, <1>8, <2>3
    <3>2. QED
      BY <2>1, <2>3, <3>1, MinIs
  <2>4. QED
    BY <2>2, <2>3
<1>11. /\ query'.center = center /\ query'.before = before /\ query'.after = after
       /\ query'.selected = selected
       /\ query'.start = Max({f, center - before}) /\ query'.end = Min({l, center + after})
  BY DEF Window, f, l
<1>12. /\ query'.start = IF f >= center - before THEN f ELSE center - before
       /\ query'.end = IF l <= center + after THEN l ELSE center + after
  BY <1>9, <1>10, <1>11
<1>13. /\ query'.start \in Int /\ query'.start <= center
       /\ query'.start > center - before => query'.start = f
  BY <1>5, <1>7, <1>8, <1>12
<1>14. /\ query'.end \in Int /\ center <= query'.end
       /\ query'.end < center + after => query'.end = l
  BY <1>5, <1>7, <1>8, <1>12
<1>15. /\ query'.center \in Int /\ query'.before \in Int /\ query'.after \in Int
       /\ query'.selected \subseteq Keys
  BY <1>7, <1>8, <1>11
<1>16. QED
  BY <1>5, <1>11, <1>13, <1>14, <1>15 DEF QueryInv

-----------------------------------------------------------------------------
\* The pass over the frame file.

\* Of the frames read so far: those in the window, the samples and the events
\* among them, and the samples up to the window's start.
WindowRead == {i \in 1..Len(digested) : InWindow(digested[i])}
SamplesRead(k) == {i \in WindowRead : k \in log[i].keys}
EventsRead == {i \in WindowRead : log[i].event}
BeforeRead(k) == {i \in 1..Len(digested) : k \in log[i].keys /\ digested[i] <= query.start}

CaptureInv ==
  /\ ingested \in 0..Len(digested)
  /\ \A i \in 1..Len(digested) : digested[i] <= query.end <=> i <= ingested
  /\ captured = None => \A i \in 1..Len(digested) : digested[i] <= query.center
  /\ captured # None =>
       /\ captured \in 0..(Len(digested) - 1)
       /\ \A i \in 1..Len(digested) : digested[i] <= query.center <=> i <= captured

ListInv ==
  /\ log \in Seq(Contents) /\ Len(log) = Len(digested)
  /\ raw \in Seq(Nat) /\ found \in Seq(Nat) /\ series \in [Keys -> Seq(Nat)]
  /\ Lists(raw, WindowRead) /\ Lists(found, EventsRead)
  /\ \A k \in query.selected : Lists(series[k], SamplesRead(k)) /\ Ordered(series[k])

CountInv ==
  /\ IsFiniteSet(WindowRead) /\ Cardinality(WindowRead) = Len(raw)
  /\ Len(raw) <= MaxRaw

ContextInv ==
  /\ context \in [Keys -> Int]
  /\ \A k \in query.selected :
       /\ context[k] \in BeforeRead(k) \cup {None}
       /\ \A y \in BeforeRead(k) : y <= context[k]

ScanInv == CaptureInv /\ ListInv /\ CountInv /\ ContextInv

LEMMA ListsAppend ==
  ASSUME NEW s \in Seq(Nat), NEW n \in Nat, NEW S \in SUBSET (1..n), Lists(s, S)
  PROVE  /\ Append(s, n + 1) \in Seq(Nat)
         /\ Lists(Append(s, n + 1), S \cup {n + 1})
         /\ Ordered(s) => Ordered(Append(s, n + 1))
<1> DEFINE a == Append(s, n + 1)
<1>1. /\ Len(s) \in Nat /\ DOMAIN s = 1..Len(s) /\ DOMAIN a = 1..(Len(s) + 1)
      /\ Len(a) = Len(s) + 1 /\ a \in Seq(Nat)
      /\ \A i \in 1..Len(s) : a[i] = s[i] /\ s[i] \in Nat
      /\ a[Len(s) + 1] = n + 1
  OBVIOUS
<1>2. {s[i] : i \in DOMAIN s} = S
  BY DEF Lists
<1>3. \A i \in 1..Len(s) : s[i] \in S /\ s[i] <= n
  BY <1>1, <1>2
<1> HIDE DEF a
<1>4. {a[i] : i \in DOMAIN a} = S \cup {n + 1}
  <2>1. ASSUME NEW x \in S \cup {n + 1}
        PROVE  \E i \in DOMAIN a : a[i] = x
    <3>1. CASE x \in S
      <4>1. PICK i \in DOMAIN s : s[i] = x
        BY <1>2, <3>1
      <4>2. QED
        BY <1>1, <4>1
    <3>2. CASE x = n + 1
      BY <1>1, <3>2
    <3>3. QED
      BY <3>1, <3>2
  <2>2. ASSUME NEW i \in DOMAIN a
        PROVE  a[i] \in S \cup {n + 1}
    BY <1>1, <1>3
  <2>3. QED
    BY <2>1, <2>2
<1>5. \A i \in 1..(Len(a) - 1) : a[i] < a[i + 1]
  <2> SUFFICES ASSUME NEW i \in 1..(Len(a) - 1) PROVE a[i] < a[i + 1]
    OBVIOUS
  <2>1. CASE i = Len(s)
    BY <1>1, <1>3, <2>1
  <2>2. CASE i # Len(s)
    <3>1. i \in 1..(Len(s) - 1) /\ i \in 1..Len(s) /\ i + 1 \in 1..Len(s)
      <4>1. Len(s) \in Nat /\ i \in Int /\ 1 <= i /\ i <= Len(s)
        BY <1>1
      <4>2. i < Len(s)
        BY <2>2, <4>1
      <4>3. QED
        BY <4>1, <4>2
    <3>2. s[i] < s[i + 1]
      BY <3>1 DEF Lists
    <3>3. QED
      BY <1>1, <3>1, <3>2
  <2>3. QED
    BY <2>1, <2>2
<1>6. Ordered(s) => Ordered(a)
  <2>1. s \in Seq(Int) /\ n + 1 \in Int
    BY WiderSeq
  <2>2. s # <<>> => s[Len(s)] <= n + 1
    BY <1>1, <1>3
  <2>3. QED
    BY <2>1, <2>2, AppendOrdered DEF a
<1>7. QED
  BY <1>1, <1>4, <1>5, <1>6 DEF Lists, a

\* The frame read next, and what it adds to the sets above.
LEMMA NextFrame ==
  ASSUME Deliver, digested \in Seq(Int), unread \in Seq(Int), Ordered(digested)
  PROVE  /\ Head(unread) \in Int /\ Len(digested) \in Nat
         /\ Len(digested') = Len(digested) + 1
         /\ \A i \in 1..Len(digested) :
              /\ digested'[i] = digested[i] /\ digested[i] \in Int
              /\ digested[i] <= Head(unread)
         /\ digested'[Len(digested) + 1] = Head(unread)
<1>1. /\ unread # <<>> /\ digested' = Append(digested, Head(unread))
      /\ digested # <<>> => Head(unread) >= digested[Len(digested)]
  BY DEF Deliver, Deliverable
<1>2. /\ Head(unread) \in Int /\ Len(digested) \in Nat
      /\ Len(digested') = Len(digested) + 1
      /\ \A i \in 1..Len(digested) : digested'[i] = digested[i] /\ digested[i] \in Int
      /\ digested'[Len(digested) + 1] = Head(unread)
  BY <1>1
<1>3. ASSUME NEW i \in 1..Len(digested)
      PROVE  digested[i] <= Head(unread)
  <2>1. digested # <<>> /\ Len(digested) \in 1..Len(digested)
        /\ DOMAIN digested = 1..Len(digested)
    BY <1>2
  <2>2. i <= Len(digested)
    BY <1>2
  <2>3. digested[i] <= digested[Len(digested)]
    BY <2>1, <2>2 DEF Ordered
  <2>4. QED
    BY <1>1, <1>2, <2>1, <2>3
<1>4. QED
  BY <1>2, <1>3

LEMMA ReadSetsGrow ==
  ASSUME Deliver, digested \in Seq(Int), unread \in Seq(Int), Ordered(digested),
         log \in Seq(Contents), Len(log) = Len(digested), NEW content \in Contents,
         log' = Append(log, content), UNCHANGED query, NEW k
  PROVE  LET t == Head(unread)
             n == Len(digested) + 1
         IN  /\ WindowRead' = IF InWindow(t) THEN WindowRead \cup {n} ELSE WindowRead
             /\ SamplesRead(k)' = IF InWindow(t) /\ k \in content.keys
                                  THEN SamplesRead(k) \cup {n} ELSE SamplesRead(k)
             /\ EventsRead' = IF InWindow(t) /\ content.event
                              THEN EventsRead \cup {n} ELSE EventsRead
             /\ BeforeRead(k)' = IF t <= query.start /\ k \in content.keys
                                 THEN BeforeRead(k) \cup {n} ELSE BeforeRead(k)
<1> DEFINE t == Head(unread)
           n == Len(digested) + 1
<1> SUFFICES
      /\ WindowRead' = IF InWindow(t) THEN WindowRead \cup {n} ELSE WindowRead
      /\ SamplesRead(k)' = IF InWindow(t) /\ k \in content.keys
                           THEN SamplesRead(k) \cup {n} ELSE SamplesRead(k)
      /\ EventsRead' = IF InWindow(t) /\ content.event
                       THEN EventsRead \cup {n} ELSE EventsRead
      /\ BeforeRead(k)' = IF t <= query.start /\ k \in content.keys
                          THEN BeforeRead(k) \cup {n} ELSE BeforeRead(k)
  OBVIOUS
<1>1. /\ Len(digested) \in Nat /\ Len(digested') = n
      /\ \A i \in 1..Len(digested) : digested'[i] = digested[i]
      /\ digested'[n] = t
  BY NextFrame
<1>2. (\A i \in 1..Len(digested) : log'[i] = log[i]) /\ log'[n] = content
  OBVIOUS
<1>3. Len(digested) \in Nat /\ n = Len(digested) + 1
  BY <1>1
<1> HIDE DEF t, n
<1>4. 1..n = 1..Len(digested) \cup {n} /\ n \notin 1..Len(digested)
  BY <1>3
<1>5. WindowRead' = {i \in 1..n : query.start <= digested'[i] /\ digested'[i] <= query.end}
  BY <1>1 DEF WindowRead, InWindow
<1>6. WindowRead' = IF InWindow(t) THEN WindowRead \cup {n} ELSE WindowRead
  BY <1>1, <1>4, <1>5 DEF WindowRead, InWindow
<1>7. n \notin WindowRead /\ WindowRead \subseteq 1..Len(digested)
  BY <1>4 DEF WindowRead
<1>8. SamplesRead(k)' = IF InWindow(t) /\ k \in content.keys
                        THEN SamplesRead(k) \cup {n} ELSE SamplesRead(k)
  BY <1>2, <1>6, <1>7 DEF SamplesRead
<1>9. EventsRead' = IF InWindow(t) /\ content.event
                    THEN EventsRead \cup {n} ELSE EventsRead
  BY <1>2, <1>6, <1>7 DEF EventsRead
<1>10. BeforeRead(k)' = IF t <= query.start /\ k \in content.keys
                        THEN BeforeRead(k) \cup {n} ELSE BeforeRead(k)
  BY <1>1, <1>2, <1>4 DEF BeforeRead
<1>11. QED
  BY <1>6, <1>8, <1>9, <1>10

\* center_states is captured before the first frame after the center, and no
\* frame after the window's end goes through the engines.
LEMMA CaptureStep ==
  ASSUME QueryInv, CaptureInv, Deliver, Capture(Head(unread)), UNCHANGED query,
         digested \in Seq(Int), unread \in Seq(Int), Ordered(digested),
         ingested' = IF Head(unread) <= query.end THEN ingested + 1 ELSE ingested
  PROVE  CaptureInv'
<1> DEFINE t == Head(unread)
           n == Len(digested)
<1>1. /\ t \in Int /\ n \in Nat /\ Len(digested') = n + 1
      /\ \A i \in 1..n :
           digested'[i] = digested[i] /\ digested[i] \in Int /\ digested[i] <= t
      /\ digested'[n + 1] = t
  BY NextFrame
<1>2. /\ ingested' = IF t <= query.end THEN ingested + 1 ELSE ingested
      /\ captured' = IF captured = None /\ t > query.center THEN ingested ELSE captured
  BY DEF Capture
<1>3. /\ query.center \in Int /\ query.end \in Int /\ query.center <= query.end
      /\ query' = query
  BY DEF QueryInv
<1>4. /\ ingested \in 0..n
      /\ \A i \in 1..n : digested[i] <= query.end <=> i <= ingested
      /\ captured = None => \A i \in 1..n : digested[i] <= query.center
      /\ captured # None =>
           /\ captured \in 0..(n - 1)
           /\ \A i \in 1..n : digested[i] <= query.center <=> i <= captured
  BY DEF CaptureInv
<1>5. \A i \in 1..(n + 1) : i \in 1..n \/ i = n + 1
  BY <1>1
<1>6. CaptureInv' <=>
        /\ ingested' \in 0..(n + 1)
        /\ \A i \in 1..(n + 1) : digested'[i] <= query.end <=> i <= ingested'
        /\ captured' = None => \A i \in 1..(n + 1) : digested'[i] <= query.center
        /\ captured' # None =>
             /\ captured' \in 0..n
             /\ \A i \in 1..(n + 1) : digested'[i] <= query.center <=> i <= captured'
  BY <1>1, <1>3 DEF CaptureInv
<1> HIDE DEF t, n
<1>7. t <= query.end => ingested = n
  \* the last frame before it is no later
  <2> SUFFICES ASSUME t <= query.end PROVE ingested = n
    OBVIOUS
  <2>1. CASE n = 0
    BY <1>4, <2>1
  <2>2. CASE n # 0
    <3>1. n \in 1..n
      BY <1>1, <2>2
    <3>2. digested[n] <= query.end
      BY <1>1, <1>3, <3>1
    <3>3. n <= ingested
      BY <1>4, <3>1, <3>2
    <3>4. QED
      BY <1>1, <1>4, <3>3
  <2>3. QED
    BY <2>1, <2>2
<1>8. /\ ingested' \in 0..(n + 1)
      /\ \A i \in 1..(n + 1) : digested'[i] <= query.end <=> i <= ingested'
  <2>1. CASE t <= query.end
    <3>1. ingested' = n + 1
      BY <1>2, <1>7, <2>1
    <3>2. \A i \in 1..n : digested[i] <= query.end
      BY <1>1, <1>3, <2>1
    <3>3. \A i \in 1..(n + 1) : digested'[i] <= query.end
      BY <1>1, <1>5, <2>1, <3>2
    <3>4. n + 1 \in 0..(n + 1) /\ \A i \in 1..(n + 1) : i <= n + 1
      BY <1>1
    <3>5. ingested' \in 0..(n + 1) /\ \A i \in 1..(n + 1) : i <= ingested'
      BY <3>1, <3>4
    <3>6. QED
      BY <3>3, <3>5
  <2>2. CASE ~(t <= query.end)
    <3>1. ingested' = ingested
      BY <1>2, <2>2
    <3>2. ingested \in 0..(n + 1) /\ ~(n + 1 <= ingested)
      BY <1>1, <1>4
    <3>3. ASSUME NEW i \in 1..(n + 1)
          PROVE  digested'[i] <= query.end <=> i <= ingested
      <4>1. CASE i \in 1..n
        BY <1>1, <1>4, <4>1
      <4>2. CASE i = n + 1
        BY <1>1, <2>2, <3>2, <4>2
      <4>3. QED
        BY <1>5, <4>1, <4>2
    <3>4. QED
      BY <3>1, <3>2, <3>3
  <2>3. QED
    BY <2>1, <2>2
<1>9. CASE captured = None /\ t <= query.center
  <2>1. captured' = None
    BY <1>1, <1>2, <1>3, <1>9
  <2>2. QED
    BY <1>1, <1>4, <1>5, <1>6, <1>8, <1>9, <2>1
<1>10. CASE captured = None /\ t > query.center
  <2>1. captured' = ingested
    BY <1>2, <1>10
  <2>2. \A i \in 1..n : digested[i] <= query.end
    BY <1>1, <1>3, <1>4, <1>10
  <2>3. ingested = n
    <3>1. CASE n = 0
      BY <1>4, <3>1
    <3>2. CASE n # 0
      <4>1. n \in 1..n
        BY <1>1, <3>2
      <4>2. n <= ingested
        BY <1>4, <2>2, <4>1
      <4>3. QED
        BY <1>1, <1>4, <4>2
    <3>3. QED
      BY <3>1, <3>2
  <2>4. captured' # None
    BY <1>1, <2>1, <2>3 DEF None
  <2>5. \A i \in 1..(n + 1) : digested'[i] <= query.center <=> i <= n
    BY <1>1, <1>3, <1>4, <1>5, <1>10
  <2>6. QED
    BY <1>1, <1>6, <1>8, <2>1, <2>3, <2>4, <2>5
<1>11. CASE captured # None
  <2>1. captured' = captured /\ captured \in 0..(n - 1)
    BY <1>2, <1>4, <1>11
  <2>2. n \in 1..n /\ captured + 1 \in 1..n /\ ~(captured + 1 <= captured)
    BY <1>1, <2>1
  <2>3. ~(t <= query.center)
    BY <1>1, <1>3, <1>4, <1>11, <2>2, SMTT(20)
  <2>4. ~(n + 1 <= captured) /\ captured \in 0..n
    BY <1>1, <2>1
  <2>5. \A i \in 1..(n + 1) : digested'[i] <= query.center <=> i <= captured
    BY <1>1, <1>4, <1>5, <1>11, <2>3, <2>4
  <2>6. QED
    BY <1>6, <1>8, <1>11, <2>1, <2>4, <2>5
<1>12. QED
  BY <1>1, <1>3, <1>9, <1>10, <1>11

LEMMA ReadSetsBounded ==
  ASSUME NEW k
  PROVE  /\ WindowRead \in SUBSET (1..Len(digested))
         /\ SamplesRead(k) \in SUBSET (1..Len(digested))
         /\ EventsRead \in SUBSET (1..Len(digested))
         /\ BeforeRead(k) \in SUBSET (1..Len(digested))
<1>1. WindowRead \in SUBSET (1..Len(digested)) /\ BeforeRead(k) \in SUBSET (1..Len(digested))
  BY DEF WindowRead, BeforeRead
<1>2. QED
  BY <1>1 DEF SamplesRead, EventsRead

LEMMA LogGrows ==
  ASSUME ListInv, Deliver, digested \in Seq(Int), unread \in Seq(Int), Ordered(digested),
         NEW content \in Contents, log' = Append(log, content)
  PROVE  log' \in Seq(Contents) /\ Len(log') = Len(digested')
<1>1. Len(digested') = Len(digested) + 1 /\ log \in Seq(Contents) /\ Len(log) = Len(digested)
  BY NextFrame DEF ListInv
<1>2. log' \in Seq(Contents) /\ Len(log') = Len(log) + 1
  BY <1>1
<1>3. QED
  BY <1>1, <1>2

LEMMA ListStep ==
  ASSUME QueryInv, ListInv, NEW content \in Contents, ReadFrame(content),
         digested \in Seq(Int), unread \in Seq(Int), Ordered(digested)
  PROVE  ListInv'
<1> DEFINE t == Head(unread)
           n == Len(digested)
<1>1. /\ Deliver /\ log' = Append(log, content) /\ query' = query
      /\ t <= query.end /\ Collect(t, content)
  BY DEF ReadFrame
<1>2. /\ log \in Seq(Contents) /\ Len(log) = n
      /\ raw \in Seq(Nat) /\ found \in Seq(Nat) /\ series \in [Keys -> Seq(Nat)]
      /\ Lists(raw, WindowRead) /\ Lists(found, EventsRead)
      /\ \A k \in query.selected : Lists(series[k], SamplesRead(k)) /\ Ordered(series[k])
  BY DEF ListInv
<1>3. log' \in Seq(Contents) /\ Len(log') = Len(digested')
  BY <1>1, LogGrows
<1>4. n \in Nat /\ t \in Int /\ query.selected \subseteq Keys /\ position = n + 1
  BY <1>1, NextFrame DEF QueryInv, position
<1>5. ASSUME NEW k
      PROVE  /\ WindowRead' = IF query.start <= t THEN WindowRead \cup {n + 1} ELSE WindowRead
             /\ SamplesRead(k)' = IF query.start <= t /\ k \in content.keys
                                  THEN SamplesRead(k) \cup {n + 1} ELSE SamplesRead(k)
             /\ EventsRead' = IF query.start <= t /\ content.event
                              THEN EventsRead \cup {n + 1} ELSE EventsRead
  <2>1. InWindow(t) <=> query.start <= t
    BY <1>1 DEF InWindow
  <2>2. QED
    BY <1>1, <1>2, <2>1, ReadSetsGrow
<1>6. CASE query.start <= t
  <2>1. /\ raw' = Append(raw, n + 1)
        /\ series' = [k \in Keys |-> IF k \in content.keys \cap query.selected
                                     THEN Append(series[k], n + 1) ELSE series[k]]
        /\ found' = IF content.event THEN Append(found, n + 1) ELSE found
    BY <1>1, <1>4, <1>6 DEF Collect
  <2>2. raw' \in Seq(Nat) /\ Lists(raw', WindowRead')
    BY <1>2, <1>4, <1>5, <1>6, <2>1, ReadSetsBounded, ListsAppend, ZenonT(20)
  <2>3. found' \in Seq(Nat) /\ Lists(found', EventsRead')
    <3>1. CASE content.event
      BY <1>2, <1>4, <1>5, <1>6, <2>1, <3>1, ReadSetsBounded, ListsAppend
    <3>2. CASE ~content.event
      BY <1>2, <1>5, <1>6, <2>1, <3>2
    <3>3. QED
      BY <3>1, <3>2
  <2>4. series' \in [Keys -> Seq(Nat)]
    <3>1. \A k \in Keys : series[k] \in Seq(Nat) /\ Append(series[k], n + 1) \in Seq(Nat)
      BY <1>2, <1>4
    <3>2. QED
      BY <2>1, <3>1
  <2>5. ASSUME NEW k \in query.selected
        PROVE  Lists(series'[k], SamplesRead(k)') /\ Ordered(series'[k])
    <3>1. k \in Keys /\ series[k] \in Seq(Nat)
      BY <1>2, <1>4
    <3>2. CASE k \in content.keys
      <4>1. series'[k] = Append(series[k], n + 1)
            /\ SamplesRead(k)' = SamplesRead(k) \cup {n + 1}
        BY <1>5, <1>6, <2>1, <3>1, <3>2
      <4>2. QED
        BY <1>2, <1>4, <3>1, <4>1, ReadSetsBounded, ListsAppend
    <3>3. CASE k \notin content.keys
      <4>1. series'[k] = series[k] /\ SamplesRead(k)' = SamplesRead(k)
        BY <1>5, <1>6, <2>1, <3>1, <3>3
      <4>2. QED
        BY <1>2, <4>1
    <3>4. QED
      BY <3>2, <3>3
  <2>6. QED
    BY <1>1, <1>3, <2>2, <2>3, <2>4, <2>5 DEF ListInv
<1>7. CASE ~(query.start <= t)
  <2>1. raw' = raw /\ series' = series /\ found' = found
    BY <1>1, <1>7 DEF Collect
  <2>2. /\ WindowRead' = WindowRead /\ EventsRead' = EventsRead
        /\ \A k \in query.selected : SamplesRead(k)' = SamplesRead(k)
    BY <1>5, <1>7
  <2>3. QED
    BY <1>1, <1>2, <1>3, <2>1, <2>2 DEF ListInv
<1>8. QED
  BY <1>6, <1>7

\* A frame is taken into a full answer never.
LEMMA CountStep ==
  ASSUME QueryInv, ListInv, CountInv, NEW content \in Contents, ReadFrame(content),
         digested \in Seq(Int), unread \in Seq(Int), Ordered(digested)
  PROVE  CountInv'
<1> DEFINE t == Head(unread)
           n == Len(digested)
<1>1. /\ Deliver /\ log' = Append(log, content) /\ query' = query
      /\ t <= query.end /\ ~Full(t) /\ Collect(t, content)
  BY DEF ReadFrame
<1>2. /\ IsFiniteSet(WindowRead) /\ Cardinality(WindowRead) = Len(raw) /\ Len(raw) <= MaxRaw
      /\ raw \in Seq(Nat) /\ Len(raw) \in Nat
  BY DEF ListInv, CountInv
<1>3. n \in Nat /\ t \in Int /\ position = n + 1
  BY <1>1, NextFrame DEF position
<1>4. InWindow(t) <=> query.start <= t
  BY <1>1 DEF InWindow
<1>5. WindowRead' = IF query.start <= t THEN WindowRead \cup {n + 1} ELSE WindowRead
  BY <1>1, <1>4, ReadSetsGrow DEF ListInv
<1>6. CASE query.start <= t
  <2>1. raw' = Append(raw, n + 1) /\ ~(Len(raw) >= MaxRaw)
    BY <1>1, <1>3, <1>4, <1>6 DEF Collect, Full
  <2>2. Len(raw') = Len(raw) + 1 /\ MaxRaw \in Nat
    BY <1>2, <2>1, InvestigationAssumption
  <2>3. n + 1 \notin WindowRead
    <3>1. WindowRead \in SUBSET (1..n)
      BY ReadSetsBounded
    <3>2. QED
      BY <1>3, <3>1
  <2>4. /\ IsFiniteSet(WindowRead \cup {n + 1})
        /\ Cardinality(WindowRead \cup {n + 1}) = Cardinality(WindowRead) + 1
    BY <1>2, <2>3, FS_AddElement
  <2>5. Len(raw') <= MaxRaw
    BY <1>2, <2>1, <2>2
  <2>6. QED
    BY <1>2, <1>5, <1>6, <2>2, <2>4, <2>5 DEF CountInv
<1>7. CASE ~(query.start <= t)
  <2>1. raw' = raw
    BY <1>1, <1>7 DEF Collect
  <2>2. QED
    BY <1>2, <1>5, <1>7, <2>1 DEF CountInv
<1>8. QED
  BY <1>6, <1>7

LEMMA ContextStep ==
  ASSUME QueryInv, ListInv, ContextInv, NEW content \in Contents, ReadFrame(content),
         digested \in Seq(Int), unread \in Seq(Int), Ordered(digested)
  PROVE  ContextInv'
<1> DEFINE t == Head(unread)
           n == Len(digested)
<1>1. /\ Deliver /\ log' = Append(log, content) /\ query' = query
      /\ Remember(t, content)
  BY DEF ReadFrame
<1>2. n \in Nat /\ t \in Int /\ query.selected \subseteq Keys /\ position = n + 1
  BY <1>1, NextFrame DEF QueryInv, position
<1>3. /\ context \in [Keys -> Int]
      /\ context' = [k \in Keys |->
                       IF t <= query.start /\ k \in content.keys \cap query.selected
                       THEN n + 1 ELSE context[k]]
  BY <1>1, <1>2 DEF ContextInv, Remember
<1>4. context' \in [Keys -> Int]
  BY <1>2, <1>3
<1>5. ASSUME NEW k \in query.selected
      PROVE  /\ context'[k] \in BeforeRead(k)' \cup {None}
             /\ \A y \in BeforeRead(k)' : y <= context'[k]
  <2>1. /\ k \in Keys /\ context[k] \in BeforeRead(k) \cup {None}
        /\ \A y \in BeforeRead(k) : y <= context[k]
    BY <1>2 DEF ContextInv
  <2>2. BeforeRead(k)' = IF t <= query.start /\ k \in content.keys
                         THEN BeforeRead(k) \cup {n + 1} ELSE BeforeRead(k)
    BY <1>1, ReadSetsGrow DEF ListInv
  <2>3. \A y \in BeforeRead(k) : y \in Int /\ y <= n + 1
    BY <1>2, ReadSetsBounded
  <2>4. CASE t <= query.start /\ k \in content.keys
    <3>1. context'[k] = n + 1 /\ BeforeRead(k)' = BeforeRead(k) \cup {n + 1}
      BY <1>3, <2>1, <2>2, <2>4
    <3>2. QED
      BY <1>2, <2>3, <3>1
  <2>5. CASE ~(t <= query.start /\ k \in content.keys)
    <3>1. context'[k] = context[k] /\ BeforeRead(k)' = BeforeRead(k)
      BY <1>3, <2>1, <2>2, <2>5
    <3>2. QED
      BY <2>1, <3>1
  <2>6. QED
    BY <2>4, <2>5
<1>6. QED
  BY <1>1, <1>4, <1>5 DEF ContextInv

LEMMA ReadFrameStep ==
  ASSUME QueryInv, ScanInv, NEW content \in Contents, ReadFrame(content),
         digested \in Seq(Int), unread \in Seq(Int), Ordered(digested)
  PROVE  ScanInv'
<1>1. CaptureInv'
  <2>1. /\ Deliver /\ Capture(Head(unread)) /\ UNCHANGED query
        /\ Head(unread) <= query.end /\ ingested' = ingested + 1
    BY DEF ReadFrame
  <2>2. QED
    BY <2>1, CaptureStep DEF ScanInv
<1>2. QED
  BY <1>1, ListStep, CountStep, ContextStep DEF ScanInv

\* A frame after the window changes nothing but the state at the center.
LEMMA SkipFrameStep ==
  ASSUME QueryInv, ScanInv, NEW content \in Contents, SkipFrame(content),
         digested \in Seq(Int), unread \in Seq(Int), Ordered(digested)
  PROVE  ScanInv'
<1> DEFINE t == Head(unread)
<1>1. /\ Deliver /\ Capture(t) /\ t > query.end /\ log' = Append(log, content)
      /\ UNCHANGED <<query, ingested, context, series, raw, found>>
  BY DEF SkipFrame
<1>2. t \in Int /\ query.end \in Int /\ query.start \in Int /\ query.start <= query.end
  <2>1. /\ query.center \in Int /\ query.start <= query.center /\ query.center <= query.end
        /\ query.end \in Int /\ query.start \in Int
    BY DEF QueryInv
  <2>2. QED
    BY <1>1, <2>1, NextFrame
<1>3. ~(t <= query.end) /\ ~(t <= query.start) /\ ~InWindow(t)
  BY <1>1, <1>2 DEF InWindow
<1>4. CaptureInv'
  BY <1>1, <1>3, CaptureStep DEF ScanInv
<1>5. ASSUME NEW k
      PROVE  /\ WindowRead' = WindowRead /\ EventsRead' = EventsRead
             /\ SamplesRead(k)' = SamplesRead(k) /\ BeforeRead(k)' = BeforeRead(k)
  BY <1>1, <1>3, ReadSetsGrow DEF ScanInv, ListInv
<1>6. log' \in Seq(Contents) /\ Len(log') = Len(digested')
  BY <1>1, LogGrows DEF ScanInv
<1>7. ListInv'
  BY <1>1, <1>5, <1>6 DEF ScanInv, ListInv
<1>8. CountInv' /\ ContextInv'
  BY <1>1, <1>5 DEF ScanInv, CountInv, ContextInv
<1>9. QED
  BY <1>4, <1>7, <1>8 DEF ScanInv

-----------------------------------------------------------------------------
\* The states of a query.

Blank ==
  /\ ingested = 0 /\ captured = None
  /\ context = [k \in Keys |-> None] /\ series = [k \in Keys |-> <<>>]
  /\ raw = <<>> /\ found = <<>> /\ log = <<>>

\* The engines have seen every frame up to the center when it was captured.
CenterInv ==
  /\ captured \in 0..Len(digested)
  /\ \A i \in 1..Len(digested) : digested[i] <= query.center <=> i <= captured

Outcomes == {"none", "resolved", "scanning", "answered", "rejected", "limit", "error"}

OutcomeInv ==
  /\ outcome \in Outcomes
  /\ outcome # "none" => replayed = "no"
  /\ outcome \in {"none", "resolved"} => Blank
  /\ outcome = "resolved" => stream = "checked" /\ QueryInv
  /\ outcome = "scanning" => stream = "open" /\ QueryInv /\ ScanInv
  /\ outcome = "answered" =>
       digested = hashed /\ QueryInv /\ ListInv /\ CountInv /\ ContextInv /\ CenterInv
  /\ outcome = "limit" /\ damaged = "no" => Cardinality(Windowed) > MaxRaw
  /\ outcome = "error" => damaged # "no"

InvestigationInv == SessionInv /\ OutcomeInv

LEMMA ScanUnchanged ==
  ASSUME UNCHANGED <<digested, query, scan>>
  PROVE  ScanInv' <=> ScanInv
<1>1. UNCHANGED <<digested, query, ingested, captured, context, series, raw, found, log>>
  BY DEF scan
<1>2. CaptureInv' <=> CaptureInv
  BY <1>1 DEF CaptureInv
<1>3. /\ WindowRead' = WindowRead /\ EventsRead' = EventsRead
      /\ \A k : SamplesRead(k)' = SamplesRead(k) /\ BeforeRead(k)' = BeforeRead(k)
  BY <1>1 DEF WindowRead, EventsRead, SamplesRead, BeforeRead, InWindow
<1>4. ListInv' <=> ListInv
  BY <1>1, <1>3 DEF ListInv
<1>5. (CountInv' <=> CountInv) /\ (ContextInv' <=> ContextInv)
  BY <1>1, <1>3 DEF CountInv, ContextInv
<1>6. QED
  BY <1>2, <1>4, <1>5 DEF ScanInv

LEMMA SessionUnchanged ==
  ASSUME SessionInv, UNCHANGED artifactVars
  PROVE  SessionInv' /\ UNCHANGED <<stream, replayed, hashed, digested, damaged, expected>>
<1>1. UNCHANGED <<vars, damaged>> /\ UNCHANGED <<stream, expected, unread, cut, digested, replayed>>
  BY DEF artifactVars, reading
<1>2. ArtifactInv' /\ UNCHANGED <<hashed, place, file, torn, stored>>
  BY <1>1, ReaderLeavesArtifact DEF SessionInv
<1>3. ReaderInv'
  BY <1>1, <1>2 DEF SessionInv, ReaderInv
<1>4. QED
  BY <1>1, <1>2, <1>3 DEF SessionInv

LEMMA QueryUnchanged ==
  ASSUME UNCHANGED <<query, hashed>>
  PROVE  QueryInv' <=> QueryInv
BY DEF QueryInv

LEMMA BlankUnchanged ==
  ASSUME UNCHANGED scan
  PROVE  Blank' <=> Blank
BY DEF Blank, scan

\* Nothing read, nothing kept.
LEMMA ScanStarts ==
  ASSUME Blank, QueryInv, digested = <<>>
  PROVE  ScanInv
<1>1. Len(digested) = 0 /\ 1..Len(digested) = {}
  OBVIOUS
<1>2. CaptureInv
  BY <1>1 DEF Blank, CaptureInv
<1>3. /\ WindowRead = {} /\ EventsRead = {}
      /\ \A k : SamplesRead(k) = {} /\ BeforeRead(k) = {}
  BY <1>1 DEF WindowRead, EventsRead, SamplesRead, BeforeRead
<1>4. /\ <<>> \in Seq(Nat) /\ Lists(<<>>, {}) /\ Ordered(<<>>)
      /\ query.selected \subseteq Keys
  BY DEF Lists, Ordered, QueryInv
<1>5. ListInv
  <2>1. log \in Seq(Contents) /\ Len(log) = Len(digested)
    BY <1>1 DEF Blank
  <2>2. raw \in Seq(Nat) /\ found \in Seq(Nat) /\ Lists(raw, WindowRead) /\ Lists(found, EventsRead)
    BY <1>3, <1>4 DEF Blank
  <2>3. series \in [Keys -> Seq(Nat)]
    BY <1>4 DEF Blank
  <2>4. QED
    BY <1>3, <1>4, <2>1, <2>2, <2>3 DEF ListInv, Blank
<1>6. CountInv
  BY <1>3, FS_EmptySet, InvestigationAssumption DEF CountInv, Blank
<1>7. ContextInv
  BY <1>3, <1>4 DEF ContextInv, Blank, None
<1>8. QED
  BY <1>2, <1>5, <1>6, <1>7 DEF ScanInv

LEMMA ResolveStep ==
  ASSUME InvestigationInv, NEW center, NEW before \in Time, NEW after \in Time,
         NEW selected \in SUBSET Keys, Resolve(center, before, after, selected)
  PROVE  InvestigationInv'
<1>1. /\ stream = "checked" /\ replayed = "no" /\ outcome = "none"
      /\ UNCHANGED <<artifactVars, scan>>
  BY DEF Resolve
<1>2. SessionInv' /\ UNCHANGED <<stream, replayed, hashed, digested>>
  BY <1>1, SessionUnchanged DEF InvestigationInv
<1>3. Blank'
  BY <1>1, BlankUnchanged DEF InvestigationInv, OutcomeInv
<1>4. CASE Resolves(center, before, after, selected)
  <2>1. outcome' = "resolved" /\ query' = Window(center, before, after, selected)
    BY <1>4 DEF Resolve
  <2>2. QueryInv'
    BY <1>1, <1>2, <1>4, <2>1, WindowResolved DEF InvestigationInv
  <2>3. QED
    BY <1>1, <1>2, <1>3, <2>1, <2>2 DEF InvestigationInv, OutcomeInv, Outcomes
<1>5. CASE ~Resolves(center, before, after, selected)
  <2>1. outcome' = "rejected"
    BY <1>5 DEF Resolve
  <2>2. QED
    BY <1>1, <1>2, <2>1 DEF InvestigationInv, OutcomeInv, Outcomes
<1>6. QED
  BY <1>4, <1>5

LEMMA ScanStep ==
  ASSUME InvestigationInv, Scan
  PROVE  InvestigationInv'
<1>1. /\ outcome = "resolved" /\ OpenStream /\ UNCHANGED <<replayed, query, scan>>
      /\ outcome' = IF stream' = "open" THEN "scanning" ELSE "error"
  BY DEF Scan
<1>2. SessionInv' /\ replayed' = "no"
  BY <1>1, OpenStreamStep DEF InvestigationInv, OutcomeInv
<1>3. /\ UNCHANGED <<hashed, digested, damaged>> /\ digested = <<>>
      /\ stream' = IF damaged = "unreadable" THEN "failed" ELSE "open"
  BY <1>1 DEF OpenStream, vars, memory, InvestigationInv, SessionInv, ReaderInv
<1>4. QueryInv' /\ Blank'
  BY <1>1, <1>3, QueryUnchanged, BlankUnchanged DEF InvestigationInv, OutcomeInv
<1>5. CASE stream' = "open"
  <2>1. ScanInv
    BY <1>1, <1>3, ScanStarts DEF InvestigationInv, OutcomeInv
  <2>2. ScanInv'
    BY <1>1, <1>3, <2>1, ScanUnchanged
  <2>3. QED
    BY <1>1, <1>2, <1>4, <1>5, <2>2 DEF InvestigationInv, OutcomeInv, Outcomes
<1>6. CASE stream' # "open"
  <2>1. outcome' = "error" /\ damaged' # "no"
    BY <1>1, <1>3, <1>6
  <2>2. QED
    BY <1>2, <2>1 DEF InvestigationInv, OutcomeInv, Outcomes
<1>7. QED
  BY <1>5, <1>6

LEMMA FrameStep ==
  ASSUME InvestigationInv, NEW content \in Contents, ReadFrame(content) \/ SkipFrame(content)
  PROVE  InvestigationInv'
<1>1. /\ outcome = "scanning" /\ Deliver /\ UNCHANGED <<replayed, outcome, query>>
  BY DEF ReadFrame, SkipFrame
<1>2. /\ digested \in Seq(Int) /\ unread \in Seq(Int) /\ Ordered(digested)
      /\ stream = "open" /\ QueryInv /\ ScanInv /\ replayed = "no"
  BY <1>1 DEF InvestigationInv, SessionInv, ReaderInv, OutcomeInv
<1>3. SessionInv' /\ UNCHANGED <<hashed, stream>>
  BY <1>1, DeliverStep DEF InvestigationInv, Deliver, vars, memory
<1>4. ScanInv'
  BY <1>2, ReadFrameStep, SkipFrameStep
<1>5. QueryInv'
  BY <1>1, <1>2, <1>3, QueryUnchanged
<1>6. QED
  BY <1>1, <1>2, <1>3, <1>4, <1>5 DEF InvestigationInv, OutcomeInv, Outcomes

LEMMA FailStep ==
  ASSUME InvestigationInv, Fail
  PROVE  InvestigationInv'
<1>1. /\ outcome = "scanning" /\ outcome' = "error" /\ UNCHANGED replayed
      /\ BreakOff \/ (EndStream /\ stream' = "failed")
  BY DEF Fail
<1>2. replayed' = "no"
  BY <1>1 DEF InvestigationInv, OutcomeInv
<1>3. SessionInv' /\ damaged # "no"
  BY <1>1, <1>2, BreakOffStep, EndStreamStep DEF InvestigationInv
<1>4. damaged' # "no"
  BY <1>1, <1>3 DEF BreakOff, EndStream
<1>5. QED
  BY <1>1, <1>2, <1>3, <1>4 DEF InvestigationInv, OutcomeInv, Outcomes

\* Of an intact artifact, the window that is refused holds one frame too many.
LEMMA LimitStep ==
  ASSUME InvestigationInv, ExceedLimit
  PROVE  InvestigationInv'
<1> DEFINE t == Head(unread)
           n == Len(digested)
<1>1. /\ outcome = "scanning" /\ Deliverable /\ Full(t) /\ outcome' = "limit"
      /\ UNCHANGED <<artifactVars, query, scan>>
  BY DEF ExceedLimit
<1>2. SessionInv' /\ UNCHANGED <<replayed, hashed, damaged>> /\ replayed = "no"
  BY <1>1, SessionUnchanged DEF InvestigationInv, OutcomeInv
<1>3. ASSUME damaged = "no"
      PROVE  Cardinality(Windowed) > MaxRaw
  <2>1. /\ stream = "open" /\ QueryInv /\ ScanInv /\ Aligned(digested, unread, hashed)
        /\ digested \in Seq(Int) /\ unread \in Seq(Int)
    BY <1>1, <1>3 DEF InvestigationInv, SessionInv, ReaderInv, OutcomeInv
  <2>2. hashed \in Seq(Int) /\ Len(hashed) \in Nat /\ DOMAIN hashed = 1..Len(hashed)
    BY HashedFrames DEF InvestigationInv, SessionInv, ArtifactInv
  <2>3. /\ n \in Nat /\ Len(unread) \in Nat \ {0} /\ t = unread[1]
    BY <1>1, <2>1 DEF Deliverable
  <2>4. /\ n + 1 \in 1..Len(hashed) /\ 1..n \subseteq 1..Len(hashed)
        /\ t = hashed[n + 1] /\ \A i \in 1..n : digested[i] = hashed[i]
    <3>1. /\ n + Len(unread) = Len(hashed) /\ \A i \in 1..n : digested[i] = hashed[i]
          /\ \A i \in 1..Len(unread) : unread[i] = hashed[n + i]
      BY <2>1 DEF Aligned
    <3>2. unread[1] = hashed[n + 1]
      BY <2>3, <3>1
    <3>3. n + 1 \in 1..Len(hashed) /\ 1..n \subseteq 1..Len(hashed)
      BY <2>2, <2>3, <3>1
    <3>4. QED
      BY <2>3, <3>1, <3>2, <3>3
  <2>5. /\ raw \in Seq(Nat) /\ IsFiniteSet(WindowRead)
        /\ Cardinality(WindowRead) = Len(raw)
    BY <2>1 DEF ScanInv, ListInv, CountInv
  <2>6. InWindow(t) /\ Len(raw) >= MaxRaw /\ Len(raw) \in Nat /\ MaxRaw \in Nat
    BY <1>1, <2>5, InvestigationAssumption DEF Full
  <2>7. n + 1 \notin WindowRead
    <3>1. WindowRead \in SUBSET (1..n)
      BY ReadSetsBounded
    <3>2. QED
      BY <2>3, <3>1
  <2>8. WindowRead \cup {n + 1} \subseteq Windowed
    <3>1. \A i \in WindowRead : i \in Windowed
      BY <2>2, <2>4 DEF WindowRead, Windowed
    <3>2. n + 1 \in Windowed
      BY <2>2, <2>4, <2>6 DEF Windowed
    <3>3. QED
      BY <3>1, <3>2
  <2>9. IsFiniteSet(Windowed)
    <3>1. IsFiniteSet(1..Len(hashed)) /\ Windowed \subseteq 1..Len(hashed)
      BY <2>2, FS_Interval DEF Windowed
    <3>2. QED
      BY <3>1, FS_Subset
  <2>10. Cardinality(WindowRead \cup {n + 1}) = Len(raw) + 1
    BY <2>5, <2>7, FS_AddElement
  <2>11. /\ Cardinality(WindowRead \cup {n + 1}) <= Cardinality(Windowed)
         /\ Cardinality(Windowed) \in Nat
    BY <2>8, <2>9, FS_Subset, FS_CardinalityType
  <2>12. QED
    BY <2>6, <2>10, <2>11
<1>4. damaged' = "no" => Cardinality(Windowed') > MaxRaw
  <2>1. Windowed' = Windowed
    BY <1>1, <1>2 DEF Windowed, InWindow
  <2>2. QED
    BY <1>2, <1>3, <2>1
<1>5. QED
  BY <1>1, <1>2, <1>4 DEF InvestigationInv, OutcomeInv, Outcomes

LEMMA AnswerStep ==
  ASSUME InvestigationInv, Answer
  PROVE  InvestigationInv'
<1>1. /\ outcome = "scanning" /\ EndStream /\ stream' = "ended" /\ outcome' = "answered"
      /\ captured' = IF captured = None THEN ingested ELSE captured
      /\ UNCHANGED <<replayed, query, ingested, context, series, raw, found, log>>
  BY DEF Answer
<1>2. SessionInv' /\ digested = hashed /\ replayed' = "no"
  BY <1>1, EndStreamStep DEF InvestigationInv, OutcomeInv
<1>3. UNCHANGED <<hashed, digested>>
  BY <1>1 DEF EndStream, vars, memory
<1>4. /\ QueryInv /\ CaptureInv /\ ListInv /\ CountInv /\ ContextInv
      /\ digested \in Seq(Int)
  BY <1>1 DEF InvestigationInv, SessionInv, ReaderInv, OutcomeInv, ScanInv
<1>5. QueryInv'
  BY <1>1, <1>3, <1>4, QueryUnchanged
<1>6. /\ WindowRead' = WindowRead /\ EventsRead' = EventsRead
      /\ \A k : SamplesRead(k)' = SamplesRead(k) /\ BeforeRead(k)' = BeforeRead(k)
  BY <1>1, <1>3 DEF WindowRead, EventsRead, SamplesRead, BeforeRead, InWindow
<1>7. ListInv'
  BY <1>1, <1>3, <1>4, <1>6 DEF ListInv
<1>8. CountInv' /\ ContextInv'
  BY <1>1, <1>4, <1>6 DEF CountInv, ContextInv
<1>9. CenterInv'
  <2> DEFINE n == Len(digested)
  <2>1. n \in Nat /\ ingested \in 0..n
    BY <1>4 DEF CaptureInv
  <2>2. CASE captured = None
    <3>1. /\ \A i \in 1..n : digested[i] <= query.center /\ digested[i] \in Int
          /\ query.center \in Int /\ query.end \in Int /\ query.center <= query.end
      BY <1>4, <2>2 DEF CaptureInv, QueryInv
    <3>2. \A i \in 1..n : digested[i] <= query.end
      BY <3>1
    <3>3. \A i \in 1..n : i <= ingested
      BY <1>4, <3>2 DEF CaptureInv
    <3>4. captured' = ingested
      BY <1>1, <2>2
    <3>5. QED
      BY <1>1, <1>3, <2>1, <3>1, <3>3, <3>4 DEF CenterInv
  <2>3. CASE captured # None
    <3>1. /\ captured' = captured /\ captured \in 0..(n - 1)
          /\ \A i \in 1..n : digested[i] <= query.center <=> i <= captured
      BY <1>1, <1>4, <2>3 DEF CaptureInv
    <3>2. captured \in 0..n
      BY <2>1, <3>1
    <3>3. QED
      BY <1>1, <1>3, <3>1, <3>2 DEF CenterInv
  <2>4. QED
    BY <2>2, <2>3
<1>10. QED
  BY <1>1, <1>2, <1>3, <1>5, <1>7, <1>8, <1>9 DEF InvestigationInv, OutcomeInv, Outcomes

LEMMA InvestigationStep ==
  ASSUME InvestigationInv, [InvestigationNext]_allVars
  PROVE  InvestigationInv'
<1>1. CASE outcome = "none" /\ ReaderNext /\ UNCHANGED <<outcome, query, scan>>
  <2>1. SessionInv' /\ Blank'
    BY <1>1, ReaderStep, BlankUnchanged DEF InvestigationInv, OutcomeInv
  <2>2. QED
    BY <1>1, <2>1 DEF InvestigationInv, OutcomeInv
<1>2. CASE /\ outcome \in {"resolved", "scanning"} /\ Damage
           /\ UNCHANGED <<outcome, query, scan>>
  <2>1. SessionInv' /\ UNCHANGED <<hashed, digested, stream, replayed>>
    BY <1>2, DamageReader DEF InvestigationInv
  <2>2. (Blank' <=> Blank) /\ (QueryInv' <=> QueryInv) /\ (ScanInv' <=> ScanInv)
    BY <1>2, <2>1, BlankUnchanged, QueryUnchanged, ScanUnchanged
  <2>3. QED
    BY <1>2, <2>1, <2>2 DEF InvestigationInv, OutcomeInv
<1>3. ASSUME NEW before \in Time, NEW after \in Time, NEW selected \in SUBSET Keys,
             \/ \E center \in Time \cup {None} : Investigate(center, before, after, selected)
             \/ \E center \in Time : InvestigateBaseline(center, before, after, selected)
      PROVE  InvestigationInv'
  BY <1>3, ResolveStep DEF Investigate, InvestigateBaseline
<1>4. CASE RefuseBaseline
  <2>1. /\ replayed = "no" /\ outcome' = "rejected" /\ UNCHANGED artifactVars
    BY <1>4 DEF RefuseBaseline
  <2>2. SessionInv' /\ replayed' = "no"
    BY <2>1, SessionUnchanged DEF InvestigationInv
  <2>3. QED
    BY <2>1, <2>2 DEF InvestigationInv, OutcomeInv, Outcomes
<1>5. CASE UNCHANGED allVars
  <2>1. UNCHANGED <<artifactVars, outcome, query, scan>>
    BY <1>5 DEF allVars
  <2>2. SessionInv' /\ UNCHANGED <<stream, replayed, hashed, digested, damaged, expected>>
    BY <2>1, SessionUnchanged DEF InvestigationInv
  <2>3. (Blank' <=> Blank) /\ (QueryInv' <=> QueryInv) /\ (ScanInv' <=> ScanInv)
    BY <2>1, <2>2, BlankUnchanged, QueryUnchanged, ScanUnchanged
  <2>4. UNCHANGED <<ingested, captured, context, series, raw, found, log>>
    BY <2>1 DEF scan
  <2>5. /\ WindowRead' = WindowRead /\ EventsRead' = EventsRead /\ Windowed' = Windowed
        /\ \A k : SamplesRead(k)' = SamplesRead(k) /\ BeforeRead(k)' = BeforeRead(k)
    BY <2>1, <2>2, <2>4 DEF WindowRead, EventsRead, SamplesRead, BeforeRead, InWindow, Windowed
  <2>6. (ListInv' <=> ListInv) /\ (CenterInv' <=> CenterInv)
    BY <2>1, <2>2, <2>4, <2>5 DEF ListInv, CenterInv
  <2>7. (CountInv' <=> CountInv) /\ (ContextInv' <=> ContextInv)
    BY <2>1, <2>4, <2>5 DEF CountInv, ContextInv
  <2>8. QED
    BY <2>1, <2>2, <2>3, <2>5, <2>6, <2>7 DEF InvestigationInv, OutcomeInv
<1>6. QED
  BY <1>1, <1>2, <1>3, <1>4, <1>5, ScanStep, FrameStep, LimitStep, FailStep, AnswerStep
  DEF InvestigationNext

-----------------------------------------------------------------------------
\* What an answer shows.

AnswerInv == digested = hashed /\ QueryInv /\ ListInv /\ CountInv /\ ContextInv /\ CenterInv

LEMMA AnsweredSets ==
  ASSUME AnswerInv, NEW k, hashed \in Seq(Int)
  PROVE  /\ Len(hashed) \in Nat /\ DOMAIN hashed = 1..Len(hashed)
         /\ Len(log) = Len(hashed) /\ DOMAIN log = 1..Len(hashed)
         /\ WindowRead = Windowed /\ SamplesRead(k) = Samples(k) \cap Windowed
         /\ EventsRead = {i \in Windowed : log[i].event}
         /\ BeforeRead(k) = Samples(k) \cap Upto(query.start)
<1>1. /\ digested = hashed /\ Len(hashed) \in Nat /\ DOMAIN hashed = 1..Len(hashed)
      /\ log \in Seq(Contents) /\ Len(log) = Len(hashed)
  BY DEF AnswerInv, ListInv
<1>2. DOMAIN log = 1..Len(hashed)
  BY <1>1
<1>3. WindowRead = Windowed
  BY <1>1 DEF WindowRead, Windowed
<1>4. Windowed \subseteq DOMAIN log
  BY <1>1, <1>2 DEF Windowed
<1>5. SamplesRead(k) = Samples(k) \cap Windowed
  BY <1>3, <1>4 DEF SamplesRead, Samples
<1>6. EventsRead = {i \in Windowed : log[i].event}
  BY <1>3 DEF EventsRead
<1>7. BeforeRead(k) = Samples(k) \cap Upto(query.start)
  BY <1>1, <1>2 DEF BeforeRead, Samples, Upto
<1>8. QED
  BY <1>1, <1>2, <1>3, <1>5, <1>6, <1>7

LEMMA AnsweredWindow ==
  ASSUME AnswerInv, hashed \in Seq(Int)
  PROVE  /\ Lists(raw, Windowed)
         /\ \A k \in query.selected : Lists(series[k], Samples(k) \cap Windowed)
         /\ \A k \in query.selected :
              context[k] = Max((Samples(k) \cap Upto(query.start)) \cup {None})
         /\ Lists(found, {i \in Windowed : log[i].event})
         /\ Cardinality(Windowed) <= MaxRaw
<1>1. /\ Lists(raw, WindowRead) /\ Lists(found, EventsRead)
      /\ \A k \in query.selected : Lists(series[k], SamplesRead(k))
      /\ Cardinality(WindowRead) = Len(raw) /\ Len(raw) <= MaxRaw
  BY DEF AnswerInv, ListInv, CountInv
<1>2. /\ Lists(raw, Windowed) /\ Lists(found, {i \in Windowed : log[i].event})
      /\ Cardinality(Windowed) <= MaxRaw
  BY <1>1, AnsweredSets
<1>3. \A k \in query.selected : Lists(series[k], Samples(k) \cap Windowed)
  BY <1>1, AnsweredSets
<1>4. ASSUME NEW k \in query.selected
      PROVE  context[k] = Max((Samples(k) \cap Upto(query.start)) \cup {None})
  <2> DEFINE S == BeforeRead(k) \cup {None}
  <2>1. /\ context[k] \in S /\ \A y \in BeforeRead(k) : y <= context[k]
    BY DEF AnswerInv, ContextInv
  <2>2. BeforeRead(k) \in SUBSET (1..Len(hashed)) /\ Len(hashed) \in Nat
    BY ReadSetsBounded, AnsweredSets DEF AnswerInv
  <2>3. \A y \in BeforeRead(k) : y \in Int /\ 1 <= y
    BY <2>2
  <2>4. S \in SUBSET Int /\ \A y \in S : y <= context[k]
    BY <2>1, <2>3 DEF None
  <2> HIDE DEF S
  <2>5. Max(S) = context[k]
    BY <2>1, <2>4, MaxIs
  <2>6. QED
    BY <2>5, AnsweredSets DEF S
<1>5. QED
  BY <1>2, <1>3, <1>4

LEMMA AnsweredCenter ==
  ASSUME AnswerInv, hashed \in Seq(Int)
  PROVE  captured = Cardinality(Upto(query.center))
<1>1. /\ Len(hashed) \in Nat /\ DOMAIN hashed = 1..Len(hashed) /\ captured \in 0..Len(hashed)
      /\ \A i \in 1..Len(hashed) : hashed[i] <= query.center <=> i <= captured
  BY AnsweredSets DEF AnswerInv, CenterInv
<1>2. Upto(query.center) = {i \in 1..Len(hashed) : i <= captured}
  BY <1>1 DEF Upto
<1>3. {i \in 1..Len(hashed) : i <= captured} = 1..captured
  BY <1>1
<1>4. captured \in Int /\ 1 \in Int /\ captured >= 0
  BY <1>1
<1>5. Cardinality(1..captured) = IF 1 > captured THEN 0 ELSE captured - 1 + 1
  BY <1>4, FS_Interval
<1>6. Cardinality(1..captured) = captured
  BY <1>4, <1>5
<1>7. QED
  BY <1>2, <1>3, <1>6

\* A frame at or before a cursor of the page lies in the window or before it:
\* where the window ends before the last cursor, the session does.
LEMMA AnsweredCursor ==
  ASSUME AnswerInv, hashed \in Seq(Int), Ordered(hashed), NEW k \in query.selected,
         NEW cursor \in (query.center - query.before)..(query.center + query.after)
  PROVE  LatestAtOrBefore(k, cursor) = Max((Samples(k) \cap Upto(cursor)) \cup {None})
<1> DEFINE inside == {i \in DOMAIN series[k] : digested[series[k][i]] <= cursor}
           S == Samples(k) \cap Upto(cursor)
           R == S \cup {None}
           L == Len(hashed)
<1>1. /\ digested = hashed /\ L \in Nat /\ DOMAIN hashed = 1..L
      /\ \A i \in 1..L : hashed[i] \in Int
      /\ \A i, j \in 1..L : i <= j => hashed[i] <= hashed[j]
  BY AnsweredSets DEF AnswerInv, Ordered
<1>2. /\ query.center \in Int /\ query.start \in Int /\ query.end \in Int
      /\ query.before \in Int /\ query.after \in Int
      /\ query.start > query.center - query.before => \A i \in 1..L : query.start <= hashed[i]
      /\ query.end < query.center + query.after => \A i \in 1..L : hashed[i] <= query.end
  BY DEF AnswerInv, QueryInv
<1>3. /\ cursor \in Int /\ query.center - query.before <= cursor
      /\ cursor <= query.center + query.after
  BY <1>2
<1>4. /\ series[k] \in Seq(Nat) /\ Ordered(series[k]) /\ Lists(series[k], SamplesRead(k))
      /\ context[k] \in BeforeRead(k) \cup {None}
      /\ \A y \in BeforeRead(k) : y <= context[k]
  BY DEF AnswerInv, QueryInv, ListInv, ContextInv
<1>5. /\ {series[k][i] : i \in DOMAIN series[k]} = Samples(k) \cap Windowed
      /\ BeforeRead(k) = Samples(k) \cap Upto(query.start)
  BY <1>4, AnsweredSets DEF Lists
<1>6. /\ \A y \in S : y \in Samples(k) /\ y \in 1..L /\ hashed[y] <= cursor
      /\ \A y \in Samples(k) : y \in 1..L /\ hashed[y] <= cursor => y \in S
      /\ \A y \in Windowed : y \in 1..L /\ query.start <= hashed[y] /\ hashed[y] <= query.end
      /\ \A y \in 1..L : query.start <= hashed[y] /\ hashed[y] <= query.end => y \in Windowed
      /\ \A y \in Upto(query.start) : y \in 1..L /\ hashed[y] <= query.start
      /\ \A y \in 1..L : hashed[y] <= query.start => y \in Upto(query.start)
  BY <1>1 DEF Windowed, Upto, InWindow
<1>7. LatestAtOrBefore(k, cursor) =
        CASE inside # {} -> series[k][Max(inside)]
          [] inside = {} /\ context[k] # None /\ digested[context[k]] <= cursor -> context[k]
          [] OTHER -> None
  BY DEF LatestAtOrBefore
<1>8. \A i \in inside : i \in 1..Len(series[k]) /\ hashed[series[k][i]] <= cursor
  BY <1>1, <1>4
<1>9. \A i \in 1..Len(series[k]) : hashed[series[k][i]] <= cursor => i \in inside
  BY <1>1, <1>4
<1> SUFFICES LatestAtOrBefore(k, cursor) = Max(R)
  OBVIOUS
<1> HIDE DEF inside, S, L
<1>10. /\ R \in SUBSET Int /\ None \in R /\ \A y \in R : y = None \/ y \in S
       /\ \A y \in 1..L : None < y /\ y \in Int
  BY <1>1, <1>6 DEF None
<1> HIDE DEF R
\* A sample at or before the cursor and not in the window lies before it.
<1>11. ASSUME NEW y \in S
       PROVE  \/ \E j \in inside : series[k][j] = y
              \/ hashed[y] < query.start /\ y \in BeforeRead(k)
  <2>1. y \in Samples(k) /\ y \in 1..L /\ hashed[y] <= cursor /\ hashed[y] \in Int
    BY <1>1, <1>6
  <2>2. hashed[y] <= query.end
    BY <1>2, <1>3, <2>1
  <2>3. CASE query.start <= hashed[y]
    <3>1. y \in Samples(k) \cap Windowed
      BY <1>6, <2>1, <2>2, <2>3
    <3>2. PICK j \in DOMAIN series[k] : series[k][j] = y
      BY <1>5, <3>1
    <3>3. j \in 1..Len(series[k])
      BY <1>4
    <3>4. j \in inside
      BY <1>9, <2>1, <3>2, <3>3
    <3>5. QED
      BY <3>2, <3>4
  <2>4. CASE ~(query.start <= hashed[y])
    <3>1. hashed[y] < query.start /\ hashed[y] <= query.start
      BY <1>2, <2>1, <2>4
    <3>2. QED
      BY <1>5, <1>6, <2>1, <3>1
  <2>5. QED
    BY <2>3, <2>4
<1>12. CASE inside # {}
  <2>1. Len(series[k]) \in Nat /\ inside \in SUBSET (0..Len(series[k])) /\ DOMAIN series[k] = 1..Len(series[k])
    BY <1>4, <1>8
  <2>2. PICK m \in inside : \A j \in inside : j <= m
    BY <1>12, <2>1, GreatestNatural
  <2>3. inside \in SUBSET Int
    BY <2>1
  <2>4. Max(inside) = m
    BY <2>2, <2>3, MaxIs
  <2> DEFINE x == series[k][m]
  <2>5. LatestAtOrBefore(k, cursor) = x
    BY <1>7, <1>12, <2>4
  <2>6. x \in Samples(k) \cap Windowed /\ hashed[x] <= cursor
    BY <1>5, <1>8, <2>1, <2>2
  <2> HIDE DEF x
  <2>7. /\ x \in S /\ x \in R /\ x \in 1..L /\ query.start <= hashed[x]
        /\ hashed[x] \in Int
    BY <1>1, <1>6, <2>6 DEF R
  <2>8. ASSUME NEW y \in R
        PROVE  y <= x
    <3>1. CASE y = None
      BY <1>1, <1>10, <2>7, <3>1 DEF None
    <3>2. CASE \E j \in inside : series[k][j] = y
      <4>1. PICK j \in inside : series[k][j] = y
        BY <3>2
      <4>2. j <= m /\ j \in DOMAIN series[k] /\ m \in DOMAIN series[k]
        BY <1>8, <2>1, <2>2
      <4>3. QED
        BY <1>4, <4>1, <4>2 DEF Ordered, x
    <3>3. CASE y \in S /\ hashed[y] < query.start
      <4>1. y \in 1..L /\ y \in Int /\ x \in Int /\ hashed[y] \in Int
        BY <1>1, <1>6, <1>10, <2>7, <3>3
      <4>2. ~(hashed[x] <= hashed[y])
        BY <1>2, <2>7, <3>3, <4>1
      <4>3. ~(x <= y)
        BY <1>1, <2>7, <4>1, <4>2
      <4>4. QED
        BY <4>1, <4>3
    <3>4. QED
      BY <1>10, <1>11, <3>1, <3>2, <3>3
  <2>9. QED
    BY <1>10, <2>5, <2>7, <2>8, MaxIs
<1>13. CASE inside = {}
  <2>1. \A y \in S : hashed[y] < query.start /\ y \in BeforeRead(k) /\ y <= context[k]
    BY <1>4, <1>11, <1>13
  <2>2. CASE context[k] # None /\ hashed[context[k]] <= cursor
    <3>1. LatestAtOrBefore(k, cursor) = context[k]
      BY <1>1, <1>7, <1>13, <2>2
    <3>2. context[k] \in Samples(k) \cap Upto(query.start)
      BY <1>4, <1>5, <2>2
    <3>3. context[k] \in S /\ context[k] \in R /\ context[k] \in 1..L
      BY <1>6, <2>2, <3>2 DEF R
    <3>4. \A y \in R : y <= context[k]
      <4>1. None <= context[k]
        BY <1>1, <1>10, <3>3 DEF None
      <4>2. QED
        BY <1>10, <2>1, <4>1
    <3>5. QED
      BY <1>10, <3>1, <3>3, <3>4, MaxIs
  <2>3. CASE ~(context[k] # None /\ hashed[context[k]] <= cursor)
    <3>1. LatestAtOrBefore(k, cursor) = None
      BY <1>1, <1>7, <1>13, <2>3
    <3>2. ASSUME NEW y \in S
          PROVE  FALSE
      <4>1. y \in 1..L /\ hashed[y] < query.start /\ y <= context[k] /\ hashed[y] \in Int
        BY <1>1, <1>6, <2>1
      <4>2. context[k] # None
        BY <1>1, <4>1 DEF None
      <4>3. context[k] \in 1..L /\ hashed[context[k]] <= query.start
        BY <1>4, <1>5, <1>6, <4>2
      <4>4. ~(hashed[context[k]] <= cursor) /\ hashed[context[k]] \in Int
        BY <1>1, <2>3, <4>2, <4>3
      <4>5. cursor < query.start
        BY <1>2, <1>3, <4>3, <4>4
      <4>6. query.start > query.center - query.before
        BY <1>2, <1>3, <4>5
      <4>7. query.start <= hashed[y]
        BY <1>2, <4>1, <4>6
      <4>8. QED
        BY <1>2, <4>1, <4>7
    <3>3. \A y \in R : y <= None
      BY <1>10, <3>2 DEF None
    <3>4. QED
      BY <1>10, <3>1, <3>3, MaxIs
  <2>4. QED
    BY <2>2, <2>3
<1>14. QED
  BY <1>12, <1>13

-----------------------------------------------------------------------------
\* Theorems.

LEMMA RecorderStarts ==
  ASSUME Init
  PROVE  MemoryInv /\ DiskInv
<1>1. /\ pc = "new" /\ manifest = Fresh /\ hashed = <<>> /\ closed = FALSE /\ buffer = <<>>
      /\ place = "absent" /\ file = <<>> /\ torn = FALSE /\ stored = NoManifest
  BY DEF Init
<1>2. Fresh \in Manifests
  BY DEF Fresh, Manifests, Statuses, NoHash
<1>3. TrueOf(Fresh, <<>>)
  BY <1>2 DEF TrueOf, Fresh
<1>4. <<>> \in Seq(Time) /\ Ordered(<<>>)
  BY DEF Ordered
<1>5. Fresh.status = "recording" /\ NoManifest.status = "absent"
  BY DEF Fresh, NoManifest
<1>6. MemoryInv
  <2>1. hashed \in Seq(Time) /\ buffer \in Seq(Time) /\ Ordered(hashed) /\ buffer = hashed
    BY <1>1, <1>4
  <2>2. TrueOf(manifest, hashed) /\ manifest.status = "recording"
    BY <1>1, <1>3, <1>5
  <2>3. QED
    BY <1>1, <2>1, <2>2 DEF MemoryInv
<1>7. DiskInv
  <2>1. file \in Seq(Time) /\ torn \in BOOLEAN /\ stored.status = "absent"
    BY <1>1, <1>4, <1>5
  <2>2. QED
    BY <1>1, <2>1 DEF DiskInv
<1>8. QED
  BY <1>6, <1>7

LEMMA InvestigationStarts ==
  ASSUME InvestigationInit
  PROVE  InvestigationInv
<1>1. /\ Init /\ damaged = "no" /\ stream = "none" /\ expected = NoManifest
      /\ unread = <<>> /\ digested = <<>> /\ replayed = "no" /\ outcome = "none"
  BY DEF InvestigationInit, ReaderInit
<1>2. MemoryInv /\ DiskInv
  BY <1>1, RecorderStarts
<1>3. ArtifactInv
  BY <1>1, <1>2 DEF ArtifactInv, Init
<1>4. ReaderInv
  BY <1>1 DEF ReaderInv, Ordered
<1>5. Blank
  BY DEF InvestigationInit, Blank
<1>6. QED
  BY <1>1, <1>3, <1>4, <1>5 DEF InvestigationInv, SessionInv, OutcomeInv, Outcomes

\* The inductive invariant: whatever fails or is killed while recording, whatever
\* is changed on disk before or under a stream, the artifact, the reader and the
\* query keep it (recorder.py, reader.py, investigation/service.py).
THEOREM SessionInvariant == InvestigationSpec => []InvestigationInv
<1>1. InvestigationInit => InvestigationInv
  BY InvestigationStarts
<1>2. InvestigationInv /\ [InvestigationNext]_allVars => InvestigationInv'
  BY InvestigationStep
<1>3. QED
  BY <1>1, <1>2, PTL DEF InvestigationSpec

\* Every manifest a recorder leaves passes the reader's checks, "complete" is
\* said only of the frame file beside it, and SessionCatalog.list meets no bad
\* artifact under a final name (recorder.py complete and abort): for sessions of
\* any length and every point at which a call fails or the process dies.
THEOREM CompleteManifestIsTrueHolds == InvestigationSpec => []CompleteManifestIsTrue
<1>1. ASSUME InvestigationInv
      PROVE  CompleteManifestIsTrue
  <2> SUFFICES ASSUME damaged = "no"
               PROVE  /\ stored # NoManifest => WellFormed(stored)
                      /\ stored.status = "complete" => Valid
                      /\ ~ListFails
    BY DEF CompleteManifestIsTrue
  <2>1. ArtifactInv /\ MemoryInv /\ DiskInv
    BY <1>1 DEF InvestigationInv, SessionInv, ArtifactInv
  <2>2. stored # NoManifest => WellFormed(stored)
    BY <2>1 DEF DiskInv
  <2>3. stored.status = "complete" => Valid
    <3> SUFFICES ASSUME stored.status = "complete" PROVE Valid
      OBVIOUS
    <3>1. TrueOf(stored, hashed) /\ file = hashed /\ torn = FALSE
      BY <2>1 DEF DiskInv
    <3>2. Matches(stored, file) /\ stored # NoManifest
      BY <3>1, TrueMatches DEF NoManifest
    <3>3. NonDecreasing(file) /\ \A i \in DOMAIN file : file[i] # Garbage
      BY <2>1, <3>1, HashedFrames DEF NonDecreasing
    <3>4. QED
      BY <2>2, <3>1, <3>2, <3>3 DEF Valid, Intact
  <2>4. place = "final" => stored.status = "complete"
    BY <2>1 DEF ArtifactInv
  <2>5. QED
    BY <2>2, <2>3, <2>4 DEF ListFails
<1>2. QED
  BY <1>1, SessionInvariant, PTL

\* A replay that completes has ingested just what was recorded, although the file
\* is checked first and streamed later; a reader fails only of a changed artifact
\* (SessionReader.frames).
THEOREM ReplayIsRecordingHolds == InvestigationSpec => []ReplayIsRecording
<1>1. ASSUME InvestigationInv
      PROVE  ReplayIsRecording
  <2>1. ASSUME replayed = "complete"
        PROVE  digested = hashed
    <3>1. Matches(expected, digested) /\ Matches(expected, hashed)
      BY <1>1, <2>1 DEF InvestigationInv, SessionInv, ReaderInv
    <3>2. QED
      BY <3>1 DEF Matches
  <2>2. stream = "failed" /\ expected # NoManifest => damaged # "no"
    BY <1>1 DEF InvestigationInv, SessionInv, ReaderInv
  <2>3. QED
    BY <2>1, <2>2 DEF ReplayIsRecording
<1>2. QED
  BY <1>1, SessionInvariant, PTL

LEMMA AnsweredRecording ==
  ASSUME InvestigationInv, outcome = "answered"
  PROVE  AnswerInv /\ hashed \in Seq(Int) /\ Ordered(hashed)
<1>1. MemoryInv
  BY DEF InvestigationInv, SessionInv, ArtifactInv
<1>2. hashed \in Seq(Int) /\ Ordered(hashed)
  BY <1>1, HashedFrames DEF MemoryInv
<1>3. QED
  BY <1>2 DEF InvestigationInv, OutcomeInv, AnswerInv

\* An answer is the whole recorded evidence of its window; the frame limit
\* refuses a window that really holds too many; a change on disk ends in an error
\* (the loop of InvestigationService.investigate).
THEOREM WindowExactHolds == InvestigationSpec => []WindowExact
<1>1. ASSUME InvestigationInv
      PROVE  WindowExact
  <2>1. outcome = "limit" /\ damaged = "no" => Cardinality(Windowed) > MaxRaw
    BY <1>1 DEF InvestigationInv, OutcomeInv
  <2>2. outcome = "error" => damaged # "no"
    BY <1>1 DEF InvestigationInv, OutcomeInv
  <2>3. QED
    BY <1>1, <2>1, <2>2, AnsweredRecording, AnsweredWindow DEF WindowExact
<1>2. QED
  BY <1>1, SessionInvariant, PTL

\* The diagnostic state of the center has seen every frame up to the center and no
\* other (capture_center).
THEOREM CenterStateHolds == InvestigationSpec => []CenterState
<1>1. ASSUME InvestigationInv
      PROVE  CenterState
  BY <1>1, AnsweredRecording, AnsweredCenter DEF CenterState
<1>2. QED
  BY <1>1, SessionInvariant, PTL

\* At every cursor of the page the value shown is the latest sample of the whole
\* session (latestAtOrBefore over what investigate returned).
THEOREM CursorExactHolds == InvestigationSpec => []CursorExact
<1>1. ASSUME InvestigationInv
      PROVE  CursorExact
  BY <1>1, AnsweredRecording, AnsweredCursor DEF CursorExact
<1>2. QED
  BY <1>1, SessionInvariant, PTL
=============================================================================
