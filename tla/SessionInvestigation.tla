------------------------- MODULE SessionInvestigation -------------------------
(***************************************************************************)
(* An investigation query of a recorded session: InvestigationService.      *)
(* investigate and compare (backend/src/tuneros/investigation/service.py)   *)
(* over the artifact that SessionRecorder publishes and SessionReader        *)
(* streams, and the look-up of the sample at the cursor in the page that     *)
(* shows the answer (frontend/lib/investigation/state.ts).                  *)
(*                                                                         *)
(* The service reads the whole frame file once, through engines of its own, *)
(* and keeps what falls into the window.  A sample is named by the index of  *)
(* its frame; what a frame decodes to (the signals it updates, whether the   *)
(* diagnostic engine answers it with an event) is chosen as it is read and   *)
(* kept in the history variable log; a published session holds no frame that  *)
(* its source failed to decode.  The state of the diagnostic engine is  *)
(* a function of the frames it has ingested, so their number stands for it.  *)
(* Every query builds its own engines: one query per behaviour is enough.    *)
(***************************************************************************)
EXTENDS SessionReader, FiniteSetsExt

CONSTANTS
  Keys,         \* the signal catalog
  MaxSelected,  \* MAX_SELECTED_SIGNALS
  MaxWindow,    \* MAX_INVESTIGATION_WINDOW_MICROSECONDS
  MaxRaw        \* MAX_INVESTIGATION_RAW_FRAMES

ASSUME InvestigationAssumption ==
  /\ IsFiniteSet(Keys)
  /\ MaxSelected \in Nat \ {0} /\ MaxWindow \in Nat /\ MaxRaw \in Nat

VARIABLES
  outcome,   \* "none", "resolved", "scanning", "answered", "rejected", "limit" or "error"
  query,     \* the resolved window and selection; NoQuery when there is none
  ingested,  \* how many frames the engines have ingested
  captured,  \* center_states: ingested when it was captured, None before
  context,   \* context[k]: the latest sample of k up to the window's start
  series,    \* series[k]: the samples of k in the window
  raw,       \* raw_frames
  found,     \* window_events, by the frame that caused them
  log        \* history: what each frame read so far decodes to

scan == <<ingested, captured, context, series, raw, found, log>>
allVars == <<artifactVars, outcome, query, scan>>

position == Len(digested) + 1   \* index of the frame read next

Contents == [keys : (SUBSET Keys) \ {{}}, event : BOOLEAN]
NoQuery == [center |-> None]

InvestigationInit ==
  /\ ReaderInit
  /\ outcome = "none" /\ query = NoQuery
  /\ ingested = 0 /\ captured = None
  /\ context = [k \in Keys |-> None] /\ series = [k \in Keys |-> <<>>]
  /\ raw = <<>> /\ found = <<>> /\ log = <<>>

-----------------------------------------------------------------------------
\* The query.

\* _resolve_window for a center in the session.
Window(center, before, after, selected) ==
  [center |-> center, before |-> before, after |-> after, selected |-> selected,
   start |-> Max({expected.first, center - before}),
   end |-> Min({expected.last, center + after})]

\* _resolve_window's and _resolve_signals' checks; an empty session has no
\* first timestamp.
Resolves(center, before, after, selected) ==
  /\ before + after <= MaxWindow
  /\ expected.first # None
  /\ center \in expected.first..expected.last
  /\ Cardinality(selected) \in 1..MaxSelected

\* _clamp_center.
ClampCenter(center) == Min({Max({center, expected.first}), expected.last})

Resolve(center, before, after, selected) ==
  /\ stream = "checked" /\ replayed = "no" /\ outcome = "none"
  /\ IF Resolves(center, before, after, selected)
     THEN /\ outcome' = "resolved"
          /\ query' = Window(center, before, after, selected)
     ELSE outcome' = "rejected" /\ UNCHANGED query
  /\ UNCHANGED <<artifactVars, scan>>

\* investigate(session_id, ...), after SessionCatalog.reader has made a reader;
\* without a center the middle of the session is taken.
Investigate(center, before, after, selected) ==
  Resolve(IF center = None /\ expected.first # None
          THEN (expected.first + expected.last) \div 2 ELSE center,
          before, after, selected)

\* compare, for the baseline: the spans and signals are those the primary
\* investigation has accepted, the center may lie outside this session.
InvestigateBaseline(center, before, after, selected) ==
  /\ before + after <= MaxWindow
  /\ Cardinality(selected) \in 1..MaxSelected
  /\ Resolve(IF expected.first = None THEN None ELSE ClampCenter(center),
             before, after, selected)

\* _require_compatible: a baseline of another DBC, network or vehicle.
RefuseBaseline ==
  /\ stream = "checked" /\ replayed = "no" /\ outcome = "none"
  /\ outcome' = "rejected"
  /\ UNCHANGED <<artifactVars, query, scan>>

-----------------------------------------------------------------------------
\* The pass over the frame file.

InWindow(t) == query.start <= t /\ t <= query.end

\* Mutant: the state at the center misses the frames of the center itself.
CaptureEarly(t) ==
  captured' = IF captured = None /\ t >= query.center THEN ingested ELSE captured

\* capture_center(), before the first frame after the center.
Capture(t) ==
  captured' = IF captured = None /\ t > query.center THEN ingested ELSE captured

\* Mutant: the samples at the window's start are context only.
CollectAfterStart(t, content) ==
  IF query.start < t
  THEN /\ raw' = Append(raw, position)
       /\ series' = [k \in Keys |-> IF k \in content.keys \cap query.selected
                                    THEN Append(series[k], position) ELSE series[k]]
       /\ found' = IF content.event THEN Append(found, position) ELSE found
  ELSE UNCHANGED <<raw, series, found>>

\* What a frame adds to the answer.
Collect(t, content) ==
  IF query.start <= t
  THEN /\ raw' = Append(raw, position)
       /\ series' = [k \in Keys |-> IF k \in content.keys \cap query.selected
                                    THEN Append(series[k], position) ELSE series[k]]
       /\ found' = IF content.event THEN Append(found, position) ELSE found
  ELSE UNCHANGED <<raw, series, found>>

\* The latest sample of each selected signal up to the window's start.
Remember(t, content) ==
  context' = [k \in Keys |->
                IF t <= query.start /\ k \in content.keys \cap query.selected
                THEN position ELSE context[k]]

Full(t) == InWindow(t) /\ Len(raw) >= MaxRaw

\* The loop opens the stream.
Scan ==
  /\ outcome = "resolved"
  /\ OpenStream
  /\ outcome' = IF stream' = "open" THEN "scanning" ELSE "error"
  /\ UNCHANGED <<replayed, query, scan>>

\* A frame up to the window's end goes through the engines.
ReadFrame(content) ==
  /\ outcome = "scanning" /\ Deliver
  /\ LET t == Head(unread)
     IN  /\ t <= query.end /\ ~Full(t)
         /\ Capture(t)
         /\ ingested' = ingested + 1
         /\ Remember(t, content)
         /\ Collect(t, content)
  /\ log' = Append(log, content)
  /\ UNCHANGED <<replayed, outcome, query>>

\* A frame after the window is read for the digest only.
SkipFrame(content) ==
  /\ outcome = "scanning" /\ Deliver
  /\ Head(unread) > query.end
  /\ Capture(Head(unread))
  /\ log' = Append(log, content)
  /\ UNCHANGED <<replayed, outcome, query, ingested, context, series, raw, found>>

\* InvestigationLimitError.
ExceedLimit ==
  /\ outcome = "scanning" /\ Deliverable
  /\ Full(Head(unread))
  /\ outcome' = "limit"
  /\ UNCHANGED <<artifactVars, query, scan>>

\* The stream raises, within the file or at its end, and so does investigate.
Fail ==
  /\ outcome = "scanning"
  /\ BreakOff \/ (EndStream /\ stream' = "failed")
  /\ outcome' = "error"
  /\ UNCHANGED <<replayed, query, scan>>

\* After the last frame: capture_center() again, and the result.
Answer ==
  /\ outcome = "scanning"
  /\ EndStream /\ stream' = "ended"
  /\ captured' = IF captured = None THEN ingested ELSE captured
  /\ outcome' = "answered"
  /\ UNCHANGED <<replayed, query, ingested, context, series, raw, found, log>>

InvestigationNext ==
  \/ outcome = "none" /\ ReaderNext /\ UNCHANGED <<outcome, query, scan>>
  \/ outcome \in {"resolved", "scanning"} /\ Damage /\ UNCHANGED <<outcome, query, scan>>
  \/ \E before, after \in Time, selected \in SUBSET Keys :
       \/ \E center \in Time \cup {None} : Investigate(center, before, after, selected)
       \/ \E center \in Time : InvestigateBaseline(center, before, after, selected)
  \/ \E content \in Contents : ReadFrame(content) \/ SkipFrame(content)
  \/ RefuseBaseline \/ Scan \/ ExceedLimit \/ Fail \/ Answer

InvestigationSpec == InvestigationInit /\ [][InvestigationNext]_allVars

-----------------------------------------------------------------------------
\* The page.

\* Mutant: the page looks into the window only.
LatestInSeries(k, cursor) ==
  LET inside == {i \in DOMAIN series[k] : digested[series[k][i]] <= cursor}
  IN  IF inside # {} THEN series[k][Max(inside)] ELSE None

\* latestAtOrBefore(series, context, cursor).
LatestAtOrBefore(k, cursor) ==
  LET inside == {i \in DOMAIN series[k] : digested[series[k][i]] <= cursor}
  IN  CASE inside # {} -> series[k][Max(inside)]
        [] inside = {} /\ context[k] # None /\ digested[context[k]] <= cursor -> context[k]
        [] OTHER -> None

-----------------------------------------------------------------------------
\* Properties.

\* Of the frames that were recorded.
Upto(t) == {i \in DOMAIN hashed : hashed[i] <= t}
Windowed == {i \in DOMAIN hashed : InWindow(hashed[i])}
Samples(k) == {i \in DOMAIN log : k \in log[i].keys}

\* s is the members of S in order.
Lists(s, S) ==
  /\ {s[i] : i \in DOMAIN s} = S
  /\ \A i \in 1..(Len(s) - 1) : s[i] < s[i + 1]

\* An answer holds the whole recorded evidence of its window and nothing else:
\* all its raw frames, all samples of the selected signals and all events, in
\* recorded order, frames at both edges and of equal timestamps included, and of
\* each selected signal the latest sample up to the window's start; a file that
\* changes before or under the query gives an error, never a different answer;
\* a window with more frames than the limit is refused rather than cut, and, of
\* an intact artifact, no other is (the loop of investigate, SessionReader.
\* frames; docs/INVESTIGATION.md:38 and :52).
WindowExact ==
  /\ outcome = "answered" =>
       /\ Lists(raw, Windowed)
       /\ \A k \in query.selected : Lists(series[k], Samples(k) \cap Windowed)
       /\ \A k \in query.selected :
            context[k] = Max((Samples(k) \cap Upto(query.start)) \cup {None})
       /\ Lists(found, {i \in Windowed : log[i].event})
       /\ Cardinality(Windowed) <= MaxRaw
  /\ outcome = "limit" /\ damaged = "no" => Cardinality(Windowed) > MaxRaw
  /\ outcome = "error" => damaged # "no"

\* The diagnostic state shown for the center is that of an engine which has
\* ingested every frame at or before the center and none after it, wherever the
\* window's end lies and whether or not frames follow (capture_center;
\* docs/INVESTIGATION.md:53).
CenterState == outcome = "answered" => captured = Cardinality(Upto(query.center))

\* At every cursor the page can reach, in the session or in a baseline that is
\* shorter than the spans asked for, the value shown is the latest sample of
\* the whole session at or before it, although the answer holds only the window
\* and one sample before it (latestAtOrBefore; docs/INVESTIGATION.md:93).
CursorExact ==
  outcome = "answered" =>
    \A k \in query.selected :
      \A cursor \in (query.center - query.before)..(query.center + query.after) :
        LatestAtOrBefore(k, cursor) = Max((Samples(k) \cap Upto(cursor)) \cup {None})
=============================================================================
