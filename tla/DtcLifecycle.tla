----------------------------- MODULE DtcLifecycle -----------------------------
(***************************************************************************)
(* What the diagnostics promise their reader (docs/DIAGNOSTICS.md,           *)
(* "Lifecycle and persistence"), without timers, timestamps or events: the   *)
(* life of each DTC record.  A pending condition is an episode on top of     *)
(* what is settled about the code; only its confirmation changes that.       *)
(***************************************************************************)
EXTENDS Naturals

CONSTANTS
  Codes,     \* the diagnostic codes
  Frames,    \* the telemetry frames a freeze frame may show
  NoFrame

VARIABLES
  settled,       \* settled[c]: "none", "active", "historical" or "cleared"
  pending,       \* the codes with a violation that is not confirmed
  occurrences,   \* occurrences[c]: confirmations of c
  frozen         \* frozen[c]: the telemetry frame that the freeze frame shows

record == <<settled, pending, occurrences, frozen>>

Init ==
  /\ settled = [c \in Codes |-> "none"]
  /\ pending = {}
  /\ occurrences = [c \in Codes |-> 0]
  /\ frozen = [c \in Codes |-> NoFrame]

\* A code that is not active is violated.
Detect(c) ==
  /\ settled[c] # "active"
  /\ pending' = pending \cup {c}
  /\ UNCHANGED <<settled, occurrences, frozen>>

\* A pending condition normalizes: nothing of it is left.
Normalize(c) ==
  /\ pending' = pending \ {c}
  /\ UNCHANGED <<settled, occurrences, frozen>>

\* A violation is confirmed, in the snapshot that detects it if its duration
\* is zero; only the first occurrence leaves a freeze frame.
Confirm(c) ==
  /\ settled[c] # "active"
  /\ settled' = [settled EXCEPT ![c] = "active"]
  /\ pending' = pending \ {c}
  /\ occurrences' = [occurrences EXCEPT ![c] = @ + 1]
  /\ \E f \in Frames :
       frozen' = [frozen EXCEPT ![c] = IF occurrences[c] = 0 THEN f ELSE @]

Recover(c) ==
  /\ settled[c] = "active"
  /\ settled' = [settled EXCEPT ![c] = "historical"]
  /\ UNCHANGED <<pending, occurrences, frozen>>

\* Only a record at rest can be cleared, and only by the user.
Clear(c) ==
  /\ settled[c] = "historical"
  /\ c \notin pending
  /\ settled' = [settled EXCEPT ![c] = "cleared"]
  /\ UNCHANGED <<pending, occurrences, frozen>>

\* Another source starts.
Reset ==
  /\ settled' = [c \in Codes |-> "none"]
  /\ pending' = {}
  /\ occurrences' = [c \in Codes |-> 0]
  /\ frozen' = [c \in Codes |-> NoFrame]

Next ==
  \/ \E c \in Codes : Detect(c) \/ Normalize(c) \/ Confirm(c) \/ Recover(c) \/ Clear(c)
  \/ Reset

Spec == Init /\ [][Next]_record
=============================================================================
