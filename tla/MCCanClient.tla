----------------------------- MODULE MCCanClient -----------------------------
EXTENDS CanClient

\* One ID in most frames, one only in the third.
MCIdOf == [k \in 0 .. MaxFrames - 1 |-> IF k = 2 THEN "rare" ELSE "common"]
=============================================================================
