----------------------------- MODULE MCDetector -----------------------------
(* The detector on small instances. *)
EXTENDS DetectorProperties

\* A batch of two texts, and one text alone; they take different times.
MCTextsOf == [c \in Calls |-> IF c = "batch" THEN 2 ELSE 1]
MCDuration == [c \in Calls |-> IF c = "batch" THEN 100 ELSE 50]

=============================================================================
