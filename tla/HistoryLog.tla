------------------------------ MODULE HistoryLog ------------------------------
(***************************************************************************)
(* What the in-memory history promises: the last MaxSize records, newest   *)
(* first, and reads that show those that match.                            *)
(***************************************************************************)
EXTENDS Naturals, Sequences

CONSTANTS Records, MaxSize, Filters, Matches(_, _)

VARIABLES
  recent, \* newest first
  shown   \* what the last read from memory returned

logVars == <<recent, shown>>

LogInit == recent = <<>> /\ shown = <<>>

Add(r) ==
  /\ recent' = SubSeq(<<r>> \o recent, 1,
                      IF Len(recent) < MaxSize THEN Len(recent) + 1 ELSE MaxSize)
  /\ UNCHANGED shown

Erase == recent' = <<>> /\ UNCHANGED shown

Show(f) ==
  /\ shown' = SelectSeq(recent, LAMBDA r : Matches(r, f))
  /\ UNCHANGED recent

LogNext == (\E r \in Records : Add(r)) \/ Erase \/ \E f \in Filters : Show(f)

LogSpec == LogInit /\ [][LogNext]_logVars

=============================================================================
