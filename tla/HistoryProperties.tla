-------------------------- MODULE HistoryProperties --------------------------
(***************************************************************************)
(* What the ring, the queue and the workers of the history promise.        *)
(***************************************************************************)
EXTENDS History

Log == INSTANCE HistoryLog WITH Records <- CallRecord, recent <- Newest

(* The ring of history.go 96-161 and 287-296, with its index arithmetic,   *)
(* implements the last MaxSize records, newest first, and a read that      *)
(* falls back to memory shows the matching ones in that order.             *)
ImplementsLog == Log!LogSpec

Ids(rs) == {r.id : r \in rs}
InHand == {worker[w] : w \in Workers} \ {Idle, Exited}
Places == <<Ids(ToSet(queue)), Ids(InHand), Ids(stored), Ids(lost)>>

(* From the moment a storage is set every record is in one place: queued,  *)
(* in the hands of one worker, stored, or lost to a full queue, a closed   *)
(* history or an error of the storage (history.go 104-112, 75-79, 133).    *)
Accounted ==
  LET tracked == UNION {Places[i] : i \in 1..4}
  IN  /\ \A i, j \in 1..4 : i # j => Places[i] \cap Places[j] = {}
      /\ \A i, j \in 1..Len(queue) : queue[i] = queue[j] => i = j
      /\ \A v, w \in Workers : worker[v] = worker[w] /\ worker[v] \in CallRecord => v = w
      /\ \A id \in tracked : id..made \subseteq tracked

(* What was queued before Close is still written or its failure logged,    *)
(* and then the workers end; but nobody waits for them (history.go 140).   *)
DrainsAfterClose ==
  /\ \A id \in 1..MaxRecords : id \in Ids(ToSet(queue)) ~> id \in Ids(stored \cup lost)
  /\ ~open ~> \A w \in Workers : worker[w] = Exited

=============================================================================
