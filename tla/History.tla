------------------------------- MODULE History -------------------------------
(***************************************************************************)
(* internal/engine/history.go: the ring buffer of call records, and the    *)
(* channel and workers that copy records to a storage.                     *)
(*                                                                         *)
(* mu makes Record, Clear and a read of the ring one step each; a query of *)
(* the storage is made without mu.  Times are abstracted: the storage      *)
(* sorts by the second in which a call started, so that records of one     *)
(* second come in any order, and which ones a limit cuts off is open.      *)
(***************************************************************************)
EXTENDS Integers, Sequences, FiniteSets, SequencesExt

CONSTANTS
  Providers,
  MaxSize,    \* of the ring
  QueueCap,   \* of persistCh (256)
  Workers,    \* the goroutines that run persistWorker (4)
  Readers,    \* the goroutines that read
  MaxRecords, \* bound: how many records are ever made
  NoRecord,   \* an empty element of the ring, an idle worker
  Exited      \* a worker that has returned

\* A record, numbered in the order in which Record stores it.
CallRecord == [id : 1..MaxRecords, provider : Providers]

\* Records, RecordsByProvider; RecordsByTag differs in the test only.
NoFilter == NoRecord
Filters == Providers \cup {NoFilter}
Matches(r, f) == f = NoFilter \/ r.provider = f

ASSUME HistoryAssumption ==
  /\ MaxSize \in Nat \ {0} /\ QueueCap \in Nat \ {0}
  /\ MaxRecords \in Nat
  /\ NoRecord \notin Providers \cup CallRecord /\ Exited \notin CallRecord \cup {NoRecord}

VARIABLES
  buf, head, count, \* the ring: the next index to write, how many are valid
  made,             \* how many records were made
  storage,          \* a storage is set
  open,             \* persistCh is not closed
  queue,            \* persistCh
  worker,           \* what each worker holds
  stored,           \* the records in the storage
  lost,             \* those that never get there
  reading,          \* readers whose query failed, with their filter
  shown             \* what the last read from memory returned

ring == <<buf, head, count, made>>
persistence == <<open, queue, worker, stored, lost>>
vars == <<ring, storage, persistence, reading, shown>>

Idle == NoRecord

TypeOK ==
  /\ buf \in [0..(MaxSize - 1) -> CallRecord \cup {NoRecord}]
  /\ head \in 0..(MaxSize - 1) /\ count \in 0..MaxSize
  /\ made \in 0..MaxRecords
  /\ storage \in BOOLEAN /\ open \in BOOLEAN
  /\ queue \in Seq(CallRecord) /\ Len(queue) <= QueueCap
  /\ worker \in [Workers -> CallRecord \cup {Idle, Exited}]
  /\ stored \subseteq CallRecord /\ lost \subseteq CallRecord
  /\ reading \in [Readers -> [busy : BOOLEAN, filter : Filters]]
  /\ shown \in Seq(CallRecord)

NotReading == [busy |-> FALSE, filter |-> NoFilter]

Init ==
  /\ buf = [i \in 0..(MaxSize - 1) |-> NoRecord] /\ head = 0 /\ count = 0
  /\ made = 0
  /\ storage = FALSE /\ open = TRUE
  /\ queue = <<>>
  /\ worker = [w \in Workers |-> Idle]
  /\ stored = {} /\ lost = {}
  /\ reading = [r \in Readers |-> NotReading]
  /\ shown = <<>>

\* Mutant: the newest record is taken to be at head.
AtHead(i) == buf[(head - i + MaxSize) % MaxSize]

\* The i-th newest record, counted from 0.
At(i) == buf[(head - 1 - i + MaxSize) % MaxSize]

Newest == [i \in 1..count |-> At(i - 1)]

-----------------------------------------------------------------------------
(* Mutants: plausible bugs, each standing in for a definition in one check. *)

\* A full queue drops its oldest record to make room.
SendDropsOldest(r) ==
  IF open /\ Len(queue) < QueueCap
  THEN queue' = Append(queue, r) /\ UNCHANGED <<open, worker, stored, lost>>
  ELSE /\ queue' = IF open THEN Append(Tail(queue), r) ELSE queue
       /\ UNCHANGED <<open, worker, stored, lost>>

\* A worker stops as soon as the history is closed.
ExitAtOnce(w) ==
  /\ worker[w] = Idle
  /\ ~open
  /\ worker' = [worker EXCEPT ![w] = Exited]
  /\ UNCHANGED <<ring, storage, open, queue, stored, lost, reading, shown>>

-----------------------------------------------------------------------------
SetStorage ==
  /\ ~storage
  /\ storage' = TRUE
  /\ UNCHANGED <<ring, persistence, reading, shown>>

Push(r) ==
  /\ buf' = [buf EXCEPT ![head] = r]
  /\ head' = (head + 1) % MaxSize
  /\ count' = IF count < MaxSize THEN count + 1 ELSE count
  /\ made' = made + 1

NewRecord(p) == [id |-> made + 1, provider |-> p]

\* The send does not block; on a closed channel it panics, and mu is
\* unlocked by a defer.
Send(r) ==
  IF open /\ Len(queue) < QueueCap
  THEN queue' = Append(queue, r) /\ UNCHANGED <<open, worker, stored, lost>>
  ELSE lost' = lost \cup {r} /\ UNCHANGED <<open, queue, worker, stored>>

Record(p) ==
  /\ made < MaxRecords
  /\ Push(NewRecord(p))
  /\ IF storage THEN Send(NewRecord(p)) ELSE UNCHANGED persistence
  /\ UNCHANGED <<storage, reading, shown>>

Clear ==
  /\ buf' = [i \in 0..(MaxSize - 1) |-> NoRecord]
  /\ head' = 0 /\ count' = 0
  /\ UNCHANGED <<made, storage, persistence, reading, shown>>

Close ==
  /\ open
  /\ open' = FALSE
  /\ UNCHANGED <<ring, storage, queue, worker, stored, lost, reading, shown>>

-----------------------------------------------------------------------------
(* persistWorker.                                                          *)

Receive(w) ==
  /\ worker[w] = Idle
  /\ queue # <<>>
  /\ worker' = [worker EXCEPT ![w] = Head(queue)]
  /\ queue' = Tail(queue)
  /\ UNCHANGED <<ring, storage, open, stored, lost, reading, shown>>

\* The statement of the storage.
RecordCall(r) == stored' = stored \cup {r}

Persist(w) ==
  /\ worker[w] \notin {Idle, Exited}
  /\ RecordCall(worker[w])
  /\ worker' = [worker EXCEPT ![w] = Idle]
  /\ UNCHANGED <<ring, storage, open, queue, lost, reading, shown>>

\* An error of the storage, or its timeout, is logged.
PersistFails(w) ==
  /\ worker[w] \notin {Idle, Exited}
  /\ lost' = lost \cup {worker[w]}
  /\ worker' = [worker EXCEPT ![w] = Idle]
  /\ UNCHANGED <<ring, storage, open, queue, stored, reading, shown>>

Exit(w) ==
  /\ worker[w] = Idle
  /\ ~open /\ queue = <<>>
  /\ worker' = [worker EXCEPT ![w] = Exited]
  /\ UNCHANGED <<ring, storage, open, queue, stored, lost, reading, shown>>

-----------------------------------------------------------------------------
(* Records, RecordsByProvider and RecordsByTag.  An answer of the storage  *)
(* leaves no trace here; a failed query falls back to the ring.            *)

Query(r, f) ==
  /\ storage /\ ~reading[r].busy
  /\ reading' = [reading EXCEPT ![r] = [busy |-> TRUE, filter |-> f]]
  /\ UNCHANGED <<ring, storage, persistence, shown>>

Answered(r) ==
  /\ reading[r].busy
  /\ reading' = [reading EXCEPT ![r] = NotReading]
  /\ UNCHANGED <<ring, storage, persistence, shown>>

FromMemory(f) == shown' = SelectSeq(Newest, LAMBDA r : Matches(r, f))

FallBack(r) ==
  /\ reading[r].busy
  /\ FromMemory(reading[r].filter)
  /\ reading' = [reading EXCEPT ![r] = NotReading]
  /\ UNCHANGED <<ring, storage, persistence>>

Read(r, f) ==
  /\ ~storage /\ ~reading[r].busy
  /\ FromMemory(f)
  /\ UNCHANGED <<ring, storage, persistence, reading>>

-----------------------------------------------------------------------------
WorkerStep(w) == Receive(w) \/ Persist(w) \/ PersistFails(w) \/ Exit(w)

Next ==
  \/ \E p \in Providers : Record(p)
  \/ SetStorage \/ Clear \/ Close
  \/ \E w \in Workers : WorkerStep(w)
  \/ \E r \in Readers : Answered(r) \/ FallBack(r)
                        \/ \E f \in Filters : Query(r, f) \/ Read(r, f)

Spec == Init /\ [][Next]_vars

\* Workers are scheduled, and the storage answers within its timeout.
Fairness == \A w \in Workers : WF_vars(WorkerStep(w))

FairSpec == Spec /\ Fairness

=============================================================================
