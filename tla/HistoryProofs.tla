---------------------------- MODULE HistoryProofs ----------------------------
(***************************************************************************)
(* Theorems about the call history, for any sizes of the ring and of the   *)
(* queue, any number of workers, readers and records.                      *)
(***************************************************************************)
EXTENDS HistoryProperties, SequenceTheorems, TLAPS

(* The types of everything but shown.                                      *)
RingType ==
  /\ buf \in [0..(MaxSize - 1) -> CallRecord \cup {NoRecord}]
  /\ head \in 0..(MaxSize - 1) /\ count \in 0..MaxSize
  /\ made \in 0..MaxRecords

PersistenceType ==
  /\ storage \in BOOLEAN /\ open \in BOOLEAN
  /\ queue \in Seq(CallRecord) /\ Len(queue) <= QueueCap
  /\ worker \in [Workers -> CallRecord \cup {Idle, Exited}]
  /\ stored \subseteq CallRecord /\ lost \subseteq CallRecord

ReadingType == reading \in [Readers -> [busy : BOOLEAN, filter : Filters]]

(* The count newest elements of the ring are records.                      *)
Filled == \A i \in 0..(count - 1) : At(i) \in CallRecord

-----------------------------------------------------------------------------
(* The ring and its index arithmetic.                                      *)

LEMMA Advance ==
  ASSUME NEW h \in 0..(MaxSize - 1)
  PROVE  /\ (h + 1) % MaxSize = (IF h + 1 = MaxSize THEN 0 ELSE h + 1)
         /\ (h + 1) % MaxSize \in 0..(MaxSize - 1)
BY HistoryAssumption

LEMMA Back ==
  ASSUME NEW h \in 0..(MaxSize - 1), NEW i \in 0..(MaxSize - 1)
  PROVE  /\ (h - 1 - i + MaxSize) % MaxSize =
              (IF h - 1 - i >= 0 THEN h - 1 - i ELSE h - 1 - i + MaxSize)
         /\ (h - 1 - i + MaxSize) % MaxSize \in 0..(MaxSize - 1)
BY HistoryAssumption

(* After an advance the newest element is the one just written, and what   *)
(* was i back is i + 1 back, the oldest one of a full ring excepted.       *)
LEMMA BackAfterAdvance ==
  ASSUME NEW h \in 0..(MaxSize - 1)
  PROVE  /\ (((h + 1) % MaxSize) - 1 - 0 + MaxSize) % MaxSize = h
         /\ \A i \in 1..(MaxSize - 1) :
              /\ (((h + 1) % MaxSize) - 1 - i + MaxSize) % MaxSize
                   = (h - 1 - (i - 1) + MaxSize) % MaxSize
              /\ (h - 1 - (i - 1) + MaxSize) % MaxSize # h
<1> DEFINE n == (h + 1) % MaxSize
<1>1. MaxSize \in Nat \ {0} /\ n \in 0..(MaxSize - 1) /\ n = IF h + 1 = MaxSize THEN 0 ELSE h + 1
  BY HistoryAssumption, Advance
<1>2. 0 \in 0..(MaxSize - 1) /\ \A i \in 1..(MaxSize - 1) : i \in 0..(MaxSize - 1) /\ i - 1 \in 0..(MaxSize - 1)
  BY <1>1
<1> HIDE DEF n
<1>3. (n - 1 - 0 + MaxSize) % MaxSize = IF n - 1 - 0 >= 0 THEN n - 1 - 0 ELSE n - 1 - 0 + MaxSize
  BY <1>1, <1>2, Back
<1>4. ASSUME NEW i \in 1..(MaxSize - 1)
      PROVE  /\ (n - 1 - i + MaxSize) % MaxSize = (h - 1 - (i - 1) + MaxSize) % MaxSize
             /\ (h - 1 - (i - 1) + MaxSize) % MaxSize # h
  <2>1. (n - 1 - i + MaxSize) % MaxSize = IF n - 1 - i >= 0 THEN n - 1 - i ELSE n - 1 - i + MaxSize
    BY <1>1, <1>2, Back
  <2>2. (h - 1 - (i - 1) + MaxSize) % MaxSize
          = IF h - 1 - (i - 1) >= 0 THEN h - 1 - (i - 1) ELSE h - 1 - (i - 1) + MaxSize
    BY <1>2, Back
  <2>3. QED
    BY <1>1, <2>1, <2>2
<1>5. QED
  BY <1>1, <1>3, <1>4 DEF n

(* What Push does to the elements counted from the newest.                 *)
LEMMA PushShifts ==
  ASSUME RingType, Filled, NEW r \in CallRecord, Push(r)
  PROVE  /\ At(0)' = r
         /\ \A i \in 1..(MaxSize - 1) : At(i)' = At(i - 1)
         /\ Filled'
         /\ count' = IF count < MaxSize THEN count + 1 ELSE count
<1> USE DEF RingType
<1>1. /\ MaxSize \in Nat \ {0}
      /\ head' = (head + 1) % MaxSize
      /\ buf'[head] = r
      /\ \A j \in 0..(MaxSize - 1) : j # head => buf'[j] = buf[j]
      /\ count' = IF count < MaxSize THEN count + 1 ELSE count
  BY HistoryAssumption DEF Push
<1>2. At(0)' = r
  BY <1>1, BackAfterAdvance DEF At
<1>3. ASSUME NEW i \in 1..(MaxSize - 1) PROVE At(i)' = At(i - 1)
  <2>1. i - 1 \in 0..(MaxSize - 1)
    BY <1>1
  <2>2. (head - 1 - (i - 1) + MaxSize) % MaxSize \in 0..(MaxSize - 1)
    BY <2>1, Back
  <2>3. /\ (head' - 1 - i + MaxSize) % MaxSize = (head - 1 - (i - 1) + MaxSize) % MaxSize
        /\ (head - 1 - (i - 1) + MaxSize) % MaxSize # head
    BY <1>1, BackAfterAdvance
  <2>4. QED
    BY <1>1, <2>2, <2>3, Zenon DEF At
<1>4. ASSUME NEW i \in 0..(count' - 1) PROVE At(i)' \in CallRecord
  <2>1. CASE i = 0
    BY <1>2, <2>1
  <2>2. CASE i # 0
    <3>1. i \in 1..(MaxSize - 1) /\ i - 1 \in 0..(count - 1)
      BY <1>1, <2>2
    <3>2. QED
      BY <1>3, <3>1 DEF Filled
  <2>3. QED
    BY <2>1, <2>2
<1>5. QED
  BY <1>1, <1>2, <1>3, <1>4 DEF Filled

(* What the other operations on the ring and the queue return.             *)
LEMMA NewRecordType ==
  ASSUME RingType, made < MaxRecords, NEW p \in Providers
  PROVE  NewRecord(p) \in CallRecord
<1>1. made + 1 \in 1..MaxRecords
  BY HistoryAssumption DEF RingType
<1>2. QED
  BY <1>1 DEF NewRecord, CallRecord

LEMMA PushType ==
  ASSUME RingType, made < MaxRecords, NEW r \in CallRecord, Push(r)
  PROVE  RingType'
<1>1. buf' \in [0..(MaxSize - 1) -> CallRecord \cup {NoRecord}]
  BY DEF RingType, Push
<1>2. head' \in 0..(MaxSize - 1)
  BY Advance DEF RingType, Push
<1>3. count' \in 0..MaxSize /\ made' \in 0..MaxRecords
  BY HistoryAssumption DEF RingType, Push
<1>4. QED
  BY <1>1, <1>2, <1>3 DEF RingType

LEMMA QueueOps ==
  ASSUME NEW S, NEW q \in Seq(S)
  PROVE  /\ Len(q) \in Nat
         /\ \A i \in 1..Len(q) : q[i] \in S
         /\ \A m \in S :
              /\ Append(q, m) \in Seq(S) /\ Len(Append(q, m)) = Len(q) + 1
              /\ Append(q, m)[Len(q) + 1] = m
              /\ \A i \in 1..Len(q) : Append(q, m)[i] = q[i]
         /\ q # <<>> =>
              /\ Len(q) > 0 /\ Head(q) = q[1] /\ Head(q) \in S
              /\ Tail(q) \in Seq(S) /\ Len(Tail(q)) = Len(q) - 1
              /\ \A i \in 1..(Len(q) - 1) : Tail(q)[i] = q[i + 1]
BY SMT

LEMMA SendType ==
  ASSUME PersistenceType, NEW r \in CallRecord, Send(r)
  PROVE  /\ queue' \in Seq(CallRecord) /\ Len(queue') <= QueueCap
         /\ lost' \subseteq CallRecord
         /\ UNCHANGED <<open, worker, stored>>
<1>1. queue \in Seq(CallRecord) /\ Len(queue) <= QueueCap /\ QueueCap \in Nat
  BY HistoryAssumption DEF PersistenceType
<1>2. CASE open /\ Len(queue) < QueueCap
  <2>1. queue' = Append(queue, r) /\ UNCHANGED <<open, worker, stored, lost>>
    BY <1>2 DEF Send
  <2>2. queue' \in Seq(CallRecord) /\ Len(queue') = Len(queue) + 1 /\ Len(queue) \in Nat
    BY <1>1, <2>1, QueueOps
  <2>3. QED
    BY <1>1, <1>2, <2>1, <2>2 DEF PersistenceType
<1>3. CASE ~(open /\ Len(queue) < QueueCap)
  BY <1>1, <1>3 DEF Send, PersistenceType
<1>4. QED
  BY <1>2, <1>3

LEMMA RingNext == RingType /\ Filled /\ [Next]_vars => RingType' /\ Filled'
<1> SUFFICES ASSUME RingType, Filled, [Next]_vars PROVE RingType' /\ Filled'
  OBVIOUS
<1>1. ASSUME NEW p \in Providers, Record(p) PROVE RingType' /\ Filled'
  BY <1>1, NewRecordType, PushType, PushShifts DEF Record
<1>2. CASE Clear
  <2>1. count' = 0 /\ head' = 0 /\ made' = made
    BY <1>2 DEF Clear
  <2>2. buf' \in [0..(MaxSize - 1) -> CallRecord \cup {NoRecord}]
    BY <1>2 DEF Clear
  <2>3. QED
    BY <2>1, <2>2, HistoryAssumption DEF RingType, Filled
<1>3. ASSUME UNCHANGED ring PROVE RingType' /\ Filled'
  <2>1. \A i \in 0..(count - 1) : At(i)' = At(i)
    BY <1>3 DEF ring, At
  <2>2. QED
    BY <1>3, <2>1 DEF ring, RingType, Filled
<1>4. ASSUME NEW w \in Workers, WorkerStep(w) PROVE UNCHANGED ring
  BY <1>4 DEF WorkerStep, Receive, Persist, PersistFails, Exit
<1>5. ASSUME NEW r \in Readers,
             Answered(r) \/ FallBack(r) \/ \E f \in Filters : Query(r, f) \/ Read(r, f)
      PROVE  UNCHANGED ring
  BY <1>5 DEF Answered, FallBack, Query, Read
<1>6. CASE SetStorage \/ Close \/ UNCHANGED vars
  BY <1>3, <1>6 DEF SetStorage, Close, vars
<1>7. QED
  BY <1>1, <1>2, <1>3, <1>4, <1>5, <1>6 DEF Next

LEMMA PersistenceNext == RingType /\ PersistenceType /\ [Next]_vars => PersistenceType'
<1> SUFFICES ASSUME RingType, PersistenceType, [Next]_vars PROVE PersistenceType'
  OBVIOUS
<1>1. ASSUME NEW p \in Providers, Record(p) PROVE PersistenceType'
  <2>1. CASE storage
    BY <1>1, <2>1, NewRecordType, SendType DEF Record, PersistenceType
  <2>2. CASE ~storage
    BY <1>1, <2>2 DEF Record, PersistenceType, persistence
  <2>3. QED
    BY <2>1, <2>2 DEF PersistenceType
<1>2. ASSUME NEW w \in Workers, Receive(w) PROVE PersistenceType'
  <2>1. queue # <<>> /\ queue \in Seq(CallRecord) /\ QueueCap \in Nat
    BY <1>2, HistoryAssumption DEF Receive, PersistenceType
  <2>2. /\ Head(queue) \in CallRecord /\ Tail(queue) \in Seq(CallRecord)
        /\ Len(Tail(queue)) = Len(queue) - 1 /\ Len(queue) \in Nat
    BY <2>1, QueueOps
  <2>3. /\ worker' = [worker EXCEPT ![w] = Head(queue)] /\ queue' = Tail(queue)
        /\ UNCHANGED <<storage, open, stored, lost>>
    BY <1>2 DEF Receive
  <2>4. worker' \in [Workers -> CallRecord \cup {Idle, Exited}]
    BY <2>2, <2>3 DEF PersistenceType
  <2>5. queue' \in Seq(CallRecord) /\ Len(queue') <= QueueCap
    BY <2>1, <2>2, <2>3 DEF PersistenceType
  <2>6. QED
    BY <2>3, <2>4, <2>5 DEF PersistenceType
<1>3. ASSUME NEW w \in Workers, Persist(w) \/ PersistFails(w) \/ Exit(w) PROVE PersistenceType'
  BY <1>3 DEF Persist, PersistFails, Exit, RecordCall, PersistenceType
<1>4. ASSUME NEW r \in Readers,
             Answered(r) \/ FallBack(r) \/ \E f \in Filters : Query(r, f) \/ Read(r, f)
      PROVE  PersistenceType'
  BY <1>4 DEF Answered, FallBack, Query, Read, PersistenceType, persistence
<1>5. CASE SetStorage \/ Close \/ Clear \/ UNCHANGED vars
  BY <1>5 DEF SetStorage, Close, Clear, vars, PersistenceType, persistence
<1>6. QED
  BY <1>1, <1>2, <1>3, <1>4, <1>5 DEF Next, WorkerStep

LEMMA ReadingNext == ReadingType /\ [Next]_vars => ReadingType'
<1> SUFFICES ASSUME ReadingType, [Next]_vars PROVE ReadingType'
  OBVIOUS
<1>1. NotReading \in [busy : BOOLEAN, filter : Filters]
  BY DEF NotReading, Filters
<1>2. ASSUME NEW r \in Readers, NEW f \in Filters, Query(r, f) PROVE ReadingType'
  BY <1>2 DEF Query, ReadingType
<1>3. ASSUME NEW r \in Readers, Answered(r) \/ FallBack(r) PROVE ReadingType'
  BY <1>1, <1>3 DEF Answered, FallBack, ReadingType
<1>4. ASSUME UNCHANGED reading PROVE ReadingType'
  BY <1>4 DEF ReadingType
<1>5. QED
  BY <1>2, <1>3, <1>4
     DEF Next, Record, SetStorage, Clear, Close, WorkerStep, Receive, Persist, PersistFails, Exit,
         Read, vars

(* The invariant of types, of all variables but shown.                     *)
HistoryInv == RingType /\ Filled /\ PersistenceType /\ ReadingType

LEMMA HistoryInvInit == Init => HistoryInv
<1> SUFFICES ASSUME Init PROVE HistoryInv
  OBVIOUS
<1>1. RingType /\ Filled
  BY HistoryAssumption DEF Init, RingType, Filled
<1>2. PersistenceType
  BY HistoryAssumption DEF Init, PersistenceType
<1>3. ReadingType
  BY DEF Init, ReadingType, NotReading, Filters
<1>4. QED
  BY <1>1, <1>2, <1>3 DEF HistoryInv

LEMMA HistoryInvNext == HistoryInv /\ [Next]_vars => HistoryInv'
<1>1. HistoryInv <=> RingType /\ Filled /\ PersistenceType /\ ReadingType
  BY DEF HistoryInv
<1>2. RingType' /\ Filled' /\ PersistenceType' /\ ReadingType' => HistoryInv'
  BY DEF HistoryInv
<1>3. QED
  BY <1>1, <1>2, RingNext, PersistenceNext, ReadingNext

LEMMA HistoryInvariant == Spec => []HistoryInv
BY HistoryInvInit, HistoryInvNext, PTL DEF Spec

-----------------------------------------------------------------------------
(* The ring implements the log.                                            *)

LEMMA NewestType ==
  ASSUME RingType, Filled
  PROVE  /\ Newest \in Seq(CallRecord) /\ Len(Newest) = count /\ count \in 0..MaxSize
         /\ \A i \in 1..count : Newest[i] = At(i - 1)
<1>1. count \in Nat /\ count \in 0..MaxSize
  BY HistoryAssumption DEF RingType
<1>2. \A i \in 1..count : At(i - 1) \in CallRecord
  BY <1>1 DEF Filled
<1>3. QED
  BY <1>1, <1>2 DEF Newest

LEMMA LogInitially == Init => Log!LogInit
<1> SUFFICES ASSUME Init PROVE Newest = <<>> /\ shown = <<>>
  BY DEF Log!LogInit
<1>1. count = 0 /\ shown = <<>>
  BY DEF Init
<1>2. QED
  BY <1>1 DEF Newest

(* A record goes before the others, the oldest one falls off a full ring.  *)
LEMMA PushAdds ==
  ASSUME RingType, RingType', Filled, NEW r \in CallRecord, Push(r), UNCHANGED shown
  PROVE  Log!Add(r)
<1> DEFINE n == IF Len(Newest) < MaxSize THEN Len(Newest) + 1 ELSE MaxSize
           longer == <<r>> \o Newest
           new == SubSeq(longer, 1, n)
<1>1. MaxSize \in Nat \ {0}
  BY HistoryAssumption
<1>2. /\ Newest \in Seq(CallRecord) /\ Len(Newest) = count /\ count \in 0..MaxSize
      /\ \A i \in 1..count : Newest[i] = At(i - 1)
  BY NewestType
<1>3. /\ At(0)' = r /\ Filled'
      /\ \A i \in 1..(MaxSize - 1) : At(i)' = At(i - 1)
      /\ count' = IF count < MaxSize THEN count + 1 ELSE count
  BY PushShifts
<1>4. /\ Newest' \in Seq(CallRecord) /\ Len(Newest') = count'
      /\ \A i \in 1..count' : Newest'[i] = At(i - 1)'
  <2>1. count' \in Nat /\ \A i \in 1..count' : At(i - 1)' \in CallRecord
    BY <1>1, <1>2, <1>3 DEF Filled
  <2>2. QED
    BY <2>1 DEF Newest
<1>5. n = count' /\ n \in 1..(count + 1) /\ n \in 1..MaxSize
  BY <1>1, <1>2, <1>3
<1>6. /\ longer \in Seq(CallRecord) /\ Len(longer) = count + 1
      /\ longer[1] = r /\ \A i \in 2..(count + 1) : longer[i] = Newest[i - 1]
  <2>1. <<r>> \in Seq(CallRecord) /\ Len(<<r>>) = 1 /\ <<r>>[1] = r
    OBVIOUS
  <2>2. /\ longer \in Seq(CallRecord) /\ Len(longer) = 1 + count
        /\ \A i \in 1..(1 + count) : longer[i] = IF i <= 1 THEN <<r>>[i] ELSE Newest[i - 1]
    BY <1>2, <2>1, ConcatProperties
  <2>3. QED
    BY <1>2, <2>1, <2>2
<1> HIDE DEF longer, n
<1>7. new \in Seq(CallRecord) /\ Len(new) = n /\ \A i \in 1..n : new[i] = longer[i]
  <2>1. n \in Nat /\ n > 0 /\ \A i \in 1..n : i \in 1..Len(longer)
    BY <1>2, <1>5, <1>6
  <2>2. \A i \in 1..n : longer[i] \in CallRecord
    BY <1>6, <2>1, QueueOps
  <2>3. \A m \in Nat : m > 0 => m - 1 + 1 = m /\ 1 <= m /\ \A i \in 1..m : 1 + i - 1 = i
    OBVIOUS
  <2>4. QED
    BY <2>1, <2>2, <2>3, SubSeqProperties, SMT
<1>8. ASSUME NEW i \in 1..n PROVE new[i] = Newest'[i]
  <2>1. CASE i = 1
    <3>1. Newest'[1] = At(0)'
      BY <1>1, <1>2, <1>4, <1>5
    <3>2. QED
      BY <1>3, <1>6, <1>7, <2>1, <3>1
  <2>2. CASE i # 1
    <3>1. /\ i \in 2..(count + 1) /\ i \in 1..count' /\ i - 1 \in 1..count
          /\ i - 1 \in 1..(MaxSize - 1)
      BY <1>1, <1>2, <1>5, <2>2
    <3>2. new[i] = Newest[i - 1]
      BY <1>6, <1>7, <3>1
    <3>3. Newest[i - 1] = At(i - 1 - 1)
      BY <1>2, <3>1
    <3>4. Newest'[i] = At(i - 1)' /\ At(i - 1)' = At(i - 1 - 1)
      BY <1>3, <1>4, <3>1
    <3>5. QED
      BY <3>2, <3>3, <3>4
  <2>3. QED
    BY <2>1, <2>2
<1>9. Newest' = new
  BY <1>4, <1>5, <1>7, <1>8, SeqEqual
<1>10. QED
  BY <1>9 DEF Log!Add, longer, n

LEMMA LogStep == HistoryInv /\ HistoryInv' /\ [Next]_vars => [Log!LogNext]_(Log!logVars)
<1> SUFFICES ASSUME HistoryInv, HistoryInv', [Next]_vars
             PROVE  Log!LogNext \/ UNCHANGED <<Newest, shown>>
  BY DEF Log!logVars
<1>1. RingType /\ RingType' /\ Filled /\ ReadingType
  BY DEF HistoryInv
<1>2. ASSUME NEW p \in Providers, Record(p) PROVE Log!LogNext
  <2>1. NewRecord(p) \in CallRecord /\ Push(NewRecord(p)) /\ UNCHANGED shown
    BY <1>1, <1>2, NewRecordType DEF Record
  <2>2. Log!Add(NewRecord(p))
    BY <1>1, <2>1, PushAdds
  <2>3. QED
    BY <2>1, <2>2 DEF Log!LogNext
<1>3. CASE Clear
  <2>1. count' = 0 /\ UNCHANGED shown
    BY <1>3 DEF Clear
  <2>2. Newest' = <<>>
    BY <2>1 DEF Newest
  <2>3. QED
    BY <2>1, <2>2 DEF Log!LogNext, Log!Erase
<1>4. ASSUME UNCHANGED ring PROVE UNCHANGED Newest
  BY <1>4 DEF ring, Newest, At
<1>5. ASSUME NEW f \in Filters, FromMemory(f), UNCHANGED ring PROVE Log!LogNext
  <2>1. Log!Show(f)
    BY <1>4, <1>5 DEF FromMemory, Log!Show
  <2>2. QED
    BY <2>1 DEF Log!LogNext
<1>6. ASSUME NEW r \in Readers, FallBack(r) PROVE Log!LogNext
  BY <1>1, <1>5, <1>6 DEF FallBack, ReadingType
<1>7. ASSUME NEW r \in Readers, NEW f \in Filters, Read(r, f) PROVE Log!LogNext
  BY <1>5, <1>7 DEF Read
<1>8. ASSUME NEW r \in Readers, Answered(r) \/ \E f \in Filters : Query(r, f)
      PROVE  UNCHANGED <<Newest, shown>>
  BY <1>4, <1>8 DEF Answered, Query
<1>9. ASSUME NEW w \in Workers, WorkerStep(w) PROVE UNCHANGED <<Newest, shown>>
  BY <1>4, <1>9 DEF WorkerStep, Receive, Persist, PersistFails, Exit
<1>10. CASE SetStorage \/ Close \/ UNCHANGED vars
  BY <1>4, <1>10 DEF SetStorage, Close, vars
<1>11. QED
  BY <1>2, <1>3, <1>6, <1>7, <1>8, <1>9, <1>10 DEF Next

(* The ring with its index arithmetic is the log of the last MaxSize       *)
(* records, newest first, and a read from memory shows those that match.   *)
THEOREM RingImplementsLog == Spec => ImplementsLog
<1>1. Init => Log!LogInit
  BY LogInitially
<1>2. HistoryInv /\ HistoryInv' /\ [Next]_vars => [Log!LogNext]_(Log!logVars)
  BY LogStep
<1>3. QED
  BY <1>1, <1>2, HistoryInvariant, PTL DEF Spec, ImplementsLog, Log!LogSpec

-----------------------------------------------------------------------------
(* Every record is in one place.                                           *)

QueuedIds == {queue[i].id : i \in 1..Len(queue)}
Holding == {w \in Workers : worker[w] \in CallRecord}
HeldIds == {worker[w].id : w \in Holding}
WrittenIds == {r.id : r \in stored}
MissedIds == {r.id : r \in lost}
Tracked == QueuedIds \cup HeldIds \cup WrittenIds \cup MissedIds

(* The inductive invariant.  Records are told apart by their numbers, none *)
(* has the number of a record yet to come, and there are none before a     *)
(* storage is set.                                                         *)
QueuedOnce == \A i, j \in 1..Len(queue) : queue[i].id = queue[j].id => i = j
HeldOnce == \A v, w \in Holding : worker[v].id = worker[w].id => v = w
OnePlace ==
  /\ QueuedIds \cap (HeldIds \cup WrittenIds \cup MissedIds) = {}
  /\ HeldIds \cap (WrittenIds \cup MissedIds) = {}
  /\ WrittenIds \cap MissedIds = {}
NoGaps == \A id \in Tracked : id \in 1..made /\ id..made \subseteq Tracked
NothingBeforeStorage == ~storage => Tracked = {}

PlaceInv == QueuedOnce /\ HeldOnce /\ OnePlace /\ NoGaps /\ NothingBeforeStorage

LEMMA SentinelsAreNoRecords == NoRecord \notin CallRecord /\ Exited \notin CallRecord
BY HistoryAssumption

(* A step that moves no record, with or without one being made.            *)
LEMMA PlacesKept ==
  ASSUME PlaceInv, UNCHANGED <<queue, stored, lost>>,
         Holding' = Holding, \A w \in Holding : worker'[w] = worker[w],
         made' = made \/ ~storage, ~storage' => ~storage
  PROVE  PlaceInv'
<1>1. /\ QueuedIds' = QueuedIds /\ HeldIds' = HeldIds
      /\ WrittenIds' = WrittenIds /\ MissedIds' = MissedIds
  BY DEF QueuedIds, HeldIds, WrittenIds, MissedIds
<1>2. Tracked' = Tracked
  BY <1>1 DEF Tracked
<1>3. QueuedOnce' /\ HeldOnce'
  BY DEF PlaceInv, QueuedOnce, HeldOnce
<1>4. OnePlace'
  BY <1>1 DEF PlaceInv, OnePlace
<1>5. NothingBeforeStorage'
  BY <1>2 DEF PlaceInv, NothingBeforeStorage
<1>6. NoGaps'
  BY <1>2 DEF PlaceInv, NothingBeforeStorage, NoGaps
<1>7. QED
  BY <1>3, <1>4, <1>5, <1>6 DEF PlaceInv

(* A record is made while a storage is set: it is queued, or lost.         *)
LEMMA RecordPlaced ==
  ASSUME RingType, PersistenceType, PlaceInv, storage, NEW p \in Providers, Record(p)
  PROVE  PlaceInv'
<1> DEFINE r == NewRecord(p)
           new == made + 1
<1>1. /\ r \in CallRecord /\ r.id = new /\ made \in Nat /\ made' = new /\ storage'
      /\ Send(r) /\ UNCHANGED <<worker, stored>>
  BY NewRecordType, HistoryAssumption, SendType DEF Record, Push, NewRecord, RingType
<1> HIDE DEF r
<1>2. new \notin Tracked
  BY <1>1 DEF PlaceInv, NoGaps
<1>3. HeldIds' = HeldIds /\ WrittenIds' = WrittenIds /\ HeldOnce'
  BY <1>1 DEF HeldIds, Holding, WrittenIds, PlaceInv, HeldOnce
<1>4. /\ QueuedOnce'
      /\ \/ QueuedIds' = QueuedIds \cup {new} /\ MissedIds' = MissedIds
         \/ QueuedIds' = QueuedIds /\ MissedIds' = MissedIds \cup {new}
  <2>1. CASE open /\ Len(queue) < QueueCap
    <3>1. queue \in Seq(CallRecord) /\ queue' = Append(queue, r) /\ lost' = lost
      BY <1>1, <2>1 DEF Send, PersistenceType
    <3>2. /\ Len(queue) \in Nat /\ Len(queue') = Len(queue) + 1 /\ queue'[Len(queue) + 1] = r
          /\ \A i \in 1..Len(queue) : queue'[i] = queue[i]
      BY <1>1, <3>1, QueueOps
    <3>3. 1..(Len(queue) + 1) = 1..Len(queue) \cup {Len(queue) + 1}
      BY <3>2
    <3>4. \A i \in 1..Len(queue) : queue[i].id # new
      BY <1>2 DEF Tracked, QueuedIds
    <3>5. QueuedOnce'
      <4> SUFFICES ASSUME NEW i \in 1..Len(queue'), NEW j \in 1..Len(queue'), queue'[i].id = queue'[j].id
                   PROVE  i = j
        BY DEF QueuedOnce
      <4>1. CASE i \in 1..Len(queue) /\ j \in 1..Len(queue)
        BY <3>2, <4>1 DEF PlaceInv, QueuedOnce
      <4>2. CASE i \in 1..Len(queue) /\ j = Len(queue) + 1
        BY <1>1, <3>2, <3>4, <4>2
      <4>3. CASE i = Len(queue) + 1 /\ j \in 1..Len(queue)
        BY <1>1, <3>2, <3>4, <4>3
      <4>4. QED
        BY <3>2, <3>3, <4>1, <4>2, <4>3
    <3>6. QueuedIds' = QueuedIds \cup {new}
      <4>1. QueuedIds' = {queue'[i].id : i \in 1..Len(queue) \cup {Len(queue) + 1}}
        BY <3>2, <3>3 DEF QueuedIds
      <4>2. queue'[Len(queue) + 1].id = new
        BY <1>1, <3>2
      <4>3. QED
        BY <3>2, <4>1, <4>2 DEF QueuedIds
    <3>7. QED
      BY <3>1, <3>5, <3>6 DEF MissedIds
  <2>2. CASE ~(open /\ Len(queue) < QueueCap)
    <3>1. queue' = queue /\ lost' = lost \cup {r}
      BY <1>1, <2>2 DEF Send
    <3>2. QueuedOnce' /\ QueuedIds' = QueuedIds
      BY <3>1 DEF PlaceInv, QueuedOnce, QueuedIds
    <3>3. MissedIds' = MissedIds \cup {new}
      BY <1>1, <3>1 DEF MissedIds
    <3>4. QED
      BY <3>2, <3>3
  <2>3. QED
    BY <2>1, <2>2
<1>5. OnePlace'
  <2>1. new \notin QueuedIds /\ new \notin HeldIds /\ new \notin WrittenIds /\ new \notin MissedIds
    BY <1>2 DEF Tracked
  <2>2. OnePlace
    BY DEF PlaceInv
  <2> HIDE DEF new
  <2>3. QED
    BY <1>3, <1>4, <2>1, <2>2 DEF OnePlace
<1>6. Tracked' = Tracked \cup {new}
  BY <1>3, <1>4 DEF Tracked
<1>7. NoGaps'
  <2> SUFFICES ASSUME NEW id \in Tracked \cup {new}
               PROVE  id \in 1..new /\ id..new \subseteq Tracked \cup {new}
    BY <1>1, <1>6 DEF NoGaps
  <2>1. CASE id \in Tracked
    <3>1. id \in 1..made /\ id..made \subseteq Tracked
      BY <2>1 DEF PlaceInv, NoGaps
    <3>2. id \in 1..new /\ id..new = id..made \cup {new}
      BY <1>1, <3>1
    <3>3. QED
      BY <3>1, <3>2
  <2>2. CASE id = new
    <3>1. id \in 1..new /\ id..new = {new}
      BY <1>1, <2>2
    <3>2. QED
      BY <3>1
  <2>3. QED
    BY <2>1, <2>2
<1>8. NothingBeforeStorage'
  BY <1>1 DEF NothingBeforeStorage
<1>9. QED
  BY <1>3, <1>4, <1>5, <1>7, <1>8 DEF PlaceInv

(* A worker receives the oldest record of the queue.                       *)
LEMMA ReceivePlaced ==
  ASSUME PersistenceType, PlaceInv, NEW w \in Workers, Receive(w)
  PROVE  PlaceInv'
<1> DEFINE r == Head(queue)
<1>1. /\ queue \in Seq(CallRecord) /\ queue # <<>> /\ queue' = Tail(queue)
      /\ worker' = [worker EXCEPT ![w] = r] /\ w \notin Holding
      /\ UNCHANGED <<stored, lost, made, storage>>
  BY SentinelsAreNoRecords DEF Receive, PersistenceType, Holding, Idle, ring
<1>2. /\ Len(queue) \in Nat /\ Len(queue) > 0 /\ r = queue[1] /\ r \in CallRecord
      /\ Len(queue') = Len(queue) - 1
      /\ \A i \in 1..(Len(queue) - 1) : queue'[i] = queue[i + 1]
  BY <1>1, QueueOps
<1> HIDE DEF r
<1>3. /\ worker'[w] = r /\ \A v \in Workers \ {w} : worker'[v] = worker[v]
  BY <1>1 DEF PersistenceType
<1>4. /\ QueuedOnce /\ HeldOnce /\ OnePlace
  BY DEF PlaceInv
<1>5. /\ \A i \in 1..(Len(queue) - 1) : i + 1 \in 1..Len(queue) /\ i + 1 # 1
      /\ 1 \in 1..Len(queue)
      /\ \A j \in 1..Len(queue) : j # 1 => j - 1 \in 1..(Len(queue) - 1) /\ (j - 1) + 1 = j
  BY <1>2
<1>6. QueuedOnce'
  <2> SUFFICES ASSUME NEW i \in 1..(Len(queue) - 1), NEW j \in 1..(Len(queue) - 1),
                      queue[i + 1].id = queue[j + 1].id
               PROVE  i = j
    BY <1>2 DEF QueuedOnce
  <2>1. i + 1 = j + 1
    BY <1>4, <1>5 DEF QueuedOnce
  <2>2. QED
    BY <1>2, <2>1
<1>7. QueuedIds' = QueuedIds \ {r.id} /\ r.id \in QueuedIds
  <2>1. QueuedIds' = {queue[i + 1].id : i \in 1..(Len(queue) - 1)}
    BY <1>2 DEF QueuedIds
  <2>2. \A i \in 1..(Len(queue) - 1) : queue[i + 1].id # r.id
    BY <1>2, <1>4, <1>5 DEF QueuedOnce
  <2>3. ASSUME NEW id \in QueuedIds \ {r.id} PROVE id \in {queue[i + 1].id : i \in 1..(Len(queue) - 1)}
    <3>1. PICK j \in 1..Len(queue) : id = queue[j].id
      BY DEF QueuedIds
    <3>2. j # 1
      BY <1>2, <3>1
    <3>3. QED
      BY <1>5, <3>1, <3>2
  <2>4. {queue[i + 1].id : i \in 1..(Len(queue) - 1)} \subseteq QueuedIds \ {r.id}
    BY <1>5, <2>2 DEF QueuedIds
  <2>5. QED
    BY <1>2, <1>5, <2>1, <2>3, <2>4 DEF QueuedIds
<1>8. Holding' = Holding \cup {w}
  BY <1>2, <1>3 DEF Holding
<1>9. HeldIds' = HeldIds \cup {r.id}
  BY <1>1, <1>3, <1>8 DEF HeldIds, Holding
<1>10. HeldOnce'
  <2>1. \A v \in Holding : worker[v].id # r.id
    BY <1>4, <1>7 DEF OnePlace, HeldIds
  <2>2. \A v \in Holding : v \in Workers /\ v # w /\ worker'[v] = worker[v]
    BY <1>1, <1>3 DEF Holding
  <2>3. QED
    BY <1>3, <1>4, <1>8, <2>1, <2>2 DEF HeldOnce
<1>11. WrittenIds' = WrittenIds /\ MissedIds' = MissedIds
  BY <1>1 DEF WrittenIds, MissedIds
<1>12. OnePlace'
  BY <1>4, <1>7, <1>9, <1>11 DEF OnePlace
<1>13. Tracked' = Tracked
  BY <1>7, <1>9, <1>11 DEF Tracked
<1>14. NoGaps' /\ NothingBeforeStorage'
  BY <1>1, <1>13 DEF PlaceInv, NoGaps, NothingBeforeStorage
<1>15. QED
  BY <1>6, <1>10, <1>12, <1>14 DEF PlaceInv

(* A worker writes the record it holds, or gives it up.                    *)
LEMMA PersistPlaced ==
  ASSUME PersistenceType, PlaceInv, NEW w \in Workers, Persist(w) \/ PersistFails(w)
  PROVE  PlaceInv'
<1> DEFINE r == worker[w]
<1>1. /\ r \in CallRecord /\ w \in Holding
      /\ worker' = [worker EXCEPT ![w] = Idle]
      /\ UNCHANGED <<queue, made, storage>>
      /\ \/ stored' = stored \cup {r} /\ lost' = lost
         \/ lost' = lost \cup {r} /\ stored' = stored
  BY DEF Persist, PersistFails, RecordCall, PersistenceType, Holding, ring
<1>2. /\ worker'[w] \notin CallRecord /\ \A v \in Workers \ {w} : worker'[v] = worker[v]
  BY <1>1, SentinelsAreNoRecords DEF PersistenceType, Idle
<1>3. QueuedOnce /\ HeldOnce /\ OnePlace
  BY DEF PlaceInv
<1>4. Holding' = Holding \ {w}
  BY <1>2 DEF Holding
<1>5. \A v \in Holding \ {w} : worker'[v] = worker[v] /\ worker[v].id # r.id
  BY <1>1, <1>2, <1>3 DEF Holding, HeldOnce
<1>6. HeldIds' = HeldIds \ {r.id} /\ r.id \in HeldIds
  BY <1>1, <1>4, <1>5 DEF HeldIds
<1>7. HeldOnce'
  BY <1>3, <1>4, <1>5 DEF HeldOnce
<1>8. QueuedIds' = QueuedIds /\ QueuedOnce'
  BY <1>1, <1>3 DEF QueuedIds, QueuedOnce
<1>9. \/ WrittenIds' = WrittenIds \cup {r.id} /\ MissedIds' = MissedIds
      \/ MissedIds' = MissedIds \cup {r.id} /\ WrittenIds' = WrittenIds
  BY <1>1 DEF WrittenIds, MissedIds
<1>10. OnePlace'
  BY <1>3, <1>6, <1>8, <1>9 DEF OnePlace
<1>11. Tracked' = Tracked
  BY <1>6, <1>8, <1>9 DEF Tracked
<1>12. NoGaps' /\ NothingBeforeStorage'
  BY <1>1, <1>11 DEF PlaceInv, NoGaps, NothingBeforeStorage
<1>13. QED
  BY <1>7, <1>8, <1>10, <1>12 DEF PlaceInv

LEMMA PlaceInit == Init => PlaceInv
<1> SUFFICES ASSUME Init PROVE PlaceInv
  OBVIOUS
<1>1. queue = <<>> /\ Holding = {} /\ stored = {} /\ lost = {}
  BY SentinelsAreNoRecords DEF Init, Holding, Idle
<1>2. QueuedIds = {} /\ HeldIds = {} /\ WrittenIds = {} /\ MissedIds = {}
  BY <1>1 DEF QueuedIds, HeldIds, WrittenIds, MissedIds
<1>3. QueuedOnce /\ HeldOnce
  BY <1>1 DEF QueuedOnce, HeldOnce
<1>4. QED
  BY <1>2, <1>3 DEF PlaceInv, OnePlace, NoGaps, NothingBeforeStorage, Tracked

LEMMA PlaceNext == HistoryInv /\ PlaceInv /\ [Next]_vars => PlaceInv'
<1> SUFFICES ASSUME HistoryInv, PlaceInv, [Next]_vars PROVE PlaceInv'
  OBVIOUS
<1>1. RingType /\ PersistenceType
  BY DEF HistoryInv
<1>2. ASSUME UNCHANGED <<queue, worker, stored, lost>>, made' = made \/ ~storage,
             ~storage' => ~storage
      PROVE  PlaceInv'
  BY <1>2, PlacesKept DEF Holding
<1>3. ASSUME NEW p \in Providers, Record(p) PROVE PlaceInv'
  <2>1. CASE storage
    BY <1>1, <1>3, <2>1, RecordPlaced
  <2>2. CASE ~storage
    BY <1>2, <1>3, <2>2 DEF Record, persistence
  <2>3. QED
    BY <2>1, <2>2
<1>4. ASSUME NEW w \in Workers, Exit(w) PROVE PlaceInv'
  <2>1. /\ worker' = [worker EXCEPT ![w] = Exited] /\ w \notin Holding
        /\ UNCHANGED <<queue, stored, lost, made, storage>>
    BY <1>4, SentinelsAreNoRecords DEF Exit, Holding, Idle, ring
  <2>2. Holding' = Holding /\ \A v \in Holding : worker'[v] = worker[v]
    BY <1>1, <2>1, SentinelsAreNoRecords DEF Holding, PersistenceType
  <2>3. QED
    BY <2>1, <2>2, PlacesKept
<1>5. ASSUME NEW r \in Readers,
             Answered(r) \/ FallBack(r) \/ \E f \in Filters : Query(r, f) \/ Read(r, f)
      PROVE  PlaceInv'
  BY <1>2, <1>5 DEF Answered, FallBack, Query, Read, persistence, ring
<1>6. CASE SetStorage \/ Close \/ Clear \/ UNCHANGED vars
  BY <1>2, <1>6 DEF SetStorage, Close, Clear, vars, persistence, ring
<1>7. QED
  BY <1>1, <1>3, <1>4, <1>5, <1>6, ReceivePlaced, PersistPlaced DEF Next, WorkerStep

(* What the invariant says of the records and of the places of Accounted.  *)
LEMMA PlacesAreIds ==
  ASSUME PersistenceType
  PROVE  /\ Ids(ToSet(queue)) = QueuedIds /\ Ids(InHand) = HeldIds
         /\ Ids(stored) = WrittenIds /\ Ids(lost) = MissedIds
<1>1. queue \in Seq(CallRecord)
  BY DEF PersistenceType
<1>2. ToSet(queue) = {queue[i] : i \in 1..Len(queue)}
  BY <1>1, LenProperties DEF ToSet
<1>3. Ids(ToSet(queue)) = QueuedIds
  BY <1>2 DEF Ids, QueuedIds
<1>4. InHand = {worker[w] : w \in Holding}
  BY SentinelsAreNoRecords DEF InHand, Holding, PersistenceType, Idle
<1>5. Ids(InHand) = HeldIds
  BY <1>4 DEF Ids, HeldIds
<1>6. QED
  BY <1>3, <1>5 DEF Ids, WrittenIds, MissedIds

(* Every record made since a storage was set is queued, in the hands of    *)
(* one worker, stored or lost, and in one of these places only, whatever   *)
(* the sizes of the queue and the number of workers.                       *)
THEOREM RecordsAreAccounted == Spec => []Accounted
<1>1. HistoryInv /\ PlaceInv => Accounted
  <2> SUFFICES ASSUME HistoryInv, PlaceInv PROVE Accounted
    OBVIOUS
  <2>1. PersistenceType /\ QueuedOnce /\ HeldOnce /\ OnePlace /\ NoGaps
    BY DEF HistoryInv, PlaceInv
  <2>2. Places = <<QueuedIds, HeldIds, WrittenIds, MissedIds>>
    BY <2>1, PlacesAreIds DEF Places
  <2>3. \A i, j \in 1..4 : i # j => Places[i] \cap Places[j] = {}
    <3>1. \A i \in 1..4 : i = 1 \/ i = 2 \/ i = 3 \/ i = 4
      OBVIOUS
    <3>2. Places[1] = QueuedIds /\ Places[2] = HeldIds /\ Places[3] = WrittenIds /\ Places[4] = MissedIds
      BY <2>2
    <3>3. QED
      BY <2>1, <3>1, <3>2 DEF OnePlace
  <2>4. UNION {Places[i] : i \in 1..4} = Tracked
    <3>1. {Places[i] : i \in 1..4} = {QueuedIds, HeldIds, WrittenIds, MissedIds}
      BY <2>2
    <3>2. QED
      BY <3>1 DEF Tracked
  <2>5. \A i, j \in 1..Len(queue) : queue[i] = queue[j] => i = j
    BY <2>1 DEF QueuedOnce
  <2>6. \A v, w \in Workers : worker[v] = worker[w] /\ worker[v] \in CallRecord => v = w
    BY <2>1 DEF HeldOnce, Holding
  <2>7. QED
    BY <2>1, <2>3, <2>4, <2>5, <2>6 DEF Accounted, NoGaps
<1>2. HistoryInv /\ PlaceInv /\ [Next]_vars => (HistoryInv /\ PlaceInv)'
  BY HistoryInvNext, PlaceNext
<1>3. QED
  BY <1>1, <1>2, HistoryInvInit, PlaceInit, PTL DEF Spec

(* The ring's indices, the queue and the workers keep their types, and no  *)
(* element of the ring that counts as valid is empty.                      *)
THEOREM RingIsFilled == Spec => [](RingType /\ Filled /\ PersistenceType /\ ReadingType)
BY HistoryInvariant, PTL DEF HistoryInv

=============================================================================
