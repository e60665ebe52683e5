----------------------------- MODULE StreamProofs -----------------------------
(***************************************************************************)
(* Theorems about streaming calls, for any number of streams, any capacity *)
(* and any sizes of the two buffers.                                       *)
(***************************************************************************)
EXTENDS StreamProperties, SequenceTheorems, FiniteSetTheorems, TLAPS

(***************************************************************************)
(* The inductive invariant.  A stream that is not open has nothing in its  *)
(* channels; the AfterStreamDone hooks have run once the wrapper is past   *)
(* them.                                                                   *)
(***************************************************************************)
Unopened(s) == pc[s] \in Opening \cup {"error", "panicked"}

UnopenedEmpty(s) ==
  Unopened(s) =>
    /\ received[s] = <<>> /\ wrapped[s] = <<>> /\ ch[s] = <<>>
    /\ sent[s] = 0 /\ finalErr[s] = "nil" /\ producer[s] = "none"

PastHooks == {"cancel", "release", "close", "ended"}
HooksOnce ==
  \A s \in Streams : doneHooks[s] = IF pc[s] \in PastHooks THEN 1 ELSE 0

(* The chunks the wrapper has taken from ch and not dropped.               *)
InHand(s) == IF pc[s] = "send" THEN 1 ELSE 0
Given(s) == Len(received[s]) + Len(wrapped[s])
Taken(s) == Given(s) + InHand(s)

(* Where an error can be that the wrapper has forwarded: it is the last    *)
(* message and the wrapper is unwinding.                                   *)
AfterError(s) == finalErr[s] = "error" /\ pc[s] \in Unwinding \cup {"ended"}

ReadInOrder(s) ==
  \A i \in 1..Len(received[s]) :
    \/ received[s][i] = i
    \/ /\ received[s][i] = Err /\ i = Len(received[s])
       /\ wrapped[s] = <<>> /\ AfterError(s)

WrappedInOrder(s) ==
  \A i \in 1..Len(wrapped[s]) :
    \/ wrapped[s][i] = Len(received[s]) + i
    \/ wrapped[s][i] = Err /\ i = Len(wrapped[s]) /\ AfterError(s)

(* As long as the wrapper takes from ch, ch goes on where the wrapper is,  *)
(* and up to where the producer is unless the producer has given up.       *)
Forwarding(s) == pc[s] \in {"take", "send"}
ChInOrder(s) ==
  \A i \in 1..Len(ch[s]) :
    \/ ch[s][i] = Taken(s) + i
    \/ ch[s][i] = Err /\ i = Len(ch[s]) /\ producer[s] = "done"
Failed(s) == ch[s] # <<>> /\ ch[s][Len(ch[s])] = Err

SourceInOrder(s) ==
  /\ producer[s] # "none"
  /\ producer[s] = "data" => sent[s] = Taken(s) + Len(ch[s]) + 1
  /\ producer[s] \in {"check", "recv", "error"} => sent[s] = Taken(s) + Len(ch[s])
  /\ producer[s] = "done" /\ s \notin ended =>
       sent[s] = (Taken(s) + Len(ch[s])) - (IF Failed(s) THEN 1 ELSE 0)

ForwardingInOrder(s) ==
  Forwarding(s) =>
    /\ finalErr[s] = "nil"
    /\ pc[s] = "send" => hand[s] = Given(s) + 1
    /\ ChInOrder(s)
    /\ SourceInOrder(s)

LastIsError(s) == pc[s] = "sendLast" => hand[s] = Err /\ finalErr[s] = "error"

(* A stream that came to its end of itself has delivered everything.       *)
Completed(s) ==
  pc[s] \in Unwinding \cup {"ended"} /\ s \notin ended /\ finalErr[s] = "nil" =>
    ch[s] = <<>> /\ producer[s] = "done" /\ sent[s] = Given(s)

InOrder(s) ==
  /\ UnopenedEmpty(s)
  /\ ReadInOrder(s) /\ WrappedInOrder(s)
  /\ ForwardingInOrder(s) /\ LastIsError(s)
  /\ Completed(s)

PipeInv == \A s \in Streams : InOrder(s)
-----------------------------------------------------------------------------
(* Slots and hooks.                                                        *)

Holders == {s \in Streams : HoldsSlot(s)}

(* A step of one stream changes the number of slots held by that stream's  *)
(* own share.                                                              *)
LEMMA HoldersStep ==
  ASSUME NEW s \in Streams, \A t \in Streams \ {s} : pc'[t] = pc[t]
  PROVE  /\ Cardinality(Holders) \in Nat
         /\ HoldsSlot(s) <=> HoldsSlot(s)' => Cardinality(Holders)' = Cardinality(Holders)
         /\ ~HoldsSlot(s) /\ HoldsSlot(s)' => Cardinality(Holders)' = Cardinality(Holders) + 1
         /\ HoldsSlot(s) /\ ~HoldsSlot(s)' =>
              /\ Cardinality(Holders)' = Cardinality(Holders) - 1
              /\ Cardinality(Holders) > 0
<1>1. IsFiniteSet(Holders) /\ Cardinality(Holders) \in Nat
  BY StreamAssumption, FS_Subset, FS_CardinalityType DEF Holders
<1>2. \A t \in Streams \ {s} : HoldsSlot(t) <=> HoldsSlot(t)'
  BY DEF HoldsSlot
<1>3. ASSUME HoldsSlot(s) <=> HoldsSlot(s)' PROVE Holders' = Holders
  BY <1>2, <1>3 DEF Holders
<1>4. ASSUME ~HoldsSlot(s), HoldsSlot(s)' PROVE Holders' = Holders \cup {s} /\ s \notin Holders
  BY <1>2, <1>4 DEF Holders
<1>5. ASSUME HoldsSlot(s), ~HoldsSlot(s)' PROVE Holders' = Holders \ {s} /\ s \in Holders
  BY <1>2, <1>5 DEF Holders
<1>6. ASSUME ~HoldsSlot(s), HoldsSlot(s)'
      PROVE  Cardinality(Holders)' = Cardinality(Holders) + 1
  BY <1>1, <1>4, <1>6, FS_AddElement
<1>7. ASSUME HoldsSlot(s), ~HoldsSlot(s)'
      PROVE  Cardinality(Holders)' = Cardinality(Holders) - 1 /\ Cardinality(Holders) > 0
  <2>1. Cardinality(Holders \ {s}) = Cardinality(Holders) - 1
    BY <1>1, <1>5, <1>7, FS_RemoveElement
  <2>2. Cardinality(Holders) # 0
    BY <1>1, <1>5, <1>7, FS_EmptySet
  <2>3. Cardinality(Holders)' = Cardinality(Holders \ {s})
    BY <1>5, <1>7, Zenon
  <2>4. QED
    BY <1>1, <2>1, <2>2, <2>3
<1>8. QED
  BY <1>1, <1>3, <1>6, <1>7

(* The types but for those of the two counters.                            *)
DataType ==
  /\ closing \in {"open", "waiting", "closed"}
  /\ pc \in [Streams -> Labels]
  /\ cancelled \subseteq Streams /\ ended \subseteq Streams
  /\ producer \in [Streams -> ProducerLabels]
  /\ sent \in [Streams -> 0..Chunks]
  /\ ch \in [Streams -> Seq(Messages)] /\ \A s \in Streams : Len(ch[s]) <= ChSize
  /\ hand \in [Streams -> Messages]
  /\ finalErr \in [Streams -> {"nil", "error", "ctx"}]
  /\ wrapped \in [Streams -> Seq(Messages)] /\ \A s \in Streams : Len(wrapped[s]) <= WrapSize
  /\ consumer \in [Streams -> {"reading", "closed"}]
  /\ received \in [Streams -> Seq(Messages)]

(* What the operations on a buffer return.                                 *)
LEMMA BufferOps ==
  ASSUME NEW S, NEW q \in Seq(S)
  PROVE  /\ Len(q) \in Nat
         /\ \A i \in 1..Len(q) : q[i] \in S
         /\ \A m \in S :
              /\ Append(q, m) \in Seq(S) /\ Len(Append(q, m)) = Len(q) + 1
              /\ Append(q, m)[Len(q) + 1] = m
              /\ \A i \in 1..Len(q) : Append(q, m)[i] = q[i]
         /\ q # <<>> =>
              /\ Len(q) > 0 /\ Head(q) = q[1] /\ Head(q) \in S
              /\ Tail(q) \in Seq(S) /\ Len(Tail(q)) = Len(q) - 1
              /\ \A i \in 1..(Len(q) - 1) : Tail(q)[i] = q[i + 1]
         /\ q = <<>> <=> Len(q) = 0
BY SMT

(* What adding a message to a stream's buffer, and taking one, return.     *)
LEMMA Pushed ==
  ASSUME NEW f \in [Streams -> Seq(Messages)], NEW s \in Streams, NEW m \in Messages
  PROVE  /\ [f EXCEPT ![s] = Append(@, m)] \in [Streams -> Seq(Messages)]
         /\ \A n \in Nat : (\A t \in Streams : Len(f[t]) <= n) /\ Len(f[s]) # n =>
              \A t \in Streams : Len([f EXCEPT ![s] = Append(@, m)][t]) <= n
<1> DEFINE g == [f EXCEPT ![s] = Append(@, m)]
<1>0. f[s] \in Seq(Messages)
  OBVIOUS
<1>1. /\ Append(f[s], m) \in Seq(Messages) /\ Len(Append(f[s], m)) = Len(f[s]) + 1
      /\ Len(f[s]) \in Nat
  BY <1>0, BufferOps
<1>2. g[s] = Append(f[s], m) /\ \A t \in Streams \ {s} : g[t] = f[t]
  OBVIOUS
<1>3. g \in [Streams -> Seq(Messages)]
  BY <1>1
<1> HIDE DEF g
<1>4. QED
  BY <1>1, <1>2, <1>3 DEF g

LEMMA Popped ==
  ASSUME NEW f \in [Streams -> Seq(Messages)], NEW s \in Streams, f[s] # <<>>
  PROVE  /\ Head(f[s]) \in Messages
         /\ [f EXCEPT ![s] = Tail(@)] \in [Streams -> Seq(Messages)]
         /\ \A n \in Nat : (\A t \in Streams : Len(f[t]) <= n) =>
              \A t \in Streams : Len([f EXCEPT ![s] = Tail(@)][t]) <= n
<1> DEFINE g == [f EXCEPT ![s] = Tail(@)]
<1>0. f[s] \in Seq(Messages)
  OBVIOUS
<1>1. /\ Head(f[s]) \in Messages
      /\ Tail(f[s]) \in Seq(Messages) /\ Len(Tail(f[s])) = Len(f[s]) - 1
      /\ Len(f[s]) \in Nat
  BY <1>0, BufferOps
<1>2. g[s] = Tail(f[s]) /\ \A t \in Streams \ {s} : g[t] = f[t]
  OBVIOUS
<1>3. g \in [Streams -> Seq(Messages)]
  BY <1>1
<1> HIDE DEF g
<1>4. QED
  BY <1>1, <1>2, <1>3 DEF g

LEMMA DataInit == Init => DataType
BY StreamAssumption DEF Init, DataType, Labels, Opening, ProducerLabels, Messages, Err

LEMMA DataNext == DataType /\ [Next]_vars => DataType'
<1> SUFFICES ASSUME DataType, [Next]_vars PROVE DataType'
  OBVIOUS
<1>0. /\ {"new", "acquire", "available", "before", "connect", "refuse"} \subseteq Labels
      /\ {"take", "send", "sendLast", "hook", "cancel", "release", "close"} \subseteq Labels
      /\ {"ended", "error", "panicked"} \subseteq Labels
      /\ {"none", "check", "recv", "data", "error", "done"} \subseteq ProducerLabels
  BY DEF Labels, Opening, Running, Unwinding, ProducerLabels
<1> USE <1>0 DEF DataType, Goto, ProducerGoto, shared, contexts, source, wrapper, sink
<1>1. ASSUME NEW s \in Streams, Start(s) PROVE DataType'
  BY <1>1 DEF Start
<1>2. ASSUME NEW s \in Streams, Acquire(s) PROVE DataType'
  BY <1>2 DEF Acquire
<1>3. ASSUME NEW s \in Streams, AcquireFails(s) PROVE DataType'
  BY <1>3 DEF AcquireFails
<1>4. ASSUME NEW s \in Streams, Available(s) PROVE DataType'
  <2>1. pc' \in [Streams -> Labels] /\ UNCHANGED <<shared, contexts, source, wrapper, wrapped, sink>>
    <3>1. \E label \in Labels : pc' = [pc EXCEPT ![s] = label]
      BY <1>4 DEF Available, Proceed
    <3>2. QED
      BY <1>4, <3>1 DEF Available, Proceed
  <2>2. QED
    BY <2>1
<1>5. ASSUME NEW s \in Streams, Before(s) PROVE DataType'
  <2>1. pc' \in [Streams -> Labels] /\ UNCHANGED <<shared, contexts, source, wrapper, wrapped, sink>>
    <3>1. \E label \in Labels : pc' = [pc EXCEPT ![s] = label]
      BY <1>5 DEF Before, Proceed
    <3>2. QED
      BY <1>5, <3>1 DEF Before, Proceed
  <2>2. QED
    BY <2>1
<1>6. ASSUME NEW s \in Streams, Connect(s) PROVE DataType'
  <2>1. pc' \in [Streams -> Labels]
    <3>1. \E label \in Labels : pc' = [pc EXCEPT ![s] = label]
      BY <1>6 DEF Connect
    <3>2. QED
      BY <3>1
  <2>2. producer' \in [Streams -> ProducerLabels]
    <3>1. producer' = producer \/ producer' = [producer EXCEPT ![s] = "check"]
      BY <1>6 DEF Connect
    <3>2. QED
      BY <3>1
  <2>3. ended' \subseteq Streams
    BY <1>6 DEF Connect
  <2>4. UNCHANGED <<closing, cancelled, sent, ch, hand, finalErr, wrapped, consumer, received>>
    BY <1>6 DEF Connect
  <2>5. QED
    BY <2>1, <2>2, <2>3, <2>4
<1>7. ASSUME NEW s \in Streams, Refuse(s) \/ Panics(s) PROVE DataType'
  BY <1>7 DEF Refuse, Panics
<1>8. ASSUME NEW s \in Streams, Check(s) PROVE DataType'
  BY <1>8 DEF Check
<1>9. ASSUME NEW s \in Streams, RecvChunk(s) PROVE DataType'
  <2>1. sent[s] + 1 \in 0..Chunks
    BY <1>9, StreamAssumption DEF RecvChunk
  <2>2. QED
    BY <1>9, <2>1 DEF RecvChunk
<1>10. ASSUME NEW s \in Streams, RecvEOF(s) PROVE DataType'
  BY <1>10 DEF RecvEOF
<1>11. ASSUME NEW s \in Streams, RecvFails(s) PROVE DataType'
  BY <1>11 DEF RecvFails
<1>12. ASSUME NEW s \in Streams, SendChunk(s) PROVE DataType'
  <2>1. sent[s] \in Messages /\ ChSize \in Nat
    BY StreamAssumption DEF Messages
  <2>2. /\ ch' = [ch EXCEPT ![s] = Append(@, sent[s])] /\ Len(ch[s]) # ChSize
        /\ producer' = [producer EXCEPT ![s] = "check"]
        /\ UNCHANGED <<closing, pc, cancelled, ended, sent, hand, finalErr, wrapped, consumer, received>>
    BY <1>12 DEF SendChunk, Full
  <2>3. ch' \in [Streams -> Seq(Messages)] /\ \A t \in Streams : Len(ch'[t]) <= ChSize
    BY <2>1, <2>2, Pushed
  <2>4. QED
    BY <2>2, <2>3
<1>13. ASSUME NEW s \in Streams, SendChunkGivesUp(s) PROVE DataType'
  BY <1>13 DEF SendChunkGivesUp
<1>14. ASSUME NEW s \in Streams, SendError(s) PROVE DataType'
  <2>1. Err \in Messages /\ ChSize \in Nat
    BY StreamAssumption DEF Messages, Err
  <2>2. /\ ch' = [ch EXCEPT ![s] = Append(@, Err)] /\ Len(ch[s]) # ChSize
        /\ producer' = [producer EXCEPT ![s] = "done"]
        /\ UNCHANGED <<closing, pc, cancelled, ended, sent, hand, finalErr, wrapped, consumer, received>>
    BY <1>14 DEF SendError, Full
  <2>3. ch' \in [Streams -> Seq(Messages)] /\ \A t \in Streams : Len(ch'[t]) <= ChSize
    BY <2>1, <2>2, Pushed
  <2>4. QED
    BY <2>2, <2>3
<1>15. ASSUME NEW s \in Streams, TakeDone(s) PROVE DataType'
  BY <1>15 DEF TakeDone
<1>16. ASSUME NEW s \in Streams, Take(s) PROVE DataType'
  <2>1. Err \in Messages /\ ChSize \in Nat
    BY StreamAssumption DEF Messages, Err
  <2>2. /\ ch[s] # <<>> /\ ch' = [ch EXCEPT ![s] = Tail(@)]
        /\ hand' = [hand EXCEPT ![s] = Head(ch[s])] \/ hand' = [hand EXCEPT ![s] = Err]
        /\ pc' = [pc EXCEPT ![s] = "send"] \/ pc' = [pc EXCEPT ![s] = "sendLast"]
        /\ finalErr' = finalErr \/ finalErr' = [finalErr EXCEPT ![s] = "error"]
        /\ UNCHANGED <<closing, cancelled, ended, producer, sent, wrapped, consumer, received>>
    BY <1>16 DEF Take
  <2>3. /\ ch' \in [Streams -> Seq(Messages)] /\ \A t \in Streams : Len(ch'[t]) <= ChSize
        /\ Head(ch[s]) \in Messages
    BY <2>1, <2>2, Popped
  <2>4. \E m \in Messages : hand' = [hand EXCEPT ![s] = m]
    <3>1. CASE hand' = [hand EXCEPT ![s] = Head(ch[s])]
      BY <2>3, <3>1, Zenon
    <3>2. CASE hand' = [hand EXCEPT ![s] = Err]
      BY <2>1, <3>2, Zenon
    <3>3. QED
      BY <2>2, <3>1, <3>2
  <2>5. hand' \in [Streams -> Messages]
    BY <2>4
  <2>6. pc' \in [Streams -> Labels]
    <3>1. pc' = [pc EXCEPT ![s] = "send"] \/ pc' = [pc EXCEPT ![s] = "sendLast"]
      BY <2>2
    <3>2. QED
      BY <3>1
  <2>7. finalErr' \in [Streams -> {"nil", "error", "ctx"}]
    BY <2>2
  <2>8. QED
    BY <2>2, <2>3, <2>5, <2>6, <2>7
<1>17. ASSUME NEW s \in Streams, TakeEnd(s) PROVE DataType'
  BY <1>17 DEF TakeEnd
<1>18. ASSUME NEW s \in Streams, Forward(s) PROVE DataType'
  <2>1. hand[s] \in Messages /\ WrapSize \in Nat
    BY StreamAssumption
  <2>2. /\ wrapped' = [wrapped EXCEPT ![s] = Append(@, hand[s])] /\ Len(wrapped[s]) # WrapSize
        /\ pc' = [pc EXCEPT ![s] = "take"] \/ pc' = [pc EXCEPT ![s] = "hook"]
        /\ UNCHANGED <<closing, cancelled, ended, producer, sent, ch, hand, finalErr, consumer, received>>
    BY <1>18 DEF Forward, WrappedFull
  <2>3. wrapped' \in [Streams -> Seq(Messages)] /\ \A t \in Streams : Len(wrapped'[t]) <= WrapSize
    BY <2>1, <2>2, Pushed
  <2>4. pc' \in [Streams -> Labels]
    BY <2>2
  <2>5. QED
    BY <2>2, <2>3, <2>4
<1>19. ASSUME NEW s \in Streams, ForwardGivesUp(s) PROVE DataType'
  BY <1>19 DEF ForwardGivesUp
<1>20. ASSUME NEW s \in Streams, DoneHook(s) PROVE DataType'
  BY <1>20 DEF DoneHook
<1>21. ASSUME NEW s \in Streams, CancelStream(s) PROVE DataType'
  BY <1>21 DEF CancelStream
<1>22. ASSUME NEW s \in Streams, Release(s) PROVE DataType'
  BY <1>22 DEF Release
<1>23. ASSUME NEW s \in Streams, CloseWrapped(s) PROVE DataType'
  BY <1>23 DEF CloseWrapped
<1>24. ASSUME NEW s \in Streams, Read(s) PROVE DataType'
  <2>1. /\ wrapped[s] # <<>> /\ wrapped' = [wrapped EXCEPT ![s] = Tail(@)]
        /\ received' = [received EXCEPT ![s] = Append(@, Head(wrapped[s]))]
        /\ UNCHANGED <<closing, pc, cancelled, ended, producer, sent, ch, hand, finalErr, consumer>>
    BY <1>24 DEF Read
  <2>2. /\ wrapped' \in [Streams -> Seq(Messages)] /\ \A t \in Streams : Len(wrapped'[t]) <= WrapSize
        /\ Head(wrapped[s]) \in Messages
    BY <2>1, Popped, StreamAssumption
  <2>3. received' \in [Streams -> Seq(Messages)]
    BY <2>1, <2>2, Pushed
  <2>4. QED
    BY <2>1, <2>2, <2>3
<1>25. ASSUME NEW s \in Streams, SeeClosed(s) PROVE DataType'
  BY <1>25 DEF SeeClosed
<1>26. ASSUME NEW s \in Streams, Cancel(s) PROVE DataType'
  BY <1>26 DEF Cancel
<1>27. ASSUME NEW s \in Streams, Timeout(s) PROVE DataType'
  BY <1>27 DEF Timeout
<1>28. CASE CloseBegins
  BY <1>28 DEF CloseBegins
<1>29. CASE CloseEnds
  BY <1>29 DEF CloseEnds
<1>30. CASE UNCHANGED vars
  BY <1>30 DEF vars
<1>31. QED
  BY <1>1, <1>2, <1>3, <1>4, <1>5, <1>6, <1>7, <1>8, <1>9, <1>10, <1>11, <1>12, <1>13, <1>14, <1>15, <1>16, <1>17, <1>18, <1>19, <1>20, <1>21, <1>22, <1>23, <1>24, <1>25, <1>26, <1>27,
     <1>28, <1>29, <1>30
     DEF Next, OpenStep, ProducerStep, WrapperStep, ConsumerStep

(* The semaphore's counter is the number of streams that hold a slot, and  *)
(* so never below zero.                                                    *)
Counted == SlotsMatchStreams /\ inUse \in Nat

LEMMA CountedInit == Init => Counted /\ HooksOnce
<1> SUFFICES ASSUME Init PROVE Counted /\ HooksOnce
  OBVIOUS
<1>1. Holders = {}
  BY DEF Init, Holders, HoldsSlot, Running
<1>2. Cardinality(Holders) = 0
  BY <1>1, FS_EmptySet
<1>3. inUse = 0
  BY DEF Init
<1>4. HooksOnce
  BY DEF Init, HooksOnce, PastHooks
<1>5. QED
  BY <1>2, <1>3, <1>4 DEF Counted, SlotsMatchStreams, Holders

LEMMA CountedNext == DataType /\ Counted /\ [Next]_vars => Counted'
<1> SUFFICES ASSUME DataType, Counted, [Next]_vars PROVE Counted'
  OBVIOUS
<1>0. /\ pc \in [Streams -> Labels]
      /\ inUse = Cardinality(Holders) /\ inUse \in Nat
      /\ Counted' <=> inUse' = Cardinality(Holders)' /\ inUse' \in Nat
  BY DEF DataType, Counted, SlotsMatchStreams, Holders
<1>1. ASSUME pc' = pc, inUse' = inUse PROVE Counted'
  <2>1. Holders' = Holders
    BY <1>1 DEF Holders, HoldsSlot
  <2>2. QED
    BY <1>0, <1>1, <2>1
<1>2. ASSUME NEW s \in Streams, NEW l, pc' = [pc EXCEPT ![s] = l], inUse' = inUse,
             HoldsSlot(s) <=> l \in {"available", "before", "connect", "refuse", "panicked",
                                    "take", "send", "sendLast", "hook", "cancel", "release"}
      PROVE  Counted'
  <2>1. /\ \A t \in Streams \ {s} : pc'[t] = pc[t]
        /\ pc'[s] = l
    BY <1>0, <1>2
  <2>2. HoldsSlot(s) <=> HoldsSlot(s)'
    BY <1>2, <2>1 DEF HoldsSlot, Running
  <2>3. Cardinality(Holders)' = Cardinality(Holders)
    BY <2>1, <2>2, HoldersStep
  <2>4. QED
    BY <1>0, <1>2, <2>3
<1>3. ASSUME NEW s \in Streams, Acquire(s) PROVE Counted'
  <2>1. /\ \A t \in Streams \ {s} : pc'[t] = pc[t]
        /\ ~HoldsSlot(s) /\ HoldsSlot(s)'
    BY <1>0, <1>3 DEF Acquire, Goto, HoldsSlot, Running
  <2>2. Cardinality(Holders)' = Cardinality(Holders) + 1
    BY <2>1, HoldersStep
  <2>3. inUse' = inUse + 1
    BY <1>3 DEF Acquire
  <2>4. QED
    BY <1>0, <2>2, <2>3
<1>4. ASSUME NEW s \in Streams, Refuse(s) \/ Release(s) PROVE Counted'
  <2>1. /\ \A t \in Streams \ {s} : pc'[t] = pc[t]
        /\ HoldsSlot(s) /\ ~HoldsSlot(s)'
    BY <1>0, <1>4 DEF Refuse, Release, Goto, HoldsSlot, Running
  <2>2. /\ Cardinality(Holders)' = Cardinality(Holders) - 1
        /\ Cardinality(Holders) > 0
    BY <2>1, HoldersStep
  <2>3. inUse' = inUse - 1
    BY <1>4 DEF Refuse, Release
  <2>4. QED
    BY <1>0, <2>2, <2>3
<1>5. ASSUME NEW s \in Streams,
             Check(s) \/ RecvChunk(s) \/ RecvEOF(s) \/ RecvFails(s) \/ SendChunk(s)
               \/ SendChunkGivesUp(s) \/ SendError(s) \/ Read(s) \/ SeeClosed(s)
               \/ Cancel(s) \/ Timeout(s)
      PROVE  Counted'
  BY <1>1, <1>5 DEF Check, RecvChunk, RecvEOF, RecvFails, SendChunk, SendChunkGivesUp, SendError,
                    Read, SeeClosed, Cancel, Timeout, shared
<1> USE DEF Goto, HoldsSlot, Running, shared
<1>6. ASSUME NEW s \in Streams, Start(s) PROVE Counted'
  <2>1. (pc' = [pc EXCEPT ![s] = "acquire"] \/ pc' = [pc EXCEPT ![s] = "error"]) /\ inUse' = inUse /\ ~HoldsSlot(s)
    BY <1>6 DEF Start
  <2>2. QED
    BY <1>2, <2>1
<1>7. ASSUME NEW s \in Streams, AcquireFails(s) PROVE Counted'
  <2>1. pc' = [pc EXCEPT ![s] = "error"] /\ inUse' = inUse /\ ~HoldsSlot(s)
    BY <1>7 DEF AcquireFails
  <2>2. QED
    BY <1>2, <2>1
<1>8. ASSUME NEW s \in Streams, Available(s) PROVE Counted'
  <2>1. (pc' = [pc EXCEPT ![s] = "before"] \/ pc' = [pc EXCEPT ![s] = "refuse"]) /\ inUse' = inUse /\ HoldsSlot(s)
    BY <1>8 DEF Available, Proceed
  <2>2. QED
    BY <1>2, <2>1
<1>9. ASSUME NEW s \in Streams, Before(s) PROVE Counted'
  <2>1. (pc' = [pc EXCEPT ![s] = "connect"] \/ pc' = [pc EXCEPT ![s] = "refuse"]) /\ inUse' = inUse /\ HoldsSlot(s)
    BY <1>9 DEF Before, Proceed
  <2>2. QED
    BY <1>2, <2>1
<1>10. ASSUME NEW s \in Streams, Connect(s) PROVE Counted'
  <2>1. (pc' = [pc EXCEPT ![s] = "take"] \/ pc' = [pc EXCEPT ![s] = "refuse"]) /\ inUse' = inUse /\ HoldsSlot(s)
    BY <1>10 DEF Connect
  <2>2. QED
    BY <1>2, <2>1
<1>11. ASSUME NEW s \in Streams, TakeDone(s) PROVE Counted'
  <2>1. pc' = [pc EXCEPT ![s] = "hook"] /\ inUse' = inUse /\ HoldsSlot(s)
    BY <1>11 DEF TakeDone
  <2>2. QED
    BY <1>2, <2>1
<1>12. ASSUME NEW s \in Streams, Take(s) PROVE Counted'
  <2>1. (pc' = [pc EXCEPT ![s] = "send"] \/ pc' = [pc EXCEPT ![s] = "sendLast"]) /\ inUse' = inUse /\ HoldsSlot(s)
    BY <1>12 DEF Take
  <2>2. QED
    BY <1>2, <2>1
<1>13. ASSUME NEW s \in Streams, TakeEnd(s) PROVE Counted'
  <2>1. pc' = [pc EXCEPT ![s] = "hook"] /\ inUse' = inUse /\ HoldsSlot(s)
    BY <1>13 DEF TakeEnd
  <2>2. QED
    BY <1>2, <2>1
<1>14. ASSUME NEW s \in Streams, Forward(s) PROVE Counted'
  <2>1. (pc' = [pc EXCEPT ![s] = "take"] \/ pc' = [pc EXCEPT ![s] = "hook"]) /\ inUse' = inUse /\ HoldsSlot(s)
    BY <1>14 DEF Forward
  <2>2. QED
    BY <1>2, <2>1
<1>15. ASSUME NEW s \in Streams, ForwardGivesUp(s) PROVE Counted'
  <2>1. pc' = [pc EXCEPT ![s] = "hook"] /\ inUse' = inUse /\ HoldsSlot(s)
    BY <1>15 DEF ForwardGivesUp
  <2>2. QED
    BY <1>2, <2>1
<1>16. ASSUME NEW s \in Streams, DoneHook(s) PROVE Counted'
  <2>1. pc' = [pc EXCEPT ![s] = "cancel"] /\ inUse' = inUse /\ HoldsSlot(s)
    BY <1>16 DEF DoneHook
  <2>2. QED
    BY <1>2, <2>1
<1>17. ASSUME NEW s \in Streams, CancelStream(s) PROVE Counted'
  <2>1. pc' = [pc EXCEPT ![s] = "release"] /\ inUse' = inUse /\ HoldsSlot(s)
    BY <1>17 DEF CancelStream
  <2>2. QED
    BY <1>2, <2>1
<1>18. ASSUME NEW s \in Streams, CloseWrapped(s) PROVE Counted'
  <2>1. pc' = [pc EXCEPT ![s] = "ended"] /\ inUse' = inUse /\ ~HoldsSlot(s)
    BY <1>18 DEF CloseWrapped
  <2>2. QED
    BY <1>2, <2>1
<1>19. ASSUME NEW s \in Streams, Panics(s) PROVE Counted'
  <2>1. pc' = [pc EXCEPT ![s] = "panicked"] /\ inUse' = inUse /\ HoldsSlot(s)
    BY <1>19 DEF Panics
  <2>2. QED
    BY <1>2, <2>1
<1>20. CASE CloseBegins \/ CloseEnds \/ UNCHANGED vars
  BY <1>1, <1>20 DEF CloseBegins, CloseEnds, vars
<1>21. QED
  BY <1>3, <1>4, <1>5, <1>6, <1>7, <1>8, <1>9, <1>10, <1>11, <1>12, <1>13, <1>14, <1>15, <1>16, <1>17, <1>18, <1>19, <1>20
     DEF Next, OpenStep, ProducerStep, WrapperStep, ConsumerStep

LEMMA HooksNext ==
  DataType /\ doneHooks \in [Streams -> 0..1] /\ HooksOnce /\ [Next]_vars =>
    doneHooks' \in [Streams -> 0..1] /\ HooksOnce'
<1> SUFFICES ASSUME DataType, doneHooks \in [Streams -> 0..1], HooksOnce, [Next]_vars
             PROVE  doneHooks' \in [Streams -> 0..1] /\ HooksOnce'
  OBVIOUS
<1>0. pc \in [Streams -> Labels]
  BY DEF DataType
<1> DEFINE Goal == doneHooks' \in [Streams -> 0..1] /\ HooksOnce'
<1> USE DEF Goto, HooksOnce, PastHooks, wrapper
<1>1. ASSUME NEW s \in Streams, DoneHook(s) PROVE Goal
  BY <1>0, <1>1 DEF DoneHook
<1>2. ASSUME NEW s \in Streams,
             CancelStream(s) \/ Release(s) \/ CloseWrapped(s)
      PROVE  Goal
  BY <1>0, <1>2 DEF CancelStream, Release, CloseWrapped
<1>3. ASSUME NEW s \in Streams, TakeDone(s) \/ Take(s) \/ TakeEnd(s) PROVE Goal
  BY <1>0, <1>3 DEF TakeDone, Take, TakeEnd
<1>4. ASSUME NEW s \in Streams, Forward(s) \/ ForwardGivesUp(s) PROVE Goal
  BY <1>0, <1>4 DEF Forward, ForwardGivesUp
<1>5. ASSUME NEW s \in Streams, Start(s) \/ Acquire(s) \/ AcquireFails(s) PROVE Goal
  BY <1>0, <1>5 DEF Start, Acquire, AcquireFails
<1>6. ASSUME NEW s \in Streams, Available(s) \/ Before(s) \/ Connect(s) \/ Panics(s) \/ Refuse(s)
      PROVE  Goal
  BY <1>0, <1>6 DEF Available, Before, Proceed, Connect, Panics, Refuse
<1>7. ASSUME NEW s \in Streams,
             Check(s) \/ RecvChunk(s) \/ RecvEOF(s) \/ RecvFails(s) \/ SendChunk(s)
               \/ SendChunkGivesUp(s) \/ SendError(s) \/ Read(s) \/ SeeClosed(s)
               \/ Cancel(s) \/ Timeout(s)
      PROVE  Goal
  BY <1>7 DEF Check, RecvChunk, RecvEOF, RecvFails, SendChunk, SendChunkGivesUp, SendError,
              Read, SeeClosed, Cancel, Timeout
<1>8. CASE CloseBegins \/ CloseEnds \/ UNCHANGED vars
  BY <1>8 DEF CloseBegins, CloseEnds, vars
<1>9. QED
  BY <1>1, <1>2, <1>3, <1>4, <1>5, <1>6, <1>7, <1>8
     DEF Next, OpenStep, ProducerStep, WrapperStep, ConsumerStep

-----------------------------------------------------------------------------
(* The order of the chunks.                                                *)

(* What the messages of a stream's buffers are, without the functions.     *)
LEMMA AtStream ==
  ASSUME DataType, NEW s \in Streams
  PROVE  /\ pc[s] \in Labels /\ producer[s] \in ProducerLabels
         /\ sent[s] \in Nat /\ hand[s] \in Nat
         /\ finalErr[s] \in {"nil", "error", "ctx"}
         /\ received[s] \in Seq(Nat) /\ wrapped[s] \in Seq(Nat) /\ ch[s] \in Seq(Nat)
<1>1. Messages \subseteq Nat /\ 0..Chunks \subseteq Nat
  BY StreamAssumption DEF Messages
<1>2. \A q \in Seq(Messages) : q \in Seq(Nat)
  BY <1>1, SeqMonotonic
<1>3. QED
  BY <1>1, <1>2 DEF DataType

(* A step changes nothing of a stream.                                     *)
SameStream(s) ==
  /\ pc'[s] = pc[s] /\ producer'[s] = producer[s] /\ sent'[s] = sent[s]
  /\ ch'[s] = ch[s] /\ hand'[s] = hand[s] /\ finalErr'[s] = finalErr[s]
  /\ wrapped'[s] = wrapped[s] /\ received'[s] = received[s]
  /\ s \in ended' <=> s \in ended

LEMMA SameStreamKeeps == ASSUME NEW s, InOrder(s), SameStream(s) PROVE InOrder(s)'
<1>1. Given(s)' = Given(s) /\ Taken(s)' = Taken(s)
  BY DEF SameStream, Given, Taken, InHand
<1>2. AfterError(s)' <=> AfterError(s)
  BY DEF SameStream, AfterError
<1>3. UnopenedEmpty(s)' /\ LastIsError(s)'
  BY DEF SameStream, InOrder, UnopenedEmpty, Unopened, LastIsError
<1>4. ReadInOrder(s)' /\ WrappedInOrder(s)'
  BY <1>2, Zenon DEF SameStream, InOrder, ReadInOrder, WrappedInOrder
<1>5. ChInOrder(s)' <=> ChInOrder(s)
  BY <1>1, Zenon DEF SameStream, ChInOrder
<1>6. SourceInOrder(s)' <=> SourceInOrder(s)
  BY <1>1, Zenon DEF SameStream, SourceInOrder, Failed
<1>7. ForwardingInOrder(s)'
  BY <1>1, <1>5, <1>6, Zenon DEF SameStream, InOrder, ForwardingInOrder, Forwarding
<1>8. Completed(s)'
  BY <1>1, Zenon DEF SameStream, InOrder, Completed
<1>9. QED
  BY <1>3, <1>4, <1>7, <1>8 DEF InOrder

LEMMA PipeInit == Init => PipeInv
<1> SUFFICES ASSUME Init, NEW s \in Streams PROVE InOrder(s)
  BY DEF PipeInv
<1>1. /\ pc[s] = "new" /\ producer[s] = "none" /\ sent[s] = 0 /\ finalErr[s] = "nil"
      /\ received[s] = <<>> /\ wrapped[s] = <<>> /\ ch[s] = <<>>
  BY DEF Init
<1>2. QED
  BY <1>1 DEF InOrder, UnopenedEmpty, ReadInOrder, WrappedInOrder, ForwardingInOrder, Forwarding,
      LastIsError, Completed, Unwinding

(* What the consumer can read stays in order when it does not change.      *)
LEMMA SinkKept ==
  ASSUME NEW s, ReadInOrder(s), WrappedInOrder(s),
         received'[s] = received[s], wrapped'[s] = wrapped[s],
         AfterError(s) => AfterError(s)'
  PROVE  ReadInOrder(s)' /\ WrappedInOrder(s)'
BY DEF ReadInOrder, WrappedInOrder

(* Opening a stream: until it is connected its buffers are empty.          *)
LEMMA OpeningKeeps ==
  ASSUME DataType, NEW s \in Streams, InOrder(s),
         Start(s) \/ Acquire(s) \/ AcquireFails(s) \/ Available(s) \/ Before(s)
           \/ Connect(s) \/ Panics(s) \/ Refuse(s)
  PROVE  InOrder(s)'
<1> USE DEF DataType
<1>1. Unopened(s)
  BY DEF Start, Acquire, AcquireFails, Available, Before, Proceed, Connect, Panics, Refuse,
        Unopened, Opening
<1>2. /\ received'[s] = <<>> /\ wrapped'[s] = <<>> /\ ch'[s] = <<>>
      /\ sent'[s] = 0 /\ finalErr'[s] = "nil"
  BY <1>1 DEF Start, Acquire, AcquireFails, Available, Before, Proceed, Connect, Panics, Refuse,
              InOrder, UnopenedEmpty, source, sink, wrapper
<1>3. \/ pc'[s] \in Opening \cup {"error", "panicked"} /\ producer'[s] = "none"
      \/ pc'[s] = "take" /\ producer'[s] = "check"
  BY <1>1 DEF Start, Acquire, AcquireFails, Available, Before, Proceed, Connect, Panics, Refuse,
              InOrder, UnopenedEmpty, source, Goto, ProducerGoto, Opening
<1>4. UnopenedEmpty(s)'
  BY <1>2, <1>3 DEF UnopenedEmpty, Unopened, Opening
<1>5. ReadInOrder(s)' /\ WrappedInOrder(s)'
  BY <1>2 DEF ReadInOrder, WrappedInOrder
<1>6. LastIsError(s)' /\ Completed(s)'
  BY <1>3 DEF LastIsError, Completed, Opening, Unwinding
<1>7. ForwardingInOrder(s)'
  <2>1. CASE pc'[s] \in Opening \cup {"error", "panicked"}
    BY <2>1 DEF ForwardingInOrder, Forwarding, Opening
  <2>2. CASE pc'[s] = "take" /\ producer'[s] = "check"
    BY <1>2, <2>2 DEF ForwardingInOrder, Forwarding, ChInOrder, SourceInOrder, Taken, Given, InHand
  <2>3. QED
    BY <1>3, <2>1, <2>2
<1>8. QED
  BY <1>4, <1>5, <1>6, <1>7 DEF InOrder

(* The counts of messages are numbers.                                     *)
LEMMA CountsAreNat ==
  ASSUME NEW s, received[s] \in Seq(Nat), wrapped[s] \in Seq(Nat)
  PROVE  Given(s) \in Nat /\ InHand(s) \in Nat /\ Taken(s) \in Nat
<1>1. Len(received[s]) \in Nat /\ Len(wrapped[s]) \in Nat
  OBVIOUS
<1>2. Given(s) \in Nat
  <2>1. \A a, b \in Nat : a + b \in Nat
    OBVIOUS
  <2>2. QED
    BY <1>1, <2>1, Zenon DEF Given
<1>3. InHand(s) \in Nat
  BY DEF InHand
<1>4. QED
  BY <1>2, <1>3 DEF Taken

(* The producer: what it appends goes on where ch ends.                    *)
LEMMA ProducerKeeps ==
  ASSUME DataType, NEW s \in Streams, InOrder(s), ProducerStep(s)
  PROVE  InOrder(s)'
<1> DEFINE c == ch[s]
           k == Taken(s)
<1>1. /\ UNCHANGED <<received, wrapped, pc, hand, finalErr, ended>>
      /\ producer[s] \in {"check", "recv", "data", "error"}
  BY DEF ProducerStep, Check, RecvChunk, RecvEOF, RecvFails, SendChunk, SendChunkGivesUp,
         SendError, sink, wrapper, contexts
<1>2. /\ ~Unopened(s)
      /\ s \in ended \/ ~(pc[s] \in Unwinding \cup {"ended"} /\ finalErr[s] = "nil")
  BY <1>1 DEF InOrder, UnopenedEmpty, Completed
<1>3. UnopenedEmpty(s)' /\ LastIsError(s)' /\ Completed(s)'
  BY <1>1, <1>2 DEF InOrder, UnopenedEmpty, Unopened, LastIsError, Completed
<1>4. ReadInOrder(s)' /\ WrappedInOrder(s)'
  BY <1>1, SinkKept DEF InOrder, AfterError
<1>5. /\ Given(s)' = Given(s) /\ Taken(s)' = k
      /\ Forwarding(s)' <=> Forwarding(s)
  BY <1>1 DEF Given, Taken, InHand, Forwarding
<1>6. ASSUME Forwarding(s) PROVE ChInOrder(s)' /\ SourceInOrder(s)'
  <2>1. /\ c \in Seq(Nat) /\ sent[s] \in Nat /\ k \in Nat
        /\ \A i \in 1..Len(c) : c[i] = k + i
    <3>1. c \in Seq(Nat) /\ sent[s] \in Nat /\ received[s] \in Seq(Nat) /\ wrapped[s] \in Seq(Nat)
      BY AtStream
    <3>2. k \in Nat
      BY <3>1, CountsAreNat
    <3>3. ChInOrder(s)
      BY <1>6 DEF InOrder, ForwardingInOrder
    <3>4. QED
      BY <1>1, <3>1, <3>2, <3>3 DEF ChInOrder
  <2>2. /\ producer[s] = "data" => sent[s] = k + Len(c) + 1
        /\ producer[s] \in {"check", "recv", "error"} => sent[s] = k + Len(c)
    BY <1>6 DEF InOrder, ForwardingInOrder, SourceInOrder
  <2>3. ~Failed(s)
    BY <2>1, BufferOps DEF Failed, Err
  <2>4. CASE Check(s) \/ RecvChunk(s) \/ RecvEOF(s) \/ RecvFails(s) \/ SendChunkGivesUp(s)
    <3>1. ch'[s] = c
      BY <2>4 DEF Check, RecvChunk, RecvEOF, RecvFails, SendChunkGivesUp
    <3>2. ChInOrder(s)'
      BY <1>5, <2>1, <3>1 DEF ChInOrder
    <3>3. Failed(s)' <=> Failed(s)
      BY <3>1 DEF Failed
    <3>4. \/ producer'[s] \in {"recv", "error"} /\ sent'[s] = sent[s] /\ producer[s] \in {"check", "recv"}
          \/ producer'[s] = "data" /\ sent'[s] = sent[s] + 1 /\ producer[s] = "recv"
          \/ producer'[s] = "done" /\ sent'[s] = sent[s] /\ producer[s] = "recv"
          \/ producer'[s] = "done" /\ s \in ended
      BY <2>4 DEF Check, RecvChunk, RecvEOF, RecvFails, SendChunkGivesUp, ProducerGoto, DataType
    <3>5. Len(c) \in Nat
      BY <2>1
    <3>6. SourceInOrder(s)'
      <4>1. Len(ch'[s]) = Len(c) /\ ended' = ended /\ ~Failed(s)'
        BY <1>1, <2>3, <3>1, <3>3
      <4>2. CASE producer'[s] \in {"recv", "error"} /\ sent'[s] = sent[s]
                   /\ producer[s] \in {"check", "recv"}
        BY <1>5, <2>2, <4>1, <4>2 DEF SourceInOrder
      <4>3. CASE producer'[s] = "data" /\ sent'[s] = sent[s] + 1 /\ producer[s] = "recv"
        BY <1>5, <2>1, <2>2, <3>5, <4>1, <4>3 DEF SourceInOrder
      <4>4. CASE producer'[s] = "done" /\ sent'[s] = sent[s] /\ producer[s] = "recv"
        BY <1>5, <2>1, <2>2, <3>5, <4>1, <4>4 DEF SourceInOrder
      <4>5. CASE producer'[s] = "done" /\ s \in ended
        BY <4>1, <4>5 DEF SourceInOrder
      <4>6. QED
        BY <3>4, <4>2, <4>3, <4>4, <4>5
    <3>7. QED
      BY <3>2, <3>6
  <2>5. CASE SendChunk(s)
    <3>1. /\ ch'[s] = Append(c, sent[s]) /\ producer[s] = "data" /\ producer'[s] = "check"
          /\ sent'[s] = sent[s]
      BY <2>5 DEF SendChunk, ProducerGoto, DataType
    <3>2. /\ Len(ch'[s]) = Len(c) + 1 /\ ch'[s][Len(c) + 1] = sent[s] /\ Len(c) \in Nat
          /\ \A i \in 1..Len(c) : ch'[s][i] = c[i]
      BY <2>1, <3>1, BufferOps
    <3>3. \A i \in 1..Len(ch'[s]) : ch'[s][i] = k + i
      <4>1. ASSUME NEW i \in 1..(Len(c) + 1) PROVE i \in 1..Len(c) \/ i = Len(c) + 1
        BY <3>2
      <4>2. ch'[s][Len(c) + 1] = k + (Len(c) + 1)
        BY <2>1, <2>2, <3>1, <3>2
      <4>3. QED
        BY <2>1, <3>2, <4>1, <4>2
    <3>4. ChInOrder(s)'
      BY <1>5, <3>3 DEF ChInOrder
    <3>5. SourceInOrder(s)'
      BY <1>5, <2>1, <2>2, <3>1, <3>2 DEF SourceInOrder
    <3>6. QED
      BY <3>4, <3>5
  <2>6. CASE SendError(s)
    <3>1. /\ ch'[s] = Append(c, 0) /\ producer[s] = "error" /\ producer'[s] = "done"
          /\ sent'[s] = sent[s]
      BY <2>6 DEF SendError, ProducerGoto, DataType, Err
    <3>2. /\ Len(ch'[s]) = Len(c) + 1 /\ ch'[s][Len(c) + 1] = 0 /\ Len(c) \in Nat
          /\ \A i \in 1..Len(c) : ch'[s][i] = c[i]
      BY <2>1, <3>1, BufferOps
    <3>3. \A i \in 1..Len(ch'[s]) : ch'[s][i] = k + i \/ (ch'[s][i] = 0 /\ i = Len(ch'[s]))
      <4>1. ASSUME NEW i \in 1..(Len(c) + 1) PROVE i \in 1..Len(c) \/ i = Len(c) + 1
        BY <3>2
      <4>2. QED
        BY <2>1, <3>2, <4>1
    <3>4. ChInOrder(s)'
      BY <1>5, <3>1, <3>3 DEF ChInOrder, Err
    <3>5. Failed(s)'
      <4>1. Len(ch'[s]) # 0 /\ ch'[s][Len(ch'[s])] = 0
        BY <3>2
      <4>2. QED
        BY <4>1 DEF Failed, Err
    <3>6. SourceInOrder(s)'
      BY <1>5, <2>1, <2>2, <3>1, <3>2, <3>5 DEF SourceInOrder
    <3>7. QED
      BY <3>4, <3>6
  <2>7. QED
    BY <2>4, <2>5, <2>6 DEF ProducerStep
<1>7. ForwardingInOrder(s)'
  BY <1>1, <1>5, <1>6 DEF InOrder, ForwardingInOrder
<1>8. QED
  BY <1>3, <1>4, <1>7 DEF InOrder

(* A stream's context ends, and nothing else happens.                      *)
LEMMA ContextKeeps ==
  ASSUME DataType, NEW s \in Streams, InOrder(s),
         Cancel(s) \/ Timeout(s) \/ SeeClosed(s)
  PROVE  InOrder(s)'
<1>1. /\ UNCHANGED <<pc, producer, sent, ch, hand, finalErr, wrapped, received>>
      /\ s \notin ended' => s \notin ended
  BY DEF Cancel, Timeout, SeeClosed, source, wrapper, sink, contexts
<1>2. Given(s)' = Given(s) /\ Taken(s)' = Taken(s)
  BY <1>1 DEF Given, Taken, InHand
<1>3. UnopenedEmpty(s)' /\ LastIsError(s)'
  BY <1>1 DEF InOrder, UnopenedEmpty, Unopened, LastIsError
<1>4. ReadInOrder(s)' /\ WrappedInOrder(s)'
  BY <1>1, SinkKept DEF InOrder, AfterError
<1>5. ChInOrder(s) => ChInOrder(s)'
  BY <1>1, <1>2 DEF ChInOrder
<1>6. SourceInOrder(s) => SourceInOrder(s)'
  BY <1>1, <1>2, Zenon DEF SourceInOrder, Failed
<1>7. ForwardingInOrder(s)'
  BY <1>1, <1>2, <1>5, <1>6, Zenon DEF InOrder, ForwardingInOrder, Forwarding
<1>8. Completed(s)'
  BY <1>1, <1>2, Zenon DEF InOrder, Completed
<1>9. QED
  BY <1>3, <1>4, <1>7, <1>8 DEF InOrder

(* One message moves from the second count to the first.                   *)
LEMMA OneOver ==
  \A m, n \in Nat : m + n = (m + 1) + (n - 1)
  OBVIOUS

LEMMA NextPlace ==
  \A m, i \in Nat : m + (i + 1) = m + 1 + i /\ (m + i) + 1 = m + (i + 1)
  OBVIOUS

LEMMA OneShorter ==
  \A n, i \in Nat : n > 0 =>
    /\ i + 1 = n => i = n - 1
    /\ n = 1 \/ n > 1
    /\ n > 1 <=> n - 1 # 0
  OBVIOUS

(* The consumer: what it takes from wrapped goes on where it had stopped.  *)
LEMMA ReadKeeps ==
  ASSUME DataType, NEW s \in Streams, InOrder(s), Read(s)
  PROVE  InOrder(s)'
<1> DEFINE r == received[s]
           w == wrapped[s]
<1>1. /\ UNCHANGED <<pc, producer, sent, ch, hand, finalErr, ended>>
      /\ r \in Seq(Nat) /\ w \in Seq(Nat) /\ w # <<>>
      /\ received'[s] = Append(r, Head(w)) /\ wrapped'[s] = Tail(w)
  BY AtStream DEF Read, source, wrapper, sink, contexts, DataType
<1>2. /\ Len(r) \in Nat /\ Len(w) \in Nat /\ Len(w) > 0
      /\ Len(received'[s]) = Len(r) + 1 /\ received'[s][Len(r) + 1] = w[1]
      /\ \A i \in 1..Len(r) : received'[s][i] = r[i]
      /\ Len(wrapped'[s]) = Len(w) - 1
      /\ \A i \in 1..(Len(w) - 1) : wrapped'[s][i] = w[i + 1]
      /\ Len(w) = 1 => wrapped'[s] = <<>>
  <2>1. /\ Head(w) \in Nat /\ Head(w) = w[1] /\ Tail(w) \in Seq(Nat)
        /\ Len(r) \in Nat /\ Len(w) \in Nat /\ Len(w) > 0 /\ Len(Tail(w)) = Len(w) - 1
        /\ \A i \in 1..(Len(w) - 1) : Tail(w)[i] = w[i + 1]
    BY <1>1, BufferOps
  <2>2. /\ Len(Append(r, Head(w))) = Len(r) + 1 /\ Append(r, Head(w))[Len(r) + 1] = Head(w)
        /\ \A i \in 1..Len(r) : Append(r, Head(w))[i] = r[i]
    BY <1>1, <2>1, BufferOps
  <2>3. Len(w) = 1 => Tail(w) = <<>>
    <3>1. \A q \in Seq(Nat) : Len(q) = 0 => q = <<>>
      BY BufferOps
    <3>2. Len(w) = 1 => Len(Tail(w)) = 0
      BY <2>1
    <3>3. QED
      BY <2>1, <3>1, <3>2, Zenon
  <2>4. QED
    BY <1>1, <2>1, <2>2, <2>3
<1>3. /\ \A i \in 1..Len(r) : r[i] = i
      /\ \A i \in 1..Len(w) : w[i] = Len(r) + i \/ (w[i] = Err /\ i = Len(w) /\ AfterError(s))
  BY <1>1 DEF InOrder, ReadInOrder, WrappedInOrder
<1>4. AfterError(s)' <=> AfterError(s)
  BY <1>1 DEF AfterError
<1>5. ReadInOrder(s)'
  <2>1. w[1] = Len(r) + 1 \/ (w[1] = Err /\ wrapped'[s] = <<>> /\ AfterError(s)')
    BY <1>2, <1>3, <1>4
  <2>2. ASSUME NEW i \in 1..(Len(r) + 1) PROVE i \in 1..Len(r) \/ i = Len(r) + 1
    BY <1>2
  <2>3. QED
    BY <1>2, <1>3, <2>1, <2>2 DEF ReadInOrder
<1>6. WrappedInOrder(s)'
  <2>1. ASSUME NEW i \in 1..(Len(w) - 1)
        PROVE  \/ wrapped'[s][i] = Len(r) + 1 + i
               \/ wrapped'[s][i] = Err /\ i = Len(w) - 1 /\ AfterError(s)'
    <3>1. i \in Nat /\ i + 1 \in 1..Len(w)
      BY <1>2
    <3>2. \/ w[i + 1] = Len(r) + (i + 1)
          \/ w[i + 1] = Err /\ i + 1 = Len(w) /\ AfterError(s)'
      BY <1>3, <1>4, <3>1
    <3>3. wrapped'[s][i] = w[i + 1]
      BY <1>2
    <3>4. Len(r) + (i + 1) = Len(r) + 1 + i /\ (i + 1 = Len(w) => i = Len(w) - 1)
      BY <1>2, <3>1, NextPlace, OneShorter, Zenon
    <3>5. QED
      BY <3>2, <3>3, <3>4, Zenon
  <2>2. QED
    BY <1>2, <2>1, Zenon DEF WrappedInOrder
<1>7. Given(s)' = Given(s) /\ Taken(s)' = Taken(s)
  <2>1. Given(s) = Len(r) + Len(w) /\ Given(s)' = (Len(r) + 1) + (Len(w) - 1)
    BY <1>2, Zenon DEF Given
  <2>2. Len(r) + Len(w) = (Len(r) + 1) + (Len(w) - 1)
    BY <1>2, OneOver, Zenon
  <2>3. QED
    BY <1>1, <2>1, <2>2 DEF Taken, InHand
<1>8. UnopenedEmpty(s)' /\ LastIsError(s)'
  <2>1. ~Unopened(s)
    BY <1>1 DEF InOrder, UnopenedEmpty
  <2>2. QED
    BY <1>1, <2>1 DEF InOrder, UnopenedEmpty, Unopened, LastIsError
<1>9. ChInOrder(s) => ChInOrder(s)'
  BY <1>1, <1>7 DEF ChInOrder
<1>10. SourceInOrder(s) => SourceInOrder(s)'
  BY <1>1, <1>7, Zenon DEF SourceInOrder, Failed
<1>11. ForwardingInOrder(s)'
  BY <1>1, <1>7, <1>9, <1>10, Zenon DEF InOrder, ForwardingInOrder, Forwarding
<1>12. Completed(s)'
  BY <1>1, <1>7, Zenon DEF InOrder, Completed
<1>13. QED
  BY <1>5, <1>6, <1>8, <1>11, <1>12 DEF InOrder

(* The wrapper on its way out.                                             *)
LEMMA UnwindingKeeps ==
  ASSUME DataType, NEW s \in Streams, InOrder(s),
         TakeDone(s) \/ TakeEnd(s) \/ ForwardGivesUp(s)
           \/ DoneHook(s) \/ CancelStream(s) \/ Release(s) \/ CloseWrapped(s)
  PROVE  InOrder(s)'
<1>1. /\ UNCHANGED <<producer, sent, ch, wrapped, received>>
      /\ pc'[s] \in Unwinding \cup {"ended"}
      /\ pc[s] \notin {"ended", "error"} \cup Opening
      /\ s \notin ended' => s \notin ended
  BY DEF TakeDone, TakeEnd, ForwardGivesUp, DoneHook, CancelStream, Release, CloseWrapped, Goto,
         source, wrapper, sink, contexts, DataType, Unwinding, Opening
<1>2. /\ pc[s] \in Unwinding => finalErr'[s] = finalErr[s]
      /\ TakeDone(s) \/ ForwardGivesUp(s) => s \in ended'
      /\ TakeEnd(s) => pc[s] = "take" /\ ch[s] = <<>> /\ producer[s] = "done"
      /\ ~TakeDone(s) => finalErr'[s] = finalErr[s]
      /\ pc[s] \in Unwinding \/ TakeDone(s) \/ ForwardGivesUp(s) \/ TakeEnd(s)
  BY DEF TakeDone, TakeEnd, ForwardGivesUp, DoneHook, CancelStream, Release, CloseWrapped,
         source, wrapper, sink, contexts, DataType, Unwinding
<1>3. Given(s)' = Given(s)
  BY <1>1 DEF Given
<1>4. ReadInOrder(s)' /\ WrappedInOrder(s)'
  <2>1. AfterError(s) => AfterError(s)'
    BY <1>1, <1>2 DEF AfterError
  <2>2. QED
    BY <1>1, <2>1, SinkKept DEF InOrder
<1>5. UnopenedEmpty(s)' /\ LastIsError(s)' /\ ForwardingInOrder(s)'
  BY <1>1 DEF UnopenedEmpty, Unopened, Opening, LastIsError, ForwardingInOrder, Forwarding, Unwinding
<1>6. Completed(s)'
  <2>1. CASE pc[s] \in Unwinding
    BY <1>1, <1>2, <1>3, <2>1, Zenon DEF InOrder, Completed
  <2>2. CASE TakeDone(s) \/ ForwardGivesUp(s)
    BY <1>2, <2>2 DEF Completed
  <2>3. CASE TakeEnd(s)
    <3>1. /\ pc[s] = "take" /\ ch[s] = <<>> /\ producer[s] = "done"
      BY <1>2, <2>3
    <3>2. Taken(s) = Given(s) /\ Given(s) \in Nat /\ Len(ch[s]) = 0 /\ ~Failed(s)
      <4>1. InHand(s) = 0 /\ ~Failed(s) /\ Len(ch[s]) = 0
        BY <3>1 DEF InHand, Failed
      <4>2. Given(s) \in Nat
        BY AtStream, CountsAreNat
      <4>3. QED
        BY <4>1, <4>2 DEF Taken
    <3>3. SourceInOrder(s)
      BY <3>1 DEF InOrder, ForwardingInOrder, Forwarding
    <3>4. s \notin ended => sent[s] = Given(s)
      BY <3>1, <3>2, <3>3 DEF SourceInOrder
    <3>5. QED
      BY <1>1, <1>3, <3>1, <3>4 DEF Completed
  <2>4. QED
    BY <1>2, <2>1, <2>2, <2>3
<1>7. QED
  BY <1>4, <1>5, <1>6 DEF InOrder

(* The wrapper takes a message: a chunk goes on where the wrapper is, and  *)
(* ch goes on after it.                                                    *)
LEMMA TakeKeeps ==
  ASSUME DataType, NEW s \in Streams, InOrder(s), Take(s)
  PROVE  InOrder(s)'
<1> DEFINE c == ch[s]
<1>1. /\ UNCHANGED <<producer, sent, wrapped, received, ended>>
      /\ pc[s] = "take" /\ c # <<>> /\ c \in Seq(Nat) /\ ch'[s] = Tail(c)
  BY AtStream DEF Take, sink, contexts, DataType
<1>2. \/ Head(c) # Err /\ hand'[s] = Head(c) /\ pc'[s] = "send" /\ finalErr'[s] = finalErr[s]
      \/ hand'[s] = Err /\ pc'[s] = "sendLast" /\ finalErr'[s] = "error"
  BY <1>1 DEF Take, Goto, DataType
<1>3. Given(s)' = Given(s) /\ Given(s) \in Nat /\ Taken(s) = Given(s)
  <2>1. Given(s) \in Nat
    BY AtStream, CountsAreNat
  <2>2. Given(s)' = Given(s)
    BY <1>1 DEF Given
  <2>3. InHand(s) = 0
    BY <1>1 DEF InHand
  <2>4. \A m \in Nat : m + 0 = m
    OBVIOUS
  <2>5. QED
    BY <2>1, <2>2, <2>3, <2>4, Zenon DEF Taken
<1>4. ReadInOrder(s)' /\ WrappedInOrder(s)'
  <2>1. ~AfterError(s)
    BY <1>1 DEF AfterError, Unwinding
  <2>2. QED
    BY <1>1, <2>1, SinkKept DEF InOrder
<1>5. UnopenedEmpty(s)' /\ LastIsError(s)' /\ Completed(s)'
  BY <1>1, <1>2 DEF UnopenedEmpty, Unopened, Opening, LastIsError, Completed, Unwinding
<1>6. CASE hand'[s] = Err /\ pc'[s] = "sendLast" /\ finalErr'[s] = "error"
  BY <1>4, <1>5, <1>6 DEF InOrder, ForwardingInOrder, Forwarding
<1>7. CASE Head(c) # Err /\ hand'[s] = Head(c) /\ pc'[s] = "send" /\ finalErr'[s] = finalErr[s]
  <2>1. /\ Len(c) \in Nat /\ Len(c) > 0 /\ Head(c) = c[1] /\ Len(ch'[s]) = Len(c) - 1
        /\ \A i \in 1..(Len(c) - 1) : ch'[s][i] = c[i + 1]
        /\ Len(c) > 1 <=> ch'[s] # <<>>
    <3>1. Tail(c) \in Seq(Nat)
      BY <1>1, BufferOps
    <3>2. \A q \in Seq(Nat) : Len(q) \in Nat /\ (q = <<>> <=> Len(q) = 0)
      BY BufferOps
    <3>3. Len(Tail(c)) \in Nat /\ (Tail(c) = <<>> <=> Len(Tail(c)) = 0)
      BY <3>1, <3>2, Zenon
    <3>4. /\ Len(c) \in Nat /\ Len(c) > 0 /\ Head(c) = c[1] /\ Len(Tail(c)) = Len(c) - 1
          /\ \A i \in 1..(Len(c) - 1) : Tail(c)[i] = c[i + 1]
      BY <1>1, BufferOps
    <3>5. Len(c) > 1 <=> Len(Tail(c)) # 0
      BY <3>4, OneShorter, Zenon
    <3>6. QED
      BY <1>1, <3>3, <3>4, <3>5, Zenon
  <2>2. /\ finalErr[s] = "nil" /\ ChInOrder(s) /\ SourceInOrder(s)
    BY <1>1 DEF InOrder, ForwardingInOrder, Forwarding
  <2>3. c[1] = Given(s) + 1
    BY <1>3, <1>7, <2>1, <2>2 DEF ChInOrder
  <2>4. Taken(s)' = Given(s) + 1
    BY <1>3, <1>7 DEF Taken, InHand
  <2>5. ChInOrder(s)'
    <3>1. ASSUME NEW i \in 1..(Len(c) - 1)
          PROVE  \/ ch'[s][i] = Given(s) + 1 + i
                 \/ ch'[s][i] = Err /\ i = Len(c) - 1 /\ producer[s] = "done"
      <4>1. i \in Nat /\ i + 1 \in 1..Len(c) /\ ch'[s][i] = c[i + 1]
        BY <2>1
      <4>2. \/ c[i + 1] = Given(s) + (i + 1)
            \/ c[i + 1] = Err /\ i + 1 = Len(c) /\ producer[s] = "done"
        BY <1>3, <2>2, <4>1 DEF ChInOrder
      <4>3. Given(s) + (i + 1) = Given(s) + 1 + i /\ (i + 1 = Len(c) => i = Len(c) - 1)
        BY <1>3, <2>1, <4>1, NextPlace, OneShorter, Zenon
      <4>4. QED
        BY <4>1, <4>2, <4>3, Zenon
    <3>2. QED
      BY <1>1, <2>1, <2>4, <3>1, Zenon DEF ChInOrder
  <2>6. Failed(s)' <=> Failed(s)
    <3>1. CASE Len(c) = 1
      BY <1>1, <1>7, <2>1, <3>1 DEF Failed
    <3>2. CASE Len(c) > 1
      <4>1. /\ Len(c) - 1 \in 1..(Len(c) - 1) /\ (Len(c) - 1) + 1 = Len(c)
        BY <2>1, <3>2
      <4>2. ch'[s][Len(c) - 1] = c[Len(c)] /\ ch'[s] # <<>> /\ Len(ch'[s]) = Len(c) - 1
        BY <2>1, <3>2, <4>1
      <4>3. QED
        BY <1>1, <4>2, Zenon DEF Failed
    <3>3. QED
      BY <2>1, <3>1, <3>2, OneShorter, Zenon
  <2>7. SourceInOrder(s)'
    <3>1. Taken(s)' + Len(ch'[s]) = Taken(s) + Len(c)
      BY <1>3, <2>1, <2>4, OneOver, Zenon
    <3>2. producer'[s] = producer[s] /\ sent'[s] = sent[s] /\ ended' = ended
      BY <1>1
    <3>3. /\ producer[s] # "none"
          /\ producer[s] = "data" => sent[s] = Taken(s)' + Len(ch'[s]) + 1
          /\ producer[s] \in {"check", "recv", "error"} => sent[s] = Taken(s)' + Len(ch'[s])
      BY <2>2, <3>1, Zenon DEF SourceInOrder
    <3>4. producer[s] = "done" /\ s \notin ended =>
            sent[s] = (Taken(s)' + Len(ch'[s])) - (IF Failed(s)' THEN 1 ELSE 0)
      <4>1. CASE Failed(s)
        BY <2>2, <2>6, <3>1, <4>1, Zenon DEF SourceInOrder
      <4>2. CASE ~Failed(s)
        BY <2>2, <2>6, <3>1, <4>2, Zenon DEF SourceInOrder
      <4>3. QED
        BY <4>1, <4>2
    <3>5. QED
      BY <3>2, <3>3, <3>4 DEF SourceInOrder
  <2>8. ForwardingInOrder(s)'
    BY <1>3, <1>7, <2>1, <2>2, <2>3, <2>5, <2>7 DEF ForwardingInOrder
  <2>9. QED
    BY <1>4, <1>5, <2>8 DEF InOrder
<1>8. QED
  BY <1>2, <1>6, <1>7

(* The wrapper puts what it holds behind what it has put.                  *)
LEMMA ForwardKeeps ==
  ASSUME DataType, NEW s \in Streams, InOrder(s), Forward(s)
  PROVE  InOrder(s)'
<1> DEFINE w == wrapped[s]
<1>1. /\ UNCHANGED <<producer, sent, ch, hand, finalErr, received, ended>>
      /\ w \in Seq(Nat) /\ hand[s] \in Nat /\ wrapped'[s] = Append(w, hand[s])
      /\ \/ pc[s] = "send" /\ pc'[s] = "take"
         \/ pc[s] = "sendLast" /\ pc'[s] = "hook"
  BY AtStream DEF Forward, Goto, source, wrapper, sink, contexts, DataType
<1>2. /\ Len(w) \in Nat /\ Len(wrapped'[s]) = Len(w) + 1 /\ wrapped'[s][Len(w) + 1] = hand[s]
      /\ \A i \in 1..Len(w) : wrapped'[s][i] = w[i]
  BY <1>1, BufferOps
<1>3. ~AfterError(s)
  BY <1>1 DEF AfterError, Unwinding
<1>4. /\ \A i \in 1..Len(received[s]) : received[s][i] = i
      /\ \A i \in 1..Len(w) : w[i] = Len(received[s]) + i
  BY <1>3 DEF InOrder, ReadInOrder, WrappedInOrder
<1>5. ReadInOrder(s)' /\ UnopenedEmpty(s)' /\ LastIsError(s)'
  BY <1>1, <1>4 DEF ReadInOrder, UnopenedEmpty, Unopened, Opening, LastIsError
<1>6. /\ Len(received[s]) \in Nat
      /\ Given(s) = Len(received[s]) + Len(w)
      /\ Given(s)' = Len(received[s]) + (Len(w) + 1)
  <2>1. Len(received[s]) \in Nat
    BY AtStream
  <2>2. QED
    BY <1>1, <1>2, <2>1, Zenon DEF Given
<1>7. ASSUME NEW i \in 1..(Len(w) + 1) PROVE i \in 1..Len(w) \/ i = Len(w) + 1
  BY <1>2
<1>8. CASE pc[s] = "send" /\ pc'[s] = "take"
  <2>1. /\ hand[s] = Given(s) + 1 /\ finalErr[s] = "nil"
        /\ ChInOrder(s) /\ SourceInOrder(s)
    BY <1>8 DEF InOrder, ForwardingInOrder, Forwarding
  <2>2. hand[s] = Len(received[s]) + (Len(w) + 1)
    <3>1. hand[s] = (Len(received[s]) + Len(w)) + 1
      BY <1>6, <2>1
    <3>2. QED
      BY <1>2, <1>6, <3>1, NextPlace, Zenon
  <2>3. WrappedInOrder(s)'
    BY <1>1, <1>2, <1>4, <1>7, <2>2 DEF WrappedInOrder
  <2>4. Taken(s)' = Taken(s)
    <3>1. InHand(s) = 1 /\ InHand(s)' = 0
      BY <1>8 DEF InHand
    <3>2. \A m, n \in Nat : (m + (n + 1)) + 0 = (m + n) + 1
      OBVIOUS
    <3>3. QED
      BY <1>2, <1>6, <3>1, <3>2, Zenon DEF Taken
  <2>5. ChInOrder(s)' /\ SourceInOrder(s)'
    BY <1>1, <2>1, <2>4, Zenon DEF ChInOrder, SourceInOrder, Failed
  <2>6. ForwardingInOrder(s)' /\ Completed(s)'
    BY <1>1, <1>8, <2>1, <2>5 DEF ForwardingInOrder, Completed, Unwinding
  <2>7. QED
    BY <1>5, <2>3, <2>6 DEF InOrder
<1>9. CASE pc[s] = "sendLast" /\ pc'[s] = "hook"
  <2>1. hand[s] = Err /\ finalErr[s] = "error"
    BY <1>9 DEF InOrder, LastIsError
  <2>2. AfterError(s)'
    BY <1>1, <1>9, <2>1 DEF AfterError, Unwinding
  <2>3. WrappedInOrder(s)'
    BY <1>1, <1>2, <1>4, <1>7, <2>1, <2>2 DEF WrappedInOrder
  <2>4. ForwardingInOrder(s)' /\ Completed(s)'
    BY <1>1, <1>9, <2>1 DEF ForwardingInOrder, Forwarding, Completed
  <2>5. QED
    BY <1>5, <2>3, <2>4 DEF InOrder
<1>10. QED
  BY <1>1, <1>8, <1>9

(* A step of one stream changes nothing of another.                        *)
LEMMA StepsAreLocal ==
  ASSUME DataType, NEW s \in Streams, NEW t \in Streams, t # s,
         \/ Start(s) \/ Acquire(s) \/ OpenStep(s) \/ ProducerStep(s) \/ WrapperStep(s) \/ ConsumerStep(s)
         \/ Cancel(s) \/ Timeout(s)
  PROVE  SameStream(t)
<1> USE DEF DataType, SameStream, Goto, ProducerGoto, source, wrapper, sink, contexts
<1>1. CASE Start(s) \/ Acquire(s) \/ OpenStep(s)
  BY <1>1 DEF Start, OpenStep, Acquire, AcquireFails, Available, Before, Proceed, Connect, Panics, Refuse
<1>2. CASE ProducerStep(s)
  BY <1>2 DEF ProducerStep, Check, RecvChunk, RecvEOF, RecvFails, SendChunk, SendChunkGivesUp, SendError
<1>3. CASE TakeDone(s) \/ Take(s) \/ TakeEnd(s)
  BY <1>3 DEF TakeDone, Take, TakeEnd
<1>4. CASE Forward(s) \/ ForwardGivesUp(s) \/ DoneHook(s) \/ CancelStream(s) \/ Release(s) \/ CloseWrapped(s)
  BY <1>4 DEF Forward, ForwardGivesUp, DoneHook, CancelStream, Release, CloseWrapped
<1>5. CASE ConsumerStep(s)
  BY <1>5 DEF ConsumerStep, Read, SeeClosed
<1>6. CASE Cancel(s) \/ Timeout(s)
  BY <1>6 DEF Cancel, Timeout
<1>7. QED
  BY <1>1, <1>2, <1>3, <1>4, <1>5, <1>6 DEF WrapperStep

LEMMA PipeNext == DataType /\ PipeInv /\ [Next]_vars => PipeInv'
<1> SUFFICES ASSUME DataType, PipeInv, [Next]_vars, NEW t \in Streams PROVE InOrder(t)'
  BY DEF PipeInv
<1>1. InOrder(t)
  BY DEF PipeInv
<1>2. ASSUME NEW s \in Streams,
             \/ Start(s) \/ Acquire(s) \/ OpenStep(s) \/ ProducerStep(s) \/ WrapperStep(s) \/ ConsumerStep(s)
             \/ Cancel(s) \/ Timeout(s)
      PROVE  InOrder(t)'
  <2>1. CASE t # s
    BY <1>1, <1>2, <2>1, StepsAreLocal, SameStreamKeeps
  <2>2. CASE t = s
    BY <1>1, <1>2, <2>2, OpeningKeeps, ProducerKeeps, ContextKeeps, ReadKeeps, UnwindingKeeps,
       TakeKeeps, ForwardKeeps DEF OpenStep, WrapperStep, ConsumerStep
  <2>3. QED
    BY <2>1, <2>2
<1>3. CASE CloseBegins \/ CloseEnds \/ UNCHANGED vars
  <2>1. SameStream(t)
    BY <1>3 DEF CloseBegins, CloseEnds, vars, SameStream, source, wrapper, sink, contexts
  <2>2. QED
    BY <1>1, <2>1, SameStreamKeeps
<1>4. QED
  BY <1>2, <1>3 DEF Next

-----------------------------------------------------------------------------
(* From the pieces to what the consumer sees.                              *)

(* A sequence that counts from one, but for an error at its end.           *)
Counts(q) == \A i \in 1..Len(q) : q[i] = i
CountsToError(q) == \A i \in 1..Len(q) : q[i] = i \/ (q[i] = Err /\ i = Len(q))

LEMMA JoinedCounts ==
  ASSUME NEW q \in Seq(Nat), NEW r \in Seq(Nat), Counts(q)
  PROVE  /\ q \o r \in Seq(Nat) /\ Len(q \o r) = Len(q) + Len(r)
         /\ Len(q) \in Nat /\ Len(r) \in Nat
         /\ (\A i \in 1..Len(r) : r[i] = Len(q) + i) => Counts(q \o r)
         /\ (\A i \in 1..Len(r) : r[i] = Len(q) + i \/ (r[i] = Err /\ i = Len(r))) =>
              CountsToError(q \o r)
<1> DEFINE p == q \o r
<1>1. /\ p \in Seq(Nat) /\ Len(p) = Len(q) + Len(r)
      /\ \A i \in 1..(Len(q) + Len(r)) : p[i] = IF i <= Len(q) THEN q[i] ELSE r[i - Len(q)]
  BY ConcatProperties
<1>2. Len(q) \in Nat /\ Len(r) \in Nat
  OBVIOUS
<1>3. ASSUME NEW i \in 1..(Len(q) + Len(r))
      PROVE  \/ p[i] = i
             \/ /\ i - Len(q) \in 1..Len(r) /\ p[i] = r[i - Len(q)]
                /\ Len(q) + (i - Len(q)) = i
                /\ i - Len(q) = Len(r) => i = Len(q) + Len(r)
  BY <1>1, <1>2 DEF Counts
<1> HIDE DEF p
<1>4. ASSUME \A i \in 1..Len(r) : r[i] = Len(q) + i PROVE Counts(p)
  <2>1. ASSUME NEW i \in 1..(Len(q) + Len(r)) PROVE p[i] = i
    BY <1>3, <1>4
  <2>2. QED
    BY <1>1, <2>1 DEF Counts
<1>5. ASSUME \A i \in 1..Len(r) : r[i] = Len(q) + i \/ (r[i] = Err /\ i = Len(r))
      PROVE  CountsToError(p)
  <2>1. ASSUME NEW i \in 1..(Len(q) + Len(r))
        PROVE  p[i] = i \/ (p[i] = Err /\ i = Len(q) + Len(r))
    BY <1>3, <1>5
  <2>2. QED
    BY <1>1, <2>1 DEF CountsToError
<1>6. QED
  BY <1>1, <1>2, <1>4, <1>5 DEF p

LEMMA CountsIsUpTo ==
  ASSUME NEW q \in Seq(Nat), Counts(q)
  PROVE  q = UpTo(Len(q))
<1>1. UpTo(Len(q)) \in Seq(Nat) /\ Len(UpTo(Len(q))) = Len(q)
  BY DEF UpTo
<1>2. \A i \in 1..Len(q) : UpTo(Len(q))[i] = q[i]
  BY DEF UpTo, Counts
<1> DEFINE u == UpTo(Len(q))
<1>3. u \in Seq(Nat) /\ Len(u) = Len(q) /\ \A i \in 1..Len(q) : u[i] = q[i]
  BY <1>1, <1>2
<1> HIDE DEF u
<1>4. u = q
  BY <1>3, SeqEqual
<1>5. QED
  BY <1>4 DEF u

LEMMA CountsToErrorIsAppend ==
  ASSUME NEW q \in Seq(Nat), CountsToError(q), q # <<>>, q[Len(q)] = Err
  PROVE  q = Append(UpTo(Len(q) - 1), Err)
<1> DEFINE n == Len(q) - 1
           a == Append(UpTo(n), Err)
<1>1. n \in Nat /\ Len(q) = n + 1
  BY BufferOps
<1>2. UpTo(n) \in Seq(Nat) /\ Len(UpTo(n)) = n /\ \A i \in 1..n : UpTo(n)[i] = i
  BY <1>1 DEF UpTo
<1>3. /\ a \in Seq(Nat) /\ Len(a) = n + 1 /\ a[n + 1] = Err
      /\ \A i \in 1..n : a[i] = i
  BY <1>2, BufferOps DEF Err
<1> HIDE DEF a, n
<1>4. \A i \in 1..(n + 1) : i \in 1..n \/ i = n + 1
  BY <1>1
<1>5. \A i \in 1..Len(q) : a[i] = q[i]
  BY <1>1, <1>3, <1>4 DEF CountsToError
<1>6. a = q
  BY <1>1, <1>3, <1>5, SeqEqual
<1>7. QED
  BY <1>6 DEF a, n

(* What is in the pipe is what the provider has sent.                      *)
LEMMA PipeIsSent ==
  ASSUME DataType, NEW s \in Streams, InOrder(s), s \notin ended, finalErr[s] = "nil"
  PROVE  Pipe(s) \in {UpTo(sent[s]), Append(UpTo(sent[s]), Err)}
<1> DEFINE r == received[s]
           w == wrapped[s]
           h == IF pc[s] = "send" THEN <<hand[s]>> ELSE <<>>
           c == ch[s]
           d == IF producer[s] = "data" THEN <<sent[s]>> ELSE <<>>
<1>1. /\ r \in Seq(Nat) /\ w \in Seq(Nat) /\ c \in Seq(Nat)
      /\ hand[s] \in Nat /\ sent[s] \in Nat
      /\ pc[s] \in Labels
  BY AtStream
<1>2. /\ h \in Seq(Nat) /\ Len(h) = InHand(s)
      /\ d \in Seq(Nat) /\ Len(d) = IF producer[s] = "data" THEN 1 ELSE 0
  BY <1>1 DEF InHand
<1>3. Pipe(s) = r \o w \o h \o c \o d
  BY DEF Pipe
<1>4. Counts(r) /\ \A i \in 1..Len(w) : w[i] = Len(r) + i
  BY DEF InOrder, ReadInOrder, WrappedInOrder, AfterError, Counts
<1> DEFINE rw == r \o w
           rwh == rw \o h
           rwhc == rwh \o c
<1>5. rw \in Seq(Nat) /\ Len(rw) = Given(s) /\ Counts(rw) /\ Given(s) \in Nat
  BY <1>1, <1>4, JoinedCounts, CountsAreNat, Zenon DEF Given
<1>6. \A i \in 1..Len(h) : h[i] = Given(s) + i
  <2>1. pc[s] = "send" => hand[s] = Given(s) + 1
    BY DEF InOrder, ForwardingInOrder, Forwarding
  <2>2. QED
    BY <2>1
<1>7. Pipe(s) = rwhc \o d
  BY <1>3
<1> HIDE DEF rw, h, d
<1>8. rwh \in Seq(Nat) /\ Len(rwh) = Taken(s) /\ Counts(rwh) /\ Taken(s) \in Nat
  <2>1. \A i \in 1..Len(h) : h[i] = Len(rw) + i
    BY <1>5, <1>6, Zenon
  <2>2. rwh \in Seq(Nat) /\ Len(rwh) = Len(rw) + Len(h) /\ Counts(rwh)
    BY <1>2, <1>5, <2>1, JoinedCounts, Zenon
  <2>3. QED
    BY <1>1, <1>2, <1>5, <2>2, CountsAreNat, Zenon DEF Taken
<1> HIDE DEF rwh, c
<1>9. CASE Unopened(s)
  <2>1. /\ r = <<>> /\ w = <<>> /\ h = <<>> /\ c = <<>> /\ d = <<>>
        /\ sent[s] = 0
    BY <1>9 DEF InOrder, UnopenedEmpty, Unopened, Opening, h, d, c
  <2>2. Pipe(s) = <<>>
    BY <1>3, <2>1
  <2>3. UpTo(0) = <<>>
    BY DEF UpTo
  <2>4. QED
    BY <2>1, <2>2, <2>3
<1>10. CASE pc[s] \in Unwinding \cup {"ended"}
  <2>1. c = <<>> /\ d = <<>> /\ h = <<>> /\ sent[s] = Given(s)
    BY <1>10 DEF InOrder, Completed, Unwinding, c, d, h
  <2>2. \A q \in Seq(Nat) : q \o <<>> = q
    BY ConcatEmptySeq
  <2>3. Pipe(s) = rw
    BY <1>5, <1>7, <2>1, <2>2, Zenon DEF rwh
  <2>4. QED
    BY <1>5, <2>1, <2>3, CountsIsUpTo
<1>11. CASE Forwarding(s) /\ ~Failed(s)
  <2>1. ChInOrder(s) /\ SourceInOrder(s)
    BY <1>11 DEF InOrder, ForwardingInOrder
  <2>2. Len(c) \in Nat /\ \A i \in 1..Len(c) : c[i] = Taken(s) + i
    BY <1>1, <1>11, <2>1 DEF ChInOrder, Failed, c
  <2>3. rwhc \in Seq(Nat) /\ Len(rwhc) = Taken(s) + Len(c) /\ Counts(rwhc)
    BY <1>1, <1>8, <2>2, JoinedCounts, ZenonT(60)
  <2>4. \A i \in 1..Len(d) : d[i] = Taken(s) + Len(c) + i
    BY <2>1 DEF SourceInOrder, c, d
  <2> HIDE DEF rwhc
  <2>5. /\ rwhc \o d \in Seq(Nat) /\ Len(rwhc \o d) = Taken(s) + Len(c) + Len(d)
        /\ Counts(rwhc \o d)
    BY <1>2, <2>3, <2>4, JoinedCounts, ZenonT(60)
  <2>6. Taken(s) + Len(c) + Len(d) = sent[s]
    BY <1>1, <1>2, <1>8, <1>11, <2>1, <2>2 DEF SourceInOrder, DataType, ProducerLabels, c
  <2>7. QED
    BY <1>7, <2>5, <2>6, CountsIsUpTo, Zenon DEF rwhc
<1>12. CASE Forwarding(s) /\ Failed(s)
  <2>1. ChInOrder(s) /\ SourceInOrder(s)
    BY <1>12 DEF InOrder, ForwardingInOrder
  <2>2. /\ Len(c) \in 1..Len(c) /\ c[Len(c)] = Err /\ Len(c) \in Nat
    BY <1>1, <1>12, BufferOps DEF Failed, c
  <2>3. producer[s] = "done"
    BY <1>8, <2>1, <2>2 DEF ChInOrder, Err, c
  <2>4. \A i \in 1..Len(c) : c[i] = Taken(s) + i \/ (c[i] = Err /\ i = Len(c))
    BY <2>1 DEF ChInOrder, c
  <2>5. rwhc \in Seq(Nat) /\ Len(rwhc) = Taken(s) + Len(c) /\ CountsToError(rwhc)
    BY <1>1, <1>8, <2>4, JoinedCounts, Zenon
  <2>6. rwhc[Len(rwhc)] = Err
    <3>1. Taken(s) + Len(c) \in 1..(Taken(s) + Len(c))
      BY <1>8, <2>2
    <3>2. ~(Taken(s) + Len(c) <= Taken(s)) /\ (Taken(s) + Len(c)) - Taken(s) = Len(c)
      BY <1>8, <2>2
    <3>3. rwhc[Taken(s) + Len(c)] = c[(Taken(s) + Len(c)) - Taken(s)]
      <4>1. \A i \in 1..Len(rwh) + Len(c) :
               (rwh \o c)[i] = IF i <= Len(rwh) THEN rwh[i] ELSE c[i - Len(rwh)]
        BY <1>1, <1>8, ConcatProperties, Zenon
      <4>2. QED
        BY <1>8, <3>1, <3>2, <4>1, Zenon
    <3>4. QED
      BY <2>2, <2>5, <3>2, <3>3, Zenon
  <2>7. Pipe(s) = rwhc /\ rwhc # <<>>
    <3>1. d = <<>>
      BY <2>3 DEF d
    <3>2. \A q \in Seq(Nat) : q \o <<>> = q
      BY ConcatEmptySeq
    <3>3. rwhc # <<>>
      <4>1. Len(rwhc) # 0
        BY <1>8, <2>2, <2>5
      <4>2. QED
        BY <4>1, <2>5, BufferOps
    <3>4. QED
      BY <1>7, <2>5, <3>1, <3>2, <3>3, Zenon
  <2> HIDE DEF rwhc
  <2>8. Len(rwhc) - 1 = sent[s]
    BY <1>8, <1>12, <2>1, <2>2, <2>3, <2>5 DEF SourceInOrder, c
  <2>9. QED
    BY <2>5, <2>6, <2>7, <2>8, CountsToErrorIsAppend, Zenon
<1>13. pc[s] # "sendLast"
  BY DEF InOrder, LastIsError
<1>14. QED
  BY <1>1, <1>9, <1>10, <1>11, <1>12, <1>13 DEF Labels, Unopened, Forwarding, Running, Opening, Unwinding

-----------------------------------------------------------------------------
(* The invariant of a stream, and what follows from it.                    *)
StreamInv == TypeOK /\ SlotsMatchStreams /\ HooksOnce /\ PipeInv

LEMMA StreamInvParts ==
  StreamInv <=> DataType /\ Counted /\ doneHooks \in [Streams -> 0..1] /\ HooksOnce /\ PipeInv
BY Zenon DEF StreamInv, TypeOK, DataType, Counted

LEMMA StreamInvPartsNext ==
  DataType' /\ Counted' /\ doneHooks' \in [Streams -> 0..1] /\ HooksOnce' /\ PipeInv' => StreamInv'
BY Zenon DEF StreamInv, TypeOK, DataType, Counted

LEMMA StreamInvInit == Init => StreamInv
<1>1. Init => doneHooks \in [Streams -> 0..1]
  BY DEF Init
<1>2. QED
  BY <1>1, DataInit, CountedInit, PipeInit, StreamInvParts

LEMMA StreamInvNext == StreamInv /\ [Next]_vars => StreamInv'
BY DataNext, CountedNext, HooksNext, PipeNext, StreamInvParts, StreamInvPartsNext

LEMMA StreamInvariant == Spec => []StreamInv
BY StreamInvInit, StreamInvNext, PTL DEF Spec

(* Every variable of a stream stays in its type: a buffer never holds more *)
(* than its size, and the semaphore, however it grants its slots, is never *)
(* released below zero.                                                    *)
THEOREM TypeCorrect == Spec => []TypeOK
<1>1. StreamInv => TypeOK
  BY DEF StreamInv
<1>2. QED
  BY <1>1, StreamInvariant, PTL

(* For any number of streams, and however the semaphore grants: whatever   *)
(* way a stream ends it gives back the one slot it took, once; only a panic*)
(* before its wrapper runs keeps the slot.                                 *)
THEOREM OnlyPanicsLoseSlots == Spec => []SlotsMatchStreams
<1>1. StreamInv => SlotsMatchStreams
  BY DEF StreamInv
<1>2. QED
  BY <1>1, StreamInvariant, PTL

(* The AfterStreamDone hooks of a stream never run twice, and have run     *)
(* before its context is cancelled, its slot freed and its channel closed. *)
THEOREM HooksRunOnce == Spec => []HooksOnce
<1>1. StreamInv => HooksOnce
  BY DEF StreamInv
<1>2. QED
  BY <1>1, StreamInvariant, PTL

(* The goroutines and the buffers neither lose, repeat nor reorder chunks, *)
(* whatever the sizes of the buffers and however many streams run.         *)
THEOREM ChunksStayInOrder == Spec => []ChunksInOrder
<1>1. StreamInv => ChunksInOrder
  <2> SUFFICES ASSUME StreamInv, NEW s \in Streams
               PROVE  /\ s \notin ended /\ finalErr[s] = "nil" =>
                            Pipe(s) \in {UpTo(sent[s]), Append(UpTo(sent[s]), Err)}
                      /\ \A i \in 1..Len(received[s]) :
                           received[s][i] = i \/ (received[s][i] = Err /\ i = Len(received[s]))
    BY DEF ChunksInOrder
  <2>1. DataType /\ InOrder(s)
    BY StreamInvParts DEF PipeInv
  <2>2. ReadInOrder(s)
    BY <2>1 DEF InOrder
  <2>3. QED
    BY <2>1, <2>2, PipeIsSent DEF ReadInOrder
<1>2. QED
  BY <1>1, StreamInvariant, PTL

=============================================================================
