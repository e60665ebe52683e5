------------------------------- MODULE Stream -------------------------------
(***************************************************************************)
(* Streaming calls: ChatCompleteStream and ChatCompleteStreamWithRouter of *)
(* internal/engine/stream.go, the goroutine that reads the answer of the   *)
(* provider (OpenAIProvider.ChatCompleteStream, providers/providers.go),   *)
(* and the part of Close that waits for these goroutines.                  *)
(*                                                                         *)
(*   provider --> producer --> ch --> wrapper --> wrapped --> consumer     *)
(*                                                                         *)
(* The producer and the wrapper are goroutines, ch and wrapped buffered    *)
(* channels.  A provider sends the chunks 1..Chunks, and may fail, stall   *)
(* or end its answer at any point.  One response carries one choice.       *)
(*                                                                         *)
(* The semaphore may grant a slot at any time, also beyond its capacity    *)
(* (module Semaphore has its steps).  Until the wrapper runs nothing is    *)
(* deferred: a panic of the caller's goroutine keeps the slot.             *)
(***************************************************************************)
EXTENDS Integers, Sequences, FiniteSets

CONSTANTS
  Streams,   \* the streams that are ever opened
  Capacity,  \* of the semaphore: a slot within it is granted in the end
  Chunks,    \* what a provider may send, at most
  ChSize,    \* buffer of the provider's channel: 16
  WrapSize   \* wrappedBufSize: 16

ASSUME StreamAssumption ==
  /\ IsFiniteSet(Streams)
  /\ Capacity \in Nat \ {0}
  /\ Chunks \in Nat
  /\ ChSize \in Nat \ {0}
  /\ WrapSize \in Nat \ {0}

VARIABLES
  closing,   \* how far Scheduler.Close is
  inUse,     \* slots of the semaphore that are taken
  pc,        \* of the caller and, once the stream is open, of the wrapper
  cancelled, \* the streams whose caller cancelled ctx
  ended,     \* the streams whose streamCtx is done, for whatever reason
  producer,  \* where the producer is
  sent,      \* chunks the producer has received from the provider
  ch,
  hand,      \* what the wrapper is about to forward
  finalErr,
  doneHooks, \* how often the AfterStreamDone hooks ran
  wrapped,
  consumer,  \* "reading" or "closed"
  received

shared == <<closing, inUse>>
contexts == <<cancelled, ended>>
source == <<producer, sent, ch>>
wrapper == <<hand, finalErr, doneHooks>>
sink == <<consumer, received>>
vars == <<shared, pc, contexts, source, wrapper, wrapped, sink>>

Err == 0
Messages == 0..Chunks  \* Err, or the number of a chunk

Opening == {"new", "acquire", "available", "before", "connect", "refuse"}
Running == {"take", "send", "sendLast"}
Unwinding == {"hook", "cancel", "release", "close"}
Labels == Opening \cup Running \cup Unwinding \cup {"ended", "error", "panicked"}

ProducerLabels == {"none", "check", "recv", "data", "error", "done"}

TypeOK ==
  /\ closing \in {"open", "waiting", "closed"}
  /\ inUse \in Nat
  /\ pc \in [Streams -> Labels]
  /\ cancelled \subseteq Streams /\ ended \subseteq Streams
  /\ producer \in [Streams -> ProducerLabels]
  /\ sent \in [Streams -> 0..Chunks]
  /\ ch \in [Streams -> Seq(Messages)] /\ \A s \in Streams : Len(ch[s]) <= ChSize
  /\ hand \in [Streams -> Messages]
  /\ finalErr \in [Streams -> {"nil", "error", "ctx"}]
  /\ doneHooks \in [Streams -> 0..1]
  /\ wrapped \in [Streams -> Seq(Messages)] /\ \A s \in Streams : Len(wrapped[s]) <= WrapSize
  /\ consumer \in [Streams -> {"reading", "closed"}]
  /\ received \in [Streams -> Seq(Messages)]

Init ==
  /\ closing = "open"
  /\ inUse = 0
  /\ pc = [s \in Streams |-> "new"]
  /\ cancelled = {} /\ ended = {}
  /\ producer = [s \in Streams |-> "none"]
  /\ sent = [s \in Streams |-> 0]
  /\ ch = [s \in Streams |-> <<>>]
  /\ hand = [s \in Streams |-> Err]
  /\ finalErr = [s \in Streams |-> "nil"]
  /\ doneHooks = [s \in Streams |-> 0]
  /\ wrapped = [s \in Streams |-> <<>>]
  /\ consumer = [s \in Streams |-> "reading"]
  /\ received = [s \in Streams |-> <<>>]

Goto(s, label) == pc' = [pc EXCEPT ![s] = label]
ProducerGoto(s, label) == producer' = [producer EXCEPT ![s] = label]

Full(s) == Len(ch[s]) = ChSize
WrappedFull(s) == Len(wrapped[s]) = WrapSize

-----------------------------------------------------------------------------
(* Mutants: plausible bugs, each standing in for a definition in one check. *)

\* A failed connection keeps its slot.
RefuseKeepsSlot(s) ==
  /\ pc[s] = "refuse"
  /\ Goto(s, "error")
  /\ UNCHANGED <<shared, contexts, source, wrapper, wrapped, sink>>

\* A full buffer drops its oldest element instead of blocking.
ForwardDropsOldest(s) ==
  /\ pc[s] \in {"send", "sendLast"}
  /\ wrapped' = [wrapped EXCEPT ![s] = Append(IF Len(@) = WrapSize THEN Tail(@) ELSE @, hand[s])]
  /\ Goto(s, IF pc[s] = "send" THEN "take" ELSE "hook")
  /\ UNCHANGED <<shared, contexts, source, wrapper, sink>>

\* Only the send of a chunk looks at the context, not that of an error.
GivesUpOnChunksOnly(s) ==
  /\ pc[s] = "send"
  /\ s \in ended
  /\ Goto(s, "hook")
  /\ UNCHANGED <<shared, contexts, source, wrapper, wrapped, sink>>

\* The producer looks at the context once, before it waits for room.
GivesUpBeforeRecv(s) ==
  /\ producer[s] = "recv"
  /\ s \in ended
  /\ ProducerGoto(s, "done")
  /\ UNCHANGED <<shared, pc, contexts, sent, ch, wrapper, wrapped, sink>>

-----------------------------------------------------------------------------
(* Opening a stream.                                                       *)

Start(s) ==
  /\ pc[s] = "new"
  /\ Goto(s, IF closing = "open" THEN "acquire" ELSE "error")
  /\ UNCHANGED <<shared, contexts, source, wrapper, wrapped, sink>>

Acquire(s) ==
  /\ pc[s] = "acquire"
  /\ inUse' = inUse + 1
  /\ Goto(s, "available")
  /\ UNCHANGED <<closing, contexts, source, wrapper, wrapped, sink>>

AcquireFails(s) ==
  /\ pc[s] = "acquire"
  /\ s \in cancelled
  /\ Goto(s, "error")
  /\ UNCHANGED <<shared, contexts, source, wrapper, wrapped, sink>>

\* Picking a provider, the hooks before the request and the connection may
\* fail; the slot is then given back.
Proceed(s, from, to) ==
  /\ pc[s] = from
  /\ Goto(s, to) \/ Goto(s, "refuse")
  /\ UNCHANGED <<shared, contexts, source, wrapper, wrapped, sink>>

Available(s) == Proceed(s, "available", "before")
Before(s) == Proceed(s, "before", "connect")

\* streamCtx is a child of ctx.  The producer starts before the wrapper.
Connect(s) ==
  /\ pc[s] = "connect"
  /\ \/ /\ Goto(s, "take")
        /\ ProducerGoto(s, "check")
        /\ ended' = ended \cup (cancelled \cap {s})
     \/ /\ Goto(s, "refuse")
        /\ ended' = ended \cup {s}
        /\ UNCHANGED producer
  /\ UNCHANGED <<shared, cancelled, sent, ch, wrapper, wrapped, sink>>

\* The router's index is past the end of a list that ApplyConfig shortened,
\* or the code of the router or the provider panics.
Panics(s) ==
  /\ pc[s] \in {"available", "connect"}
  /\ Goto(s, "panicked")
  /\ UNCHANGED <<shared, contexts, source, wrapper, wrapped, sink>>

Refuse(s) ==
  /\ pc[s] = "refuse"
  /\ inUse' = inUse - 1
  /\ Goto(s, "error")
  /\ UNCHANGED <<closing, contexts, source, wrapper, wrapped, sink>>

-----------------------------------------------------------------------------
(* The producer.                                                           *)

\* The error about a context that is done is sent without a select.
Check(s) ==
  /\ producer[s] = "check"
  /\ ProducerGoto(s, IF s \in ended THEN "error" ELSE "recv")
  /\ UNCHANGED <<shared, pc, contexts, sent, ch, wrapper, wrapped, sink>>

RecvChunk(s) ==
  /\ producer[s] = "recv"
  /\ sent[s] < Chunks
  /\ sent' = [sent EXCEPT ![s] = @ + 1]
  /\ ProducerGoto(s, "data")
  /\ UNCHANGED <<shared, pc, contexts, ch, wrapper, wrapped, sink>>

RecvEOF(s) ==
  /\ producer[s] = "recv"
  /\ ProducerGoto(s, "done")
  /\ UNCHANGED <<shared, pc, contexts, sent, ch, wrapper, wrapped, sink>>

RecvFails(s) ==
  /\ producer[s] = "recv"
  /\ ProducerGoto(s, "error")
  /\ UNCHANGED <<shared, pc, contexts, sent, ch, wrapper, wrapped, sink>>

SendChunk(s) ==
  /\ producer[s] = "data"
  /\ ~Full(s)
  /\ ch' = [ch EXCEPT ![s] = Append(@, sent[s])]
  /\ ProducerGoto(s, "check")
  /\ UNCHANGED <<shared, pc, contexts, sent, wrapper, wrapped, sink>>

SendChunkGivesUp(s) ==
  /\ producer[s] = "data"
  /\ s \in ended
  /\ ProducerGoto(s, "done")
  /\ UNCHANGED <<shared, pc, contexts, sent, ch, wrapper, wrapped, sink>>

\* No select here: the send waits for room, whatever becomes of streamCtx.
SendError(s) ==
  /\ producer[s] = "error"
  /\ ~Full(s)
  /\ ch' = [ch EXCEPT ![s] = Append(@, Err)]
  /\ ProducerGoto(s, "done")
  /\ UNCHANGED <<shared, pc, contexts, sent, wrapper, wrapped, sink>>

-----------------------------------------------------------------------------
(* The wrapper.                                                            *)

TakeDone(s) ==
  /\ pc[s] = "take"
  /\ s \in ended
  /\ finalErr' = [finalErr EXCEPT ![s] = "ctx"]
  /\ Goto(s, "hook")
  /\ UNCHANGED <<shared, contexts, source, hand, doneHooks, wrapped, sink>>

\* An error, or a chunk that an AfterStreamChunk hook refuses, is the last
\* message.
Take(s) ==
  /\ pc[s] = "take"
  /\ ch[s] # <<>>
  /\ ch' = [ch EXCEPT ![s] = Tail(@)]
  /\ \/ /\ Head(ch[s]) # Err
        /\ hand' = [hand EXCEPT ![s] = Head(ch[s])]
        /\ Goto(s, "send")
        /\ UNCHANGED finalErr
     \/ /\ hand' = [hand EXCEPT ![s] = Err]
        /\ finalErr' = [finalErr EXCEPT ![s] = "error"]
        /\ Goto(s, "sendLast")
  /\ UNCHANGED <<shared, contexts, producer, sent, doneHooks, wrapped, sink>>

TakeEnd(s) ==
  /\ pc[s] = "take"
  /\ ch[s] = <<>> /\ producer[s] = "done"
  /\ Goto(s, "hook")
  /\ UNCHANGED <<shared, contexts, source, wrapper, wrapped, sink>>

Forward(s) ==
  /\ pc[s] \in {"send", "sendLast"}
  /\ ~WrappedFull(s)
  /\ wrapped' = [wrapped EXCEPT ![s] = Append(@, hand[s])]
  /\ Goto(s, IF pc[s] = "send" THEN "take" ELSE "hook")
  /\ UNCHANGED <<shared, contexts, source, wrapper, sink>>

\* finalErr stays what it is, so nil for a chunk.
ForwardGivesUp(s) ==
  /\ pc[s] \in {"send", "sendLast"}
  /\ s \in ended
  /\ Goto(s, "hook")
  /\ UNCHANGED <<shared, contexts, source, wrapper, wrapped, sink>>

\* The deferred functions, last one first.
DoneHook(s) ==
  /\ pc[s] = "hook"
  /\ doneHooks' = [doneHooks EXCEPT ![s] = @ + 1]
  /\ Goto(s, "cancel")
  /\ UNCHANGED <<shared, contexts, source, hand, finalErr, wrapped, sink>>

CancelStream(s) ==
  /\ pc[s] = "cancel"
  /\ ended' = ended \cup {s}
  /\ Goto(s, "release")
  /\ UNCHANGED <<shared, cancelled, source, wrapper, wrapped, sink>>

Release(s) ==
  /\ pc[s] = "release"
  /\ inUse' = inUse - 1
  /\ Goto(s, "close")
  /\ UNCHANGED <<closing, contexts, source, wrapper, wrapped, sink>>

CloseWrapped(s) ==
  /\ pc[s] = "close"
  /\ Goto(s, "ended")
  /\ UNCHANGED <<shared, contexts, source, wrapper, wrapped, sink>>

-----------------------------------------------------------------------------
(* The consumer, who may stop reading at any point; the contexts and Close.*)

Opened(s) == pc[s] \in Running \cup Unwinding \cup {"ended"}

Read(s) ==
  /\ Opened(s) /\ consumer[s] = "reading"
  /\ wrapped[s] # <<>>
  /\ received' = [received EXCEPT ![s] = Append(@, Head(wrapped[s]))]
  /\ wrapped' = [wrapped EXCEPT ![s] = Tail(@)]
  /\ UNCHANGED <<shared, pc, contexts, source, wrapper, consumer>>

SeeClosed(s) ==
  /\ pc[s] = "ended" /\ consumer[s] = "reading"
  /\ wrapped[s] = <<>>
  /\ consumer' = [consumer EXCEPT ![s] = "closed"]
  /\ UNCHANGED <<shared, pc, contexts, source, wrapper, wrapped, received>>

\* streamCtx ends with ctx.
Cancel(s) ==
  /\ pc[s] \notin {"new", "error", "panicked"} /\ s \notin cancelled
  /\ cancelled' = cancelled \cup {s}
  /\ ended' = IF Opened(s) THEN ended \cup {s} ELSE ended
  /\ UNCHANGED <<shared, pc, source, wrapper, wrapped, sink>>

Timeout(s) ==
  /\ pc[s] \in Running \cup Unwinding
  /\ s \notin ended
  /\ ended' = ended \cup {s}
  /\ UNCHANGED <<shared, pc, cancelled, source, wrapper, wrapped, sink>>

\* OpenAIProvider.Close waits for the producers.
CloseBegins ==
  /\ closing = "open"
  /\ closing' = "waiting"
  /\ UNCHANGED <<inUse, pc, contexts, source, wrapper, wrapped, sink>>

CloseEnds ==
  /\ closing = "waiting"
  /\ \A s \in Streams : producer[s] \in {"none", "done"}
  /\ closing' = "closed"
  /\ UNCHANGED <<inUse, pc, contexts, source, wrapper, wrapped, sink>>

-----------------------------------------------------------------------------
ProducerStep(s) ==
  Check(s) \/ RecvChunk(s) \/ RecvEOF(s) \/ RecvFails(s)
    \/ SendChunk(s) \/ SendChunkGivesUp(s) \/ SendError(s)

WrapperStep(s) ==
  TakeDone(s) \/ Take(s) \/ TakeEnd(s) \/ Forward(s) \/ ForwardGivesUp(s)
    \/ DoneHook(s) \/ CancelStream(s) \/ Release(s) \/ CloseWrapped(s)

OpenStep(s) ==
  AcquireFails(s) \/ Available(s) \/ Before(s) \/ Connect(s) \/ Panics(s) \/ Refuse(s)

ConsumerStep(s) == Read(s) \/ SeeClosed(s)

Next ==
  \/ \E s \in Streams :
       Start(s) \/ Acquire(s) \/ OpenStep(s) \/ ProducerStep(s) \/ WrapperStep(s) \/ ConsumerStep(s)
         \/ Cancel(s) \/ Timeout(s)
  \/ CloseBegins \/ CloseEnds

Spec == Init /\ [][Next]_vars

\* A provider may stall until streamCtx is done, which makes Recv return;
\* streamCtx has a timeout.  Nothing is assumed of the consumer.
Fairness ==
  /\ \A s \in Streams :
       /\ WF_vars(OpenStep(s)) /\ WF_vars(Acquire(s) /\ inUse < Capacity)
       /\ WF_vars(WrapperStep(s)) /\ WF_vars(Timeout(s))
       /\ WF_vars(ProducerStep(s) /\ (s \in ended \/ producer[s] # "recv"))
  /\ WF_vars(CloseEnds)

FairSpec == Spec /\ Fairness

=============================================================================
