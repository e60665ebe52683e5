--------------------------- MODULE StreamProperties ---------------------------
(***************************************************************************)
(* What a streaming call promises to its consumer and to the scheduler.    *)
(***************************************************************************)
EXTENDS Stream

HoldsSlot(s) ==
  pc[s] \in {"available", "before", "connect", "refuse", "panicked"}
              \cup Running \cup {"hook", "cancel", "release"}

(* A stream holds one slot from its acquisition until its wrapper unwinds, *)
(* on every way out, refused, failed, cut off by a hook or by the context  *)
(* (stream.go 43-72, 82), but one: a panic in the picking or in the        *)
(* provider's ChatCompleteStream (stream.go 136, 158), before the Release  *)
(* of the wrapper is deferred, keeps the slot for good.  It is the only way*)
(* a slot is lost, and none is given back twice.                           *)
SlotsMatchStreams == inUse = Cardinality({s \in Streams : HoldsSlot(s)})

UpTo(n) == [i \in 1..n |-> i]

\* What the provider has sent and the consumer has read or may still read.
Pipe(s) ==
  received[s] \o wrapped[s] \o (IF pc[s] = "send" THEN <<hand[s]>> ELSE <<>>)
    \o ch[s] \o (IF producer[s] = "data" THEN <<sent[s]>> ELSE <<>>)

(* Two goroutines and two buffers neither lose, repeat nor reorder a chunk *)
(* as long as the context of the stream lasts and no hook refuses a chunk, *)
(* and an error comes after them; and in any case the consumer reads the   *)
(* first chunks in their order, and nothing after an error (stream.go      *)
(* 90-123, providers.go 677-729).                                          *)
ChunksInOrder ==
  \A s \in Streams :
    /\ s \notin ended /\ finalErr[s] = "nil" =>
         Pipe(s) \in {UpTo(sent[s]), Append(UpTo(sent[s]), Err)}
    /\ \A i \in 1..Len(received[s]) :
         received[s][i] = i \/ (received[s][i] = Err /\ i = Len(received[s]))

(* A stream ends, closes its channel and has run its AfterStreamDone hooks *)
(* once, even when the provider stalls and nobody reads (stream.go 80-124).*)
StreamEnds ==
  \A s \in Streams : pc[s] \in Running ~> pc[s] = "ended" /\ doneHooks[s] = 1

Stuck(s) == producer[s] = "error" /\ Full(s) /\ pc[s] = "ended"

(* The goroutine of the provider ends, except in one case: it has an error *)
(* to report, its buffer is full, and the wrapper has gone.                *)
ProducerEndsUnlessStuck ==
  \A s \in Streams : producer[s] = "check" ~> producer[s] = "done" \/ Stuck(s)

=============================================================================
