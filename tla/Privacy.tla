------------------------------ MODULE Privacy ------------------------------
(***************************************************************************)
(* The privacy gateway: PseudonymizeRequest, AfterResponse and             *)
(* AfterStreamChunk (privacy/gateway.go, privacy/pseudonymizer.go) over    *)
(* the mapping store of one session (privacy/store/pebble.go).             *)
(*                                                                         *)
(* Requests of the session run at the same time.  Each call of the store   *)
(* is a step of its own and may fail.  A mapping is written in both        *)
(* directions by one batch and keys are only ever overwritten, so that the *)
(* log of the batches gives both directions: the value of a key is that of *)
(* its last batch.  Nothing in the code ever deletes a mapping.            *)
(*                                                                         *)
(* The messages of a request are one text: a value detected in any of them *)
(* is replaced in all.  The provider sends back what it received.          *)
(***************************************************************************)
EXTENDS Pseudonyms

CONSTANTS
  N,         \* requests, numbered in the order in which they arrive
  Texts,     \* of each request, what its user may write: sequences of values
  MaxFaults  \* how many calls of the store may fail

ASSUME PrivacyAssumption ==
  /\ N \in Nat
  /\ \A r \in 1..N : Texts[r] \subseteq Seq(Values)
  /\ MaxFaults \in Nat

VARIABLES
  failOpen,  \* GatewayConfig.FailOpen
  log,       \* the batches of the store
  faults,    \* calls of the store that have failed
  pc,
  text,      \* what the user wrote, as a sequence of values
  spans,     \* the values detected, longest first
  repl,      \* replacements: the pseudonyms of the first of the spans
  hand,      \* the pseudonym to be stored
  mine,      \* mappings: those that the request has created
  out,       \* what left for the provider
  taken,     \* words of a streamed answer that have come back
  result     \* what the user gets to see

Requests == 1..N

store == <<log, faults>>
working == <<text, spans, repl, hand, mine>>
vars == <<failOpen, store, pc, working, out, taken, result>>

Labels == {"new", "lookup", "generate", "set", "sent", "streaming", "done", "blocked", "failed"}

Mapping == [original : Seq(Words), fake : Seq(Words)]

TypeOK ==
  /\ failOpen \in BOOLEAN
  /\ log \in Seq(Mapping)
  /\ faults \in 0..MaxFaults
  /\ pc \in [Requests -> Labels]
  /\ text \in [Requests -> Seq(Values)]
  /\ spans \in [Requests -> Seq(Values)]
  /\ repl \in [Requests -> Seq(Seq(Words))]
  /\ \A r \in Requests : Len(repl[r]) <= Len(spans[r])
  /\ hand \in [Requests -> Seq(Words)]
  /\ mine \in [Requests -> SUBSET Mapping]
  /\ out \in [Requests -> Seq(Words)]
  /\ taken \in [Requests -> Nat]
  /\ result \in [Requests -> Seq(Words)]

Init ==
  /\ failOpen \in BOOLEAN
  /\ log = <<>>
  /\ faults = 0
  /\ pc = [r \in Requests |-> "new"]
  /\ text = [r \in Requests |-> <<>>]
  /\ spans = [r \in Requests |-> <<>>]
  /\ repl = [r \in Requests |-> <<>>]
  /\ hand = [r \in Requests |-> <<>>]
  /\ mine = [r \in Requests |-> {}]
  /\ out = [r \in Requests |-> <<>>]
  /\ taken = [r \in Requests |-> 0]
  /\ result = [r \in Requests |-> <<>>]

Goto(r, from, to) == pc[r] = from /\ pc' = [pc EXCEPT ![r] = to]

-----------------------------------------------------------------------------
(* The store *)

Fakes == {log[i].fake : i \in 1..Len(log)}
Originals == {log[i].original : i \in 1..Len(log)}

\* GetFake and GetOriginal, for a key that is there.
FakeOf(o) == log[SelectLastInSeq(log, LAMBDA m : m.original = o)].fake
OriginalOf(f) == log[SelectLastInSeq(log, LAMBDA m : m.fake = f)].original

\* GetSession reads the keys of the direction from pseudonym to original.
Session == {[original |-> OriginalOf(f), fake |-> f] : f \in Fakes}

Answers == UNCHANGED faults
Fails == faults < MaxFaults /\ faults' = faults + 1

-----------------------------------------------------------------------------
(* BeforeRequest *)

\* The detector finds some of the values, none when it fails: the adapter
\* hides its errors.  Without spans the request leaves as it is.
Begin(r) ==
  /\ \A q \in 1..(r - 1) : pc[q] # "new"
  /\ Goto(r, "new", "lookup")
  /\ \E t \in Texts[r] : \E found \in SUBSET Range(t) :
       \E q \in LongestFirst(found, [v \in found |-> Len(v)]) :
         /\ text' = [text EXCEPT ![r] = t]
         /\ spans' = [spans EXCEPT ![r] = q]
  /\ UNCHANGED <<failOpen, store, repl, hand, mine, out, taken, result>>

Pending(r) == Len(repl[r]) < Len(spans[r])
Current(r) == spans[r][Len(repl[r]) + 1]

Replace(r, f) == repl' = [repl EXCEPT ![r] = Append(@, f)]

Known(r) ==
  /\ pc[r] = "lookup" /\ Pending(r) /\ Current(r) \in Originals
  /\ Replace(r, FakeOf(Current(r)))
  /\ UNCHANGED <<failOpen, store, pc, text, spans, hand, mine, out, taken, result>>

\* An error of GetFake is taken for "no such mapping".
Unknown(r) ==
  /\ Pending(r)
  /\ Goto(r, "lookup", "generate")
  /\ (Current(r) \notin Originals /\ Answers) \/ Fails
  /\ UNCHANGED <<failOpen, log, working, out, taken, result>>

\* Mutants: the first pseudonym is taken, known or not; the same one is drawn
\* again and again.
ChooseUnseen(r) ==
  /\ Goto(r, "generate", "set")
  /\ \E f \in Generate(Current(r)) : hand' = [hand EXCEPT ![r] = f]
  /\ UNCHANGED <<failOpen, store, text, spans, repl, mine, out, taken, result>>

ChooseOne(r) ==
  LET f == CHOOSE f \in Generate(Current(r)) : TRUE IN
  /\ Goto(r, "generate", "set")
  /\ hand' = [hand EXCEPT ![r] = f]
  /\ (f \notin Fakes /\ Answers) \/ Fails
  /\ UNCHANGED <<failOpen, log, text, spans, repl, mine, out, taken, result>>

\* The loop ends with a pseudonym that GetOriginal does not know; an error
\* is again taken for "no such mapping".
Choose(r) ==
  /\ Goto(r, "generate", "set")
  /\ \E f \in Generate(Current(r)) :
       /\ hand' = [hand EXCEPT ![r] = f]
       /\ (f \notin Fakes /\ Answers) \/ Fails
  /\ UNCHANGED <<failOpen, log, text, spans, repl, mine, out, taken, result>>

Set(r) ==
  LET m == [original |-> Current(r), fake |-> hand[r]] IN
  /\ Goto(r, "set", "lookup")
  /\ log' = Append(log, m)
  /\ mine' = [mine EXCEPT ![r] = @ \cup {m}]
  /\ Replace(r, hand[r])
  /\ hand' = [hand EXCEPT ![r] = <<>>]
  /\ UNCHANGED <<failOpen, faults, text, spans, out, taken, result>>

\* What leaves for the provider, or does not.
Leaves(r, t) == out' = [out EXCEPT ![r] = t]

SetFails(r) ==
  /\ Fails
  /\ IF failOpen
       THEN Goto(r, "set", "sent") /\ Leaves(r, FlattenSeq(text[r]))
       ELSE Goto(r, "set", "blocked") /\ UNCHANGED out
  /\ mine' = [mine EXCEPT ![r] = {}]
  /\ UNCHANGED <<failOpen, log, text, spans, repl, hand, taken, result>>

Replacements(r) ==
  [i \in 1..Len(repl[r]) |-> [original |-> spans[r][i], fake |-> repl[r][i]]]

Send(r) ==
  /\ ~Pending(r)
  /\ Goto(r, "lookup", "sent")
  /\ Leaves(r, Pseudonymize(FlattenSeq(text[r]), Replacements(r)))
  /\ UNCHANGED <<failOpen, store, working, taken, result>>

-----------------------------------------------------------------------------
(* AfterResponse and AfterStreamChunk *)

Deliver(r, t) == result' = [result EXCEPT ![r] = @ \o t]

RestoreResponse(r) == Restorations(out[r], Session)
RestoreResponseWithMappings(r) == Restorations(out[r], mine[r])

\* Mutant: all mappings of the session are used.
RestoreBySession(r) ==
  /\ mine[r] # {}
  /\ Goto(r, "sent", "done")
  /\ \E t \in RestoreResponse(r) : Deliver(r, t)
  /\ UNCHANGED <<failOpen, store, working, out, taken>>

\* The mappings that the request has created come with its metadata.
RestoreOwn(r) ==
  /\ mine[r] # {}
  /\ Goto(r, "sent", "done")
  /\ \E t \in RestoreResponseWithMappings(r) : Deliver(r, t)
  /\ UNCHANGED <<failOpen, store, working, out, taken>>

\* Without them, all mappings of the session.
RestoreSession(r) ==
  /\ mine[r] = {}
  /\ Goto(r, "sent", "done")
  /\ \E t \in RestoreResponse(r) : Deliver(r, t)
  /\ UNCHANGED <<failOpen, store, working, out, taken>>

SessionFails(r) ==
  /\ mine[r] = {}
  /\ Fails
  /\ IF failOpen
       THEN Goto(r, "sent", "done") /\ Deliver(r, out[r])
       ELSE Goto(r, "sent", "failed") /\ UNCHANGED result
  /\ UNCHANGED <<failOpen, log, working, out, taken>>

ProviderFails(r) ==
  /\ Goto(r, "sent", "failed") \/ Goto(r, "streaming", "failed")
  /\ UNCHANGED <<failOpen, store, working, out, taken, result>>

\* Mutant: only with the mappings that the request has created.
RestoreChunkOwn(r) ==
  /\ pc[r] \in {"sent", "streaming"}
  /\ \E n \in (taken[r] + 1)..Len(out[r]) :
       LET chunk == SubSeq(out[r], taken[r] + 1, n) IN
       /\ IF n = Len(out[r])
            THEN pc' = [pc EXCEPT ![r] = "done"] /\ taken' = [taken EXCEPT ![r] = 0]
            ELSE pc' = [pc EXCEPT ![r] = "streaming"] /\ taken' = [taken EXCEPT ![r] = n]
       /\ \E t \in Restorations(chunk, mine[r]) : Deliver(r, t)
  /\ UNCHANGED <<failOpen, store, working, out>>

\* The next chunk of a stream, on its own, with all mappings of the session;
\* when they cannot be read the chunk goes through as it is.
RestoreChunk(r) ==
  /\ pc[r] \in {"sent", "streaming"}
  /\ \E n \in (taken[r] + 1)..Len(out[r]) :
       LET chunk == SubSeq(out[r], taken[r] + 1, n) IN
       /\ IF n = Len(out[r])
            THEN pc' = [pc EXCEPT ![r] = "done"] /\ taken' = [taken EXCEPT ![r] = 0]
            ELSE pc' = [pc EXCEPT ![r] = "streaming"] /\ taken' = [taken EXCEPT ![r] = n]
       /\ \/ Answers /\ \E t \in Restorations(chunk, Session) : Deliver(r, t)
          \/ Fails /\ Deliver(r, chunk)
  /\ UNCHANGED <<failOpen, log, working, out>>

-----------------------------------------------------------------------------

Before(r) ==
  Known(r) \/ Unknown(r) \/ Choose(r) \/ Set(r) \/ SetFails(r) \/ Send(r)

After(r) ==
  \/ RestoreOwn(r) \/ RestoreSession(r) \/ SessionFails(r) \/ ProviderFails(r)
  \/ RestoreChunk(r)

Step(r) == Before(r) \/ After(r)

Next == \E r \in Requests : Begin(r) \/ Step(r)

Spec == Init /\ [][Next]_vars

\* The goroutine of a request runs, a provider answers or fails, and the
\* generator draws every pseudonym again and again.
Fairness == \A r \in Requests : WF_vars(Step(r))

FairSpec == Spec /\ Fairness

=============================================================================
