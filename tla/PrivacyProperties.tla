-------------------------- MODULE PrivacyProperties --------------------------
(***************************************************************************)
(* What the privacy gateway promises: nothing that was detected leaves,    *)
(* and the user gets back what he wrote.                                   *)
(***************************************************************************)
EXTENDS Privacy

WordsOf(S) == UNION {Range(v) : v \in S}

Left(r) == pc[r] \in {"sent", "streaming", "done"}

Undetected(r) == Range(text[r]) \ Range(spans[r])

\* A text may hold v and w across each other: v ends as w begins.
Interlock(v, w) ==
  \E n \in 1..(Len(v) - 1) :
    n < Len(w) /\ SubSeq(v, Len(v) - n + 1, Len(v)) = SubSeq(w, 1, n)

Separable(r) == \A v, w \in Range(spans[r]) : ~Interlock(v, w)

(* A request that has left holds no word of a value that was detected,     *)
(* unless a value that was not detected, or a pseudonym, shares that word; *)
(* and it holds the words of the user only when the gateway fails open     *)
(* (gateway.go 61-62, pseudonymizer.go 96-158): whatever order equal       *)
(* lengths take, and whichever value contains another, as long as no two   *)
(* of them can lie across each other.                                      *)
NothingDetectedLeaves ==
  \A r \in Requests : Left(r) =>
    IF Pending(r)
      THEN failOpen /\ faults > 0
      ELSE Separable(r) =>
             Range(out[r]) \cap WordsOf(Range(spans[r]))
               \subseteq WordsOf(Undetected(r)) \cup WordsOf(Range(repl[r]))

\* The pseudonyms of r can be told apart: each has a word that the user did
\* not write, and none shares a word with another one or with another value
\* that was detected.
Apart(r) ==
  \A i \in 1..Len(repl[r]) :
    LET others == (1..Len(repl[r])) \ {i} IN
    /\ ~(Range(repl[r][i]) \subseteq Range(FlattenSeq(text[r])))
    /\ Range(repl[r][i]) \cap WordsOf({spans[r][j] : j \in others} \cup {repl[r][j] : j \in others}) = {}

\* Every pseudonym of r leads back to its value by the mappings, and no
\* mapping touches another word that r sent or that the user wrote.
Undone(r, mappings) ==
  /\ Range(Replacements(r)) \subseteq mappings
  /\ \A m \in mappings :
       \/ m \in Range(Replacements(r))
       \/ Range(m.fake) \cap (Range(out[r]) \cup Range(FlattenSeq(text[r]))) = {}

(* An answer that repeats the request is restored to the words of the      *)
(* user, in whatever order the mappings are applied and whatever the other *)
(* requests of the session do, when all of its values were new to the      *)
(* session; when none was, as long as the session still leads every one of *)
(* its pseudonyms back (pseudonymizer.go 192-269, gateway.go 262-296).     *)
RestoredExactly ==
  [][\A r \in Requests :
       /\ pc[r] = "sent" /\ pc'[r] = "done"
       /\ \/ RestoreOwn(r) /\ Cardinality(mine[r]) = Len(spans[r])
          \/ RestoreSession(r) /\ Undone(r, Session)
       /\ Apart(r)
       => result'[r] = FlattenSeq(text[r])]_vars

\* The words 1..n of what r sent end within a pseudonym.
Splits(r, n) ==
  \E f \in Range(repl[r]) : \E k \in 1..(Len(f) - 1) :
    /\ IsSuffix(SubSeq(f, 1, k), SubSeq(out[r], 1, n))
    /\ IsPrefix(SubSeq(f, k + 1, Len(f)), SubSeq(out[r], n + 1, Len(out[r])))

\* What has not come back yet, and whether it completes what has to what the
\* user wrote.
ToCome(r) == IF pc[r] = "done" THEN <<>> ELSE SubSeq(out[r], taken[r] + 1, Len(out[r]))

OnTrack(r) ==
  \E rest \in Restorations(ToCome(r), Session) : result[r] \o rest = FlattenSeq(text[r])

(* A stream is restored like a whole answer, chunk by chunk and whichever  *)
(* of the values were new, as long as no chunk begins or ends within a     *)
(* pseudonym: what the user has seen stays what he wrote, up to the words  *)
(* still to come (gateway.go 309-318, pseudonymizer.go 279-306).           *)
StreamRestored ==
  [][\A r \in Requests :
       /\ RestoreChunk(r) /\ faults' = faults
       /\ Apart(r) /\ Undone(r, Session)
       /\ ~Splits(r, taken[r]) /\ ~Splits(r, taken'[r])
       /\ pc[r] = "sent" \/ OnTrack(r)
       => OnTrack(r)']_vars

\* Two requests gave the same pseudonym to different values.
Raced(f) ==
  \E r1, r2 \in Requests : \E m1 \in mine[r1], m2 \in mine[r2] :
    r1 # r2 /\ m1.fake = f /\ m2.fake = f /\ m1.original # m2.original

(* The two directions of the store agree: the pseudonym of a value leads   *)
(* back to it, unless two requests raced for the pseudonym or a lookup     *)
(* failed (pseudonymizer.go 112-131, pebble.go 105-122).                   *)
DirectionsAgree ==
  faults = 0 =>
    \A o \in Originals : OriginalOf(FakeOf(o)) = o \/ Raced(FakeOf(o))

\* The generator has no pseudonym left for the value in hand.
Exhausted(r) == pc[r] = "generate" /\ Generate(Current(r)) \subseteq Fakes

(* Every request is answered or refused, unless the session has used up    *)
(* all pseudonyms that the generator can draw for one of its values: the   *)
(* loop has no other way out, not even ctx (pseudonymizer.go 121-127).     *)
RequestEnds ==
  \A r \in Requests :
    pc[r] = "lookup" ~> pc[r] \in {"done", "blocked", "failed"} \/ Exhausted(r)

=============================================================================
