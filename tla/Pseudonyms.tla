----------------------------- MODULE Pseudonyms -----------------------------
(***************************************************************************)
(* The pure part of the privacy gateway: the generator of pseudonyms       *)
(* (privacy/generator.go) and the replacement of values in a text          *)
(* (privacy/pseudonymizer.go).                                             *)
(*                                                                         *)
(* A text is a sequence of words, and a value is a non-empty one: a name   *)
(* is one word, the e-mail address bob@corp two, bob and corp, so that a   *)
(* value may contain another.  The length of a value is its number of      *)
(* words.                                                                  *)
(***************************************************************************)
EXTENDS Integers, Sequences, FiniteSets, SequencesExt

CONSTANTS
  Words,
  Kind,   \* of each value, the label that the detector gives it
  Pool,   \* of each kind, the words that the generator draws
  Alike   \* of each word, those with the same classes of characters

Values == DOMAIN Kind

\* Drawn without a look at the value: fakeIP, fakeDomain, fakeName, ...
Drawn == {"ip", "domain", "person", "idcard", "address", "url", "date"}

ASSUME PseudonymsAssumption ==
  /\ Values \subseteq Seq(Words) \ {<<>>}
  /\ \A k \in DOMAIN Pool : Pool[k] \subseteq Words
  /\ \A v \in Values : Kind[v] \in Drawn \cup {"email"} => Kind[v] \in DOMAIN Pool
  /\ \A w \in DOMAIN Alike : w \in Alike[w] /\ Alike[w] \subseteq Words
  /\ "*" \in Words

\* An e-mail address keeps its domain.
FakeEmail(value) == {<<w>> \o Tail(value) : w \in Pool["email"]}

\* A phone number or a secret keeps the class of every character: digits,
\* capitals, small letters, and all others as they are.
FakeShaped(value) ==
  {f \in [1..Len(value) -> Words] : \A i \in 1..Len(value) : f[i] \in Alike[value[i]]}

GenericMask(value) == [i \in 1..Len(value) |-> "*"]

\* What Generate may return.
Generate(value) ==
  CASE Kind[value] \in Drawn -> {<<w>> : w \in Pool[Kind[value]]}
    [] Kind[value] = "email" -> FakeEmail(value)
    [] Kind[value] \in {"phone", "secret"} -> FakeShaped(value)
    [] OTHER -> {GenericMask(value)}

\* strings.ReplaceAll: from the left, without overlap.
Substitute(text, old, new) ==
  LET found(i) == i + Len(old) - 1 <= Len(text) /\ SubSeq(text, i, i + Len(old) - 1) = old
      from[i \in 1..(Len(text) + 1)] ==
        IF i > Len(text) THEN <<>>
        ELSE IF found(i) THEN new \o from[i + Len(old)]
        ELSE <<text[i]>> \o from[i + 1]
  IN  from[1]

\* The orders that sort.Slice may leave a set in: it is not stable.
LongestFirst(S, length) ==
  {q \in SetToSeqs(S) : \A i, j \in 1..Len(q) : i < j => length[q[i]] >= length[q[j]]}

\* A mapping is a record of an original and its pseudonym.

\* Mutant: the shortest first.
PseudonymizeBackwards(text, mappings) ==
  FoldRight(LAMBDA m, t : Substitute(t, m.original, m.fake), mappings, text)

\* Every original of the mappings, in their order, gives way to its pseudonym.
Pseudonymize(text, mappings) ==
  FoldLeft(LAMBDA t, m : Substitute(t, m.original, m.fake), text, mappings)

\* replaceFake for every mapping.  Its passes over punctuation find nothing
\* that the first one has left.
Restore(text, mappings) ==
  FoldLeft(LAMBDA t, m : Substitute(t, m.fake, m.original), text, mappings)

\* restoreWithEntries and RestoreStreamChunk: the longest pseudonym first.
Restorations(text, entries) ==
  {Restore(text, q) : q \in LongestFirst(entries, [m \in entries |-> Len(m.fake)])}

=============================================================================
