------------------------- MODULE RequestsProperties -------------------------
(***************************************************************************)
(* What the providers get to see of a request, and what the caller is left *)
(* with.                                                                   *)
(***************************************************************************)
EXTENDS Requests

\* The dual calls whose hooks have edited the array of the caller in place.
Tamperers == {c \in Calls : kind[c] = "dual" /\ ran[c] # <<>> /\ ran[c][1].inPlace}

(* The messages of the caller are his own: whatever calls share them, no   *)
(* call changes them, but for the hooks of a dual call, which runs them    *)
(* before it copies anything (scheduler.go 426-427, 513, 571, 649).        *)
CallerUntouched ==
  SubSeq(cells, 1, Len(given)) = given \/ Tamperers # {}

Copies == Calls \X Turns

Copied(k) == leg[k[1]][k[2]].stage \notin {"idle", "inject"}

\* An empty request with room behind it is not copied, and the templates of
\* several copies are written into the same cell.
Overlaid(k) ==
  given = <<>> /\ cells # <<>> /\ \E o \in Copies \ {k} : Copied(o)

Occurrences(msgs, part) ==
  LET longest == Max({0} \cup {Len(m.parts) : m \in Range(msgs)}) IN
  {o \in (1..Len(msgs)) \X (1..longest) :
     o[2] <= Len(msgs[o[1]].parts) /\ msgs[o[1]].parts[o[2]] = part}

Marks(hooks) == [i \in DOMAIN hooks |-> hooks[i].mark]
AllMarks == UNION {Range(Marks(ch)) : ch \in Chains}

\* The messages of the caller that reach the call: a list of parts does not.
Received(c) == DOMAIN given \ (IF kind[c] = "post" THEN listed ELSE {})

\* Every message of the caller, once and in his order, with the marks of the
\* hooks that the call ran, in their order.
KeepsMessages(msgs, c) ==
  LET found == [i \in DOMAIN given |-> Occurrences(msgs, given[i].parts[1])] IN
  /\ \A i \in Received(c) :
       /\ Cardinality(found[i]) = 1
       /\ \A o \in found[i] :
            /\ msgs[o[1]].role = given[i].role
            /\ SelectSeq(msgs[o[1]].parts, LAMBDA x : x \in AllMarks) = Marks(ran[c])
  /\ \A i, k \in Received(c) : i < k =>
       \A o \in found[i], q \in found[k] : o[1] < q[1]

\* A template is in the message that its position names, before or behind the
\* words of the caller.
InPosition(msgs, tmpl, o) ==
  LET role == IF tmpl.position \in {"prepend_user", "append_user"} THEN "user" ELSE "system"
      places == {i \in DOMAIN msgs : msgs[i].role = role}
      his == {j \in DOMAIN msgs[o[1]].parts :
                \E i \in DOMAIN given : msgs[o[1]].parts[j] = given[i].parts[1]}
  IN  IF tmpl.position = "append_user"
        THEN o[1] = Max(places) /\ \A j \in his : o[2] > j
        ELSE o[1] = Min(places) /\ \A j \in his : o[2] < j

(* What a copy that is ready for a provider becomes on the wire: the       *)
(* prompt of the provider, if it has one, and then the messages of the     *)
(* caller, each template that matches the provider exactly once and in its *)
(* place, no other one, and the marks of the hooks: whatever other copies  *)
(* are under way, whichever providers have failed before, and whenever     *)
(* templates, hooks and prompts are replaced (scheduler.go 460-466,        *)
(* 538-577, prompt.go 104-181, providers.go 773-783).  A system template   *)
(* is put before the system message of the caller, which stays, although   *)
(* the comments of prompt.go, lines 95 and 146, speak of replacing it.     *)
SentFaithful ==
  \A k \in Copies :
    LET l == leg[k[1]][k[2]]
        p == order[k[1]][k[2]]
        wire == Wire(p, View(l.slice))
        msgs == IF prompt[p] = "" THEN wire ELSE Tail(wire) IN
    l.stage = "ready" /\ Tamperers \subseteq {k[1]} /\ ~Overlaid(k) =>
      /\ Cardinality(Occurrences(wire, prompt[p])) = IF prompt[p] = "" THEN 0 ELSE 1
      /\ KeepsMessages(msgs, k[1])
      /\ \A t \in DOMAIN l.list :
           LET places == Occurrences(msgs, l.list[t].content) IN
           IF Matches(l.list[t], p)
             THEN Cardinality(places) = 1 /\ \A o \in places : InPosition(msgs, l.list[t], o)
             ELSE places = {}

\* How many of the k calls after the counter from go to i.
Share(i, from, k) ==
  Cardinality({n \in 0..(k - 1) : i \in Select(router, avail, health, Count(from, n))})

Weight(i) ==
  IF router.strategy = "weighted" THEN Score(router.weights, health[i]) ELSE 1

(* Of any run of up to 2^(Width-1) calls each available provider gets its  *)
(* share: from the round robin to less than one call, as long as its       *)
(* counter is below 2^(Width-1), beyond which it panics; from the weighted *)
(* router, unless all weights are 0, to less than three calls, wherever its*)
(* counter stands.  Three is a bound for counters of a few bits, not for 64*)
(* (router.go 129-157, 271-322).                                           *)
SharesFair ==
  LET weight == FoldFunctionOnSet(+, 0, [i \in Providers |-> Weight(i)], avail)
      slack == IF router.strategy = "round-robin" THEN 1 ELSE 3
  IN  (\A c \in Calls : at[c] = "new") /\ edits = 0 /\ weight > 0
        /\ router.strategy \in {"round-robin", "weighted"} =>
        \A from \in 0..(2^Width - 1), k \in 1..Half : \A i \in avail :
          router.strategy = "weighted" \/ from + k <= Half =>
            LET off == Share(i, from, k) * weight - k * Weight(i) IN
            -slack * weight < off /\ off < slack * weight

=============================================================================
