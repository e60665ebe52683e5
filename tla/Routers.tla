------------------------------- MODULE Routers -------------------------------
(***************************************************************************)
(* The strategies of core/router.go.  A provider is its place in the list  *)
(* of candidates; avail is the set of the available ones, health gives of  *)
(* each its average latency in ms and its success rate in thousandths, and *)
(* counter is the atomic that a router counts its calls with.  A strategy  *)
(* answers with a set, empty when it returns an error; the round robin,    *)
(* whose index is signed, panics on a negative one.                        *)
(***************************************************************************)
EXTENDS Integers, Sequences, FiniteSets, SequencesExt, FiniteSetsExt

CONSTANTS
  N,          \* candidates
  Width,      \* of the counter, in bits: 64
  Golden      \* the golden ratio in Width bits: 0x9E3779B97F4A7C15

ASSUME RoutersAssumption ==
  /\ N \in Nat \ {0} /\ Width \in Nat \ {0}
  /\ Golden \in 0..(2^Width - 1)

Providers == 1..N

Count(counter, n) == (counter + n) % 2^Width

InOrder(avail) == SetToSortSeq(avail, <)

-----------------------------------------------------------------------------
(* Scores, in thousandths *)

LatencyScore(h) == 1000000 \div (1000 + h.latency)

Score(weights, h) ==
  CASE weights = "latency" -> LatencyScore(h)
    [] weights = "success_rate" -> h.rate
    [] weights = "combined" -> (LatencyScore(h) + h.rate) \div 2
    [] OTHER -> 1000

Total(weights, S, health) == MapThenSumSet(LAMBDA i : Score(weights, health[i]), S)

-----------------------------------------------------------------------------
(* Select *)

Half == 2^(Width - 1)
Signed(counter) == IF counter < Half THEN counter ELSE counter - 2^Width

\* The remainder has the sign of the dividend.
Remainder(i, n) == IF i < 0 THEN -(-i % n) ELSE i % n

\* An index into the available providers, in both operations.
Index(avail, counter) == Remainder(Signed(counter), Cardinality(avail))

Panics(router, avail, counter) ==
  router.strategy = "round-robin" /\ avail # {} /\ Index(avail, counter) < 0

RoundRobin(avail, counter) == {InOrder(avail)[Index(avail, counter) + 1]}

\* Mutant: the counter itself is the target.
PlainTarget(counter) == Count(counter, 1) % (2^Width - 1)

Target(counter) == ((Count(counter, 1) * Golden) % 2^Width) % (2^Width - 1)

\* The first candidate whose accumulated weight reaches the target, which is
\* Target(counter) / (2^Width - 1) of the total.  The fallback for weights of
\* 0 is a new round-robin router: its counter is 0.
Weighted(weights, avail, health, counter) ==
  LET total == Total(weights, avail, health)
      reached(i) ==
        Total(weights, {j \in avail : j <= i}, health) * (2^Width - 1)
          >= Target(counter) * total
  IN  IF total = 0 \/ Cardinality(avail) = 1
        THEN RoundRobin(avail, 0)
        ELSE {Min({i \in avail : reached(i)})}

\* Of the operations that follow, none is asked where the router panics.
\* A router is a record of its strategy, and the name or the weights it needs.
\* This is the one that a configuration stands for.
BuildRouter(strategy, weights) ==
  CASE strategy \in {"round-robin", "random"} -> [strategy |-> strategy]
    [] strategy = "weighted" ->
         [strategy |-> "weighted",
          weights |-> IF weights \in {"latency", "success_rate"} THEN weights ELSE "combined"]
    [] OTHER -> [strategy |-> "primary"]

Select(router, avail, health, counter) ==
  CASE router.strategy = "single" -> avail \cap {router.name}
    [] avail = {} -> {}
    [] router.strategy = "round-robin" -> RoundRobin(avail, counter)
    [] router.strategy = "random" -> avail
    [] router.strategy = "weighted" -> Weighted(router.weights, avail, health, counter)
    [] OTHER -> {Min(avail)}

\* The counter after Select.
Selected(router, avail, health, counter) ==
  IF \/ router.strategy = "round-robin" /\ avail # {}
     \/ /\ router.strategy = "weighted" /\ Cardinality(avail) > 1
        /\ Total(router.weights, avail, health) > 0
    THEN Count(counter, 1) ELSE counter

-----------------------------------------------------------------------------
(* SelectSequence *)

Swapped(q, i, j) == [q EXCEPT ![i] = q[j], ![j] = q[i]]

\* The exchange sort: i against every j behind it.
ByScore(q, score) ==
  LET pairs == SetToSortSeq({p \in (1..Len(q)) \X (1..Len(q)) : p[1] < p[2]},
                 LAMBDA a, b : a[1] < b[1] \/ (a[1] = b[1] /\ a[2] < b[2]))
  IN  FoldLeft(LAMBDA r, p : IF score[r[p[2]]] > score[r[p[1]]] THEN Swapped(r, p[1], p[2]) ELSE r,
               q, pairs)

Rotation(q, start) == [i \in DOMAIN q |-> q[((start + i - 1) % Len(q)) + 1]]

SelectSequence(router, avail, health, counter) ==
  CASE router.strategy = "single" -> {<<i>> : i \in avail \cap {router.name}}
    [] avail = {} -> {}
    [] router.strategy = "round-robin" ->
         {IF Cardinality(avail) > 1 THEN Rotation(InOrder(avail), Index(avail, counter)) ELSE InOrder(avail)}
    [] router.strategy = "random" -> SetToSeqs(avail)
    [] router.strategy = "weighted" ->
         {ByScore(InOrder(avail), [i \in avail |-> Score(router.weights, health[i])])}
    [] OTHER -> {InOrder(avail)}

\* The counter after SelectSequence.
Sequenced(router, avail, counter) ==
  IF router.strategy = "round-robin" /\ Cardinality(avail) > 1
    THEN Count(counter, 1) ELSE counter

=============================================================================
