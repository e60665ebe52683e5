------------------------------ MODULE Detector ------------------------------
(***************************************************************************)
(* The detector of the privacy gateway: the adapter                        *)
(* (privacy/model_adapter.go), the load balancer over several backends     *)
(* (privacy/model/loadbalancer.go), the retries of the HTTP client         *)
(* (privacy/model/http.go) and the loop of health checks.                  *)
(*                                                                         *)
(* A call hands over the texts of a request.  Stage 0 sends them all to    *)
(* one backend after the other; when it fails, stage i sends text i alone. *)
(* healthy and latency are atomics that calls and the loop share; the      *)
(* loads of pickOrder are taken as one step.                               *)
(***************************************************************************)
EXTENDS Integers, Sequences, FiniteSets, SequencesExt

CONSTANTS
  N,          \* backends, in their configured order
  Strategies,
  Calls,
  TextsOf,    \* of each call, the number of its texts
  Hasty,      \* calls whose contexts may end
  Retries,    \* of the HTTP client: 2
  Half,       \* of the values of the counter idx, from where it is negative: 2^63
  Duration,   \* of each call, what an answer takes
  Default,    \* defaultLatencyNs
  Flaky,      \* the backends that may go down and come back
  MaxFlips    \* how often they do

Backends == 1..N

ASSUME DetectorAssumption ==
  /\ N \in Nat \ {0}
  /\ Strategies \subseteq {"RoundRobin", "Random", "LeastLatency"}
  /\ TextsOf \in [Calls -> Nat \ {0}]
  /\ Hasty \subseteq Calls /\ Flaky \subseteq Backends
  /\ Retries \in Nat /\ Half \in Nat \ {0} /\ MaxFlips \in Nat
  /\ Duration \in [Calls -> Nat] /\ Default \in Nat

VARIABLES
  strategy,
  up,       \* the backends that work
  flips,
  healthy,
  latency,
  idx,
  pc,
  stage,
  order,    \* the backends the call has still to try, from the one it is at
  tries,    \* attempts at it
  expired,  \* the context of the stage is done
  old,      \* the latency that updateLatency has read
  scanned,  \* the texts whose spans the gateway gets
  loop,     \* "probe", "store", "sleep" or "stopped"
  at,       \* the backend that the loop is at
  answer,   \* of its check
  usable    \* the backends that no other has marked and that worked all through the stage

backends == <<up, flips>>
balancer == <<strategy, healthy, latency, idx>>
caller == <<pc, stage, order, tries, expired, old, scanned>>
checks == <<loop, at, answer>>
vars == <<backends, balancer, caller, checks, usable>>

Durations == {Duration[c] : c \in Calls}

Cell == INSTANCE LatencyCell
Ewma(o, d) == Cell!Ewma(o, d)

Labels == {"pick", "check", "attempt", "mark", "load", "cas", "done"}

TypeOK ==
  /\ strategy \in Strategies
  /\ up \subseteq Backends /\ flips \in 0..MaxFlips
  /\ healthy \subseteq Backends
  /\ latency \in [Backends -> Nat]
  /\ idx \in 0..(2 * Half - 1)
  /\ pc \in [Calls -> Labels]
  /\ stage \in [Calls -> Nat]
  /\ order \in [Calls -> Seq(Backends)]
  /\ tries \in [Calls -> 0..Retries]
  /\ scanned \in [Calls -> SUBSET Nat]
  /\ \A c \in Calls :
       /\ stage[c] <= TextsOf[c]
       /\ pc[c] \in {"attempt", "mark", "load", "cas"} => order[c] # <<>>
       /\ scanned[c] \subseteq 1..TextsOf[c]
  /\ expired \in [Calls -> BOOLEAN]
  /\ old \in [Calls -> Nat]
  /\ loop \in {"probe", "store", "sleep", "stopped"}
  /\ at \in Backends /\ answer \in BOOLEAN
  /\ usable \in [Calls -> SUBSET Backends]

\* A new backend is taken for healthy, and for slow.
Init ==
  /\ strategy \in Strategies
  /\ \E down \in SUBSET Flaky : up = Backends \ down
  /\ flips = 0
  /\ healthy = Backends
  /\ latency = [b \in Backends |-> Default]
  /\ idx = 0
  /\ pc = [c \in Calls |-> "pick"]
  /\ stage = [c \in Calls |-> 0]
  /\ order = [c \in Calls |-> <<>>]
  /\ tries = [c \in Calls |-> 0]
  /\ expired = [c \in Calls |-> FALSE]
  /\ old = [c \in Calls |-> 0]
  /\ scanned = [c \in Calls |-> {}]
  /\ loop = "probe" /\ at = 1 /\ answer = FALSE
  /\ usable = [c \in Calls |-> {}]

Goto(c, from, to) == pc[c] = from /\ pc' = [pc EXCEPT ![c] = to]

\* What others do to b counts, not what the call does itself.
Lose(b, S) == usable' = [c \in Calls |-> IF c \in S THEN usable[c] \ {b} ELSE usable[c]]

-----------------------------------------------------------------------------
(* The backends *)

GoesDown(b) ==
  /\ b \in Flaky \cap up /\ flips < MaxFlips
  /\ up' = up \ {b} /\ flips' = flips + 1
  /\ Lose(b, Calls)
  /\ UNCHANGED <<balancer, caller, checks>>

ComesBack(b) ==
  /\ b \in Flaky \ up /\ flips < MaxFlips
  /\ up' = up \cup {b} /\ flips' = flips + 1
  /\ UNCHANGED <<balancer, caller, checks, usable>>

-----------------------------------------------------------------------------
(* Detect and DetectBatch *)

\* int(idx.Add(1)) % n, with a result below 0 taken for 0.
Count == (idx + 1) % (2 * Half)
Signed(i) == IF i < Half THEN i ELSE i - 2 * Half
Start(i) == IF Signed(i) < 0 THEN 0 ELSE Signed(i) % N

Rotated(k) == [i \in Backends |-> ((k + i - 1) % N) + 1]

ByLatency(S) ==
  {q \in SetToSeqs(S) : \A i, j \in 1..Len(q) : i < j => latency[q[i]] <= latency[q[j]]}

PickOrder ==
  CASE strategy = "Random" -> SetToSeqs(Backends)
    [] strategy = "LeastLatency" ->
         IF healthy = {} THEN {Rotated(0)} ELSE ByLatency(healthy)
    [] OTHER -> {Rotated(Start(Count))}

Pick(c) ==
  /\ Goto(c, "pick", "check")
  /\ order' \in {[order EXCEPT ![c] = q] : q \in PickOrder}
  /\ idx' = IF strategy = "RoundRobin" THEN Count ELSE idx
  /\ usable' = [usable EXCEPT ![c] = healthy \cap up]
  /\ UNCHANGED <<backends, strategy, healthy, latency, stage, tries, expired, old, scanned, checks>>

Backend(c) == Head(order[c])
Advance(c) == order' = [order EXCEPT ![c] = Tail(@)]

\* A backend that is marked unhealthy is not tried.
Check(c) ==
  /\ order[c] # <<>>
  /\ tries' = [tries EXCEPT ![c] = 0]
  /\ \/ Backend(c) \in healthy /\ Goto(c, "check", "attempt") /\ UNCHANGED order
     \/ Backend(c) \notin healthy /\ Advance(c) /\ pc[c] = "check" /\ UNCHANGED pc
  /\ UNCHANGED <<backends, balancer, stage, expired, old, scanned, checks, usable>>

Answers(c) == Backend(c) \in up /\ ~expired[c]

Attempt(c) ==
  /\ Goto(c, "attempt", "load")
  /\ Answers(c)
  /\ UNCHANGED <<backends, balancer, stage, order, tries, expired, old, scanned, checks, usable>>

\* A single text is tried again, a batch of several is not.
TriesLeft(c) ==
  tries[c] < (IF stage[c] = 0 /\ TextsOf[c] > 1 THEN 0 ELSE Retries) /\ ~expired[c]

AttemptFails(c) ==
  /\ pc[c] = "attempt" /\ ~Answers(c)
  /\ IF TriesLeft(c)
       THEN tries' = [tries EXCEPT ![c] = @ + 1] /\ UNCHANGED pc
       ELSE pc' = [pc EXCEPT ![c] = "mark"] /\ UNCHANGED tries
  /\ UNCHANGED <<backends, balancer, stage, order, expired, old, scanned, checks, usable>>

\* Mutant: the first failure ends the stage.
MarkAndGiveUp(c) ==
  /\ Goto(c, "mark", "check")
  /\ healthy' = healthy \ {Backend(c)}
  /\ Lose(Backend(c), Calls \ {c})
  /\ order' = [order EXCEPT ![c] = <<>>]
  /\ UNCHANGED <<backends, strategy, latency, idx, stage, tries, expired, old, scanned, checks>>

Mark(c) ==
  /\ Goto(c, "mark", "check")
  /\ healthy' = healthy \ {Backend(c)}
  /\ Lose(Backend(c), Calls \ {c})
  /\ Advance(c)
  /\ UNCHANGED <<backends, strategy, latency, idx, stage, tries, expired, old, scanned, checks>>

\* updateLatency
Load(c) ==
  /\ Goto(c, "load", "cas")
  /\ old' = [old EXCEPT ![c] = latency[Backend(c)]]
  /\ UNCHANGED <<backends, balancer, stage, order, tries, expired, scanned, checks, usable>>

\* The adapter goes on to the next text, or returns.
NextStage(c, last) ==
  /\ IF last
       THEN UNCHANGED stage /\ pc' = [pc EXCEPT ![c] = "done"]
       ELSE stage' = [stage EXCEPT ![c] = @ + 1] /\ pc' = [pc EXCEPT ![c] = "pick"]
  /\ order' = [order EXCEPT ![c] = <<>>]
  /\ tries' = [tries EXCEPT ![c] = 0] /\ old' = [old EXCEPT ![c] = 0]
  /\ expired' = [expired EXCEPT ![c] = FALSE]
  /\ usable' = [usable EXCEPT ![c] = {}]

\* Stage 0 answers for all texts, and is the last if it succeeds.
Scanned(c) == IF stage[c] = 0 THEN 1..TextsOf[c] ELSE {stage[c]}

\* Mutant: a store that does not compare.
BlindStore(c) ==
  /\ pc[c] = "cas"
  /\ latency' = [latency EXCEPT ![Backend(c)] = Ewma(old[c], Duration[c])]
  /\ scanned' = [scanned EXCEPT ![c] = @ \cup Scanned(c)]
  /\ NextStage(c, stage[c] \in {0, TextsOf[c]})
  /\ UNCHANGED <<backends, strategy, healthy, idx, checks>>

CompareAndSwap(c) ==
  /\ pc[c] = "cas"
  /\ latency[Backend(c)] = old[c]
  /\ latency' = [latency EXCEPT ![Backend(c)] = Ewma(old[c], Duration[c])]
  /\ scanned' = [scanned EXCEPT ![c] = @ \cup Scanned(c)]
  /\ NextStage(c, stage[c] \in {0, TextsOf[c]})
  /\ UNCHANGED <<backends, strategy, healthy, idx, checks>>

SwapFails(c) ==
  /\ Goto(c, "cas", "load")
  /\ latency[Backend(c)] # old[c]
  /\ UNCHANGED <<backends, balancer, stage, order, tries, expired, old, scanned, checks, usable>>

\* No backend is left.  The adapter answers "no spans" for a single text.
StageFails(c) ==
  /\ pc[c] = "check" /\ order[c] = <<>>
  /\ NextStage(c, stage[c] = TextsOf[c])
  /\ UNCHANGED <<backends, balancer, scanned, checks>>

\* The timeout of the stage: 30 seconds for the batch, 15 for a text.
Expire(c) ==
  /\ c \in Hasty /\ pc[c] = "attempt" /\ ~expired[c]
  /\ expired' = [expired EXCEPT ![c] = TRUE]
  /\ UNCHANGED <<backends, balancer, pc, stage, order, tries, old, scanned, checks, usable>>

-----------------------------------------------------------------------------
(* The loop of health checks *)

Probe ==
  /\ loop = "probe"
  /\ answer' = (at \in up)
  /\ loop' = "store"
  /\ UNCHANGED <<backends, balancer, caller, at, usable>>

\* Mutant: only failures are recorded.
StoreFailures ==
  /\ loop = "store"
  /\ IF answer
       THEN UNCHANGED <<healthy, usable>>
       ELSE healthy' = healthy \ {at} /\ Lose(at, Calls)
  /\ IF at < N
       THEN at' = at + 1 /\ loop' = "probe"
       ELSE at' = 1 /\ loop' = "sleep"
  /\ answer' = FALSE
  /\ UNCHANGED <<backends, strategy, latency, idx, caller>>

Store ==
  /\ loop = "store"
  /\ IF answer
       THEN healthy' = healthy \cup {at} /\ UNCHANGED usable
       ELSE healthy' = healthy \ {at} /\ Lose(at, Calls)
  /\ IF at < N
       THEN at' = at + 1 /\ loop' = "probe"
       ELSE at' = 1 /\ loop' = "sleep"
  /\ answer' = FALSE
  /\ UNCHANGED <<backends, strategy, latency, idx, caller>>

Tick ==
  /\ loop = "sleep" /\ loop' = "probe"
  /\ UNCHANGED <<backends, balancer, caller, at, answer, usable>>

\* Close: the loop sees stopHC when it sleeps.
Stop ==
  /\ loop = "sleep" /\ loop' = "stopped"
  /\ UNCHANGED <<backends, balancer, caller, at, answer, usable>>

-----------------------------------------------------------------------------

Step(c) ==
  \/ Pick(c) \/ Check(c) \/ Attempt(c) \/ AttemptFails(c) \/ Mark(c)
  \/ Load(c) \/ CompareAndSwap(c) \/ SwapFails(c) \/ StageFails(c)

HealthStep == Probe \/ Store \/ Tick

Next ==
  \/ \E b \in Backends : GoesDown(b) \/ ComesBack(b)
  \/ \E c \in Calls : Step(c) \/ Expire(c)
  \/ HealthStep \/ Stop

Spec == Init /\ [][Next]_vars

\* The goroutine of the loop runs, a check ends, the ticker ticks.
Fairness == WF_vars(HealthStep)

FairSpec == Spec /\ Fairness

=============================================================================
