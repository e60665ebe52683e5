--------------------------- MODULE DetectorProofs ---------------------------
(***************************************************************************)
(* Proofs about the detector: for any number of backends, of calls and of  *)
(* texts, any strategy, and a counter of any width.                        *)
(***************************************************************************)
EXTENDS DetectorProperties, FiniteSetTheorems, SequenceTheorems, TLAPS

-----------------------------------------------------------------------------
(* The orders that pickOrder returns *)

LEMMA BackendsFinite == IsFiniteSet(Backends)
  BY DetectorAssumption, FS_Interval DEF Backends

(* A permutation of S is a sequence that holds every element of S. *)
LEMMA Permuted ==
  ASSUME NEW S, IsFiniteSet(S), NEW q \in SetToSeqs(S)
  PROVE  q \in Seq(S) /\ S \subseteq Range(q)
<1> DEFINE n == Cardinality(S)
<1>1. n \in Nat
  BY FS_CardinalityType
<1>2. q \in [1..n -> S] /\ \A i, j \in 1..n : i # j => q[i] # q[j]
  BY Zenon DEF SetToSeqs
<1>3. q \in Injection(1..n, S)
  BY <1>2, Zenon DEF Injection, IsInjective
<1>4. IsFiniteSet(1..n) /\ Cardinality(1..n) = n
  BY <1>1, FS_Interval
<1>5. q \in Surjection(1..n, S)
  BY <1>3, <1>4, FS_Injection
<1>6. \A x \in S : \E i \in 1..n : q[i] = x
  BY <1>5, Zenon DEF Surjection
<1>7. S \subseteq Range(q)
  BY <1>2, <1>6, Zenon DEF Range
<1> QED
  BY <1>1, <1>2, <1>7

(* A rotation of the backends holds all of them. *)
LEMMA RotationComplete ==
  ASSUME NEW k \in 0..(N - 1)
  PROVE  Rotated(k) \in Seq(Backends) /\ Backends \subseteq Range(Rotated(k))
<1>0. N \in Nat \ {0}
  BY DetectorAssumption
<1>1. \A i \in Backends : ((k + i - 1) % N) + 1 \in Backends
  BY <1>0 DEF Backends
<1>2. Rotated(k) \in [1..N -> Backends]
  BY <1>1 DEF Rotated, Backends
<1>3. ASSUME NEW b \in Backends
      PROVE  \E i \in Backends : ((k + i - 1) % N) + 1 = b
  <2>1. CASE b > k
    <3>1. b - k \in Backends /\ k + (b - k) - 1 = b - 1
      BY <1>0, <2>1 DEF Backends
    <3>2. (b - 1) % N = b - 1
      BY <1>0 DEF Backends
    <3>3. ((k + (b - k) - 1) % N) + 1 = b
      BY <1>0, <3>1, <3>2 DEF Backends
    <3> QED
      BY <3>1, <3>3, Zenon
  <2>2. CASE b <= k
    <3>1. b - k + N \in Backends /\ k + (b - k + N) - 1 = b - 1 + N
      BY <1>0, <2>2 DEF Backends
    <3>2. (b - 1 + N) % N = b - 1
      BY <1>0 DEF Backends
    <3>3. ((k + (b - k + N) - 1) % N) + 1 = b
      BY <1>0, <3>1, <3>2 DEF Backends
    <3> QED
      BY <3>1, <3>3, Zenon
  <2> QED
    BY <1>0, <2>1, <2>2 DEF Backends
<1>4. Backends \subseteq Range(Rotated(k))
  BY <1>3, Zenon DEF Range, Rotated
<1> QED
  BY <1>0, <1>2, <1>4

LEMMA CountBounded ==
  ASSUME idx \in 0..(2 * Half - 1)
  PROVE  Count \in 0..(2 * Half - 1)
<1>1. Half \in Nat \ {0}
  BY DetectorAssumption
<1>2. \A a \in Nat, m \in Nat \ {0} : a % m \in 0..(m - 1)
  OBVIOUS
<1> QED
  BY <1>1, <1>2 DEF Count

LEMMA StartBounded ==
  ASSUME NEW i \in 0..(2 * Half - 1)
  PROVE  Start(i) \in 0..(N - 1)
<1>1. N \in Nat \ {0} /\ Half \in Nat \ {0}
  BY DetectorAssumption
<1>2. Signed(i) \in Int
  BY <1>1 DEF Signed
<1>3. Signed(i) >= 0 => Signed(i) % N \in 0..(N - 1)
  BY <1>1, <1>2
<1> QED
  BY <1>1, <1>2, <1>3 DEF Start

(* Whatever the strategy, and wherever the counter stands, the order holds *)
(* every backend that is marked healthy (loadbalancer.go 314-357).         *)
LEMMA OrderComplete ==
  ASSUME strategy \in Strategies, healthy \subseteq Backends,
         idx \in 0..(2 * Half - 1), NEW q \in PickOrder
  PROVE  q \in Seq(Backends) /\ healthy \subseteq Range(q)
<1>1. CASE strategy = "Random"
  <2>1. q \in SetToSeqs(Backends)
    BY <1>1 DEF PickOrder
  <2> QED
    BY <2>1, BackendsFinite, Permuted, Zenon
<1>2. CASE strategy = "LeastLatency" /\ healthy # {}
  <2>1. q \in SetToSeqs(healthy)
    BY <1>2 DEF PickOrder, ByLatency
  <2>2. IsFiniteSet(healthy)
    BY BackendsFinite, FS_Subset
  <2>3. q \in Seq(healthy) /\ healthy \subseteq Range(q)
    BY <2>1, <2>2, Permuted
  <2> QED
    BY <2>3, SeqMonotonic
<1>3. CASE strategy = "LeastLatency" /\ healthy = {}
  <2>1. q = Rotated(0) /\ 0 \in 0..(N - 1)
    BY <1>3, DetectorAssumption DEF PickOrder
  <2> QED
    BY <1>3, <2>1, RotationComplete
<1>4. CASE strategy \notin {"Random", "LeastLatency"}
  <2>1. q = Rotated(Start(Count))
    BY <1>4 DEF PickOrder
  <2> QED
    BY <2>1, CountBounded, StartBounded, RotationComplete
<1> QED
  BY <1>1, <1>2, <1>3, <1>4

LEMMA TailCovers ==
  ASSUME NEW S, NEW q \in Seq(S), q # <<>>
  PROVE  /\ Head(q) \in S /\ Tail(q) \in Seq(S)
         /\ Range(q) \subseteq {Head(q)} \cup Range(Tail(q))
<1>1. /\ Len(q) \in Nat \ {0} /\ DOMAIN q = 1..Len(q)
      /\ Tail(q) \in Seq(S) /\ Len(Tail(q)) = Len(q) - 1
      /\ \A i \in 1..(Len(q) - 1) : Tail(q)[i] = q[i + 1]
      /\ Head(q) = q[1] /\ q[1] \in S
  OBVIOUS
<1>2. DOMAIN Tail(q) = 1..(Len(q) - 1)
  BY <1>1
<1>3. ASSUME NEW i \in 1..Len(q), i # 1
      PROVE  q[i] \in Range(Tail(q))
  <2>1. i - 1 \in DOMAIN Tail(q) /\ Tail(q)[i - 1] = q[i]
    BY <1>1, <1>2, <1>3
  <2> QED
    BY <2>1, Zenon DEF Range
<1> QED
  BY <1>1, <1>3, Zenon DEF Range

-----------------------------------------------------------------------------
(* Type correctness *)

\* What TypeOK says of the variables of the calls.
CallerType ==
  /\ pc \in [Calls -> Labels]
  /\ stage \in [Calls -> Nat]
  /\ order \in [Calls -> Seq(Backends)]
  /\ tries \in [Calls -> 0..Retries]
  /\ scanned \in [Calls -> SUBSET Nat]
  /\ \A c \in Calls :
       /\ stage[c] <= TextsOf[c]
       /\ pc[c] \in {"attempt", "mark", "load", "cas"} => order[c] # <<>>
       /\ scanned[c] \subseteq 1..TextsOf[c]
  /\ expired \in [Calls -> BOOLEAN]
  /\ old \in [Calls -> Nat]

SharedType ==
  /\ strategy \in Strategies
  /\ up \subseteq Backends /\ flips \in 0..MaxFlips
  /\ healthy \subseteq Backends
  /\ latency \in [Backends -> Nat]
  /\ idx \in 0..(2 * Half - 1)

LoopType ==
  /\ loop \in {"probe", "store", "sleep", "stopped"}
  /\ at \in Backends /\ answer \in BOOLEAN

UsableType == usable \in [Calls -> SUBSET Backends]

LEMMA TypeParts == TypeOK <=> CallerType /\ SharedType /\ LoopType /\ UsableType
  BY Zenon DEF TypeOK, CallerType, SharedType, LoopType, UsableType

LEMMA TypePartsNext ==
  CallerType' /\ SharedType' /\ LoopType' /\ UsableType' => TypeOK'
  BY Zenon DEF TypeOK, CallerType, SharedType, LoopType, UsableType

LEMMA Constants ==
  /\ N \in Nat \ {0} /\ Backends = 1..N /\ Retries \in Nat /\ Half \in Nat \ {0}
  /\ MaxFlips \in Nat /\ Default \in Nat
  /\ \A c \in Calls : TextsOf[c] \in Nat \ {0} /\ Duration[c] \in Nat
  BY DetectorAssumption DEF Backends

LEMMA TypeInit == Init => TypeOK
<1> SUFFICES ASSUME Init PROVE TypeOK
  OBVIOUS
<1>1. CallerType
  BY Constants DEF Init, CallerType, Labels
<1>2. SharedType
  <2>1. strategy \in Strategies /\ up \subseteq Backends /\ flips \in 0..MaxFlips
    BY Constants DEF Init
  <2>2. healthy \subseteq Backends /\ latency \in [Backends -> Nat] /\ idx \in 0..(2 * Half - 1)
    BY Constants DEF Init
  <2> QED
    BY <2>1, <2>2 DEF SharedType
<1>3. LoopType
  <2>1. at \in Backends
    BY Constants DEF Init
  <2> QED
    BY <2>1, Zenon DEF Init, LoopType
<1>4. UsableType
  BY DEF Init, UsableType
<1> QED
  BY <1>1, <1>2, <1>3, <1>4, TypeParts

LEMMA LoseType ==
  ASSUME UsableType, NEW b, NEW S, Lose(b, S)
  PROVE  UsableType'
  BY DEF UsableType, Lose

\* A step of a call that changes its label, and no more of its own than that.
LEMMA GotoType ==
  ASSUME CallerType, NEW c \in Calls, NEW from, NEW to \in Labels,
         Goto(c, from, to),
         to \in {"attempt", "mark", "load", "cas"} => order[c] # <<>>,
         UNCHANGED <<stage, order, tries, expired, scanned>>, old' \in [Calls -> Nat]
  PROVE  CallerType'
<1>1. pc' \in [Calls -> Labels]
  BY Zenon DEF CallerType, Goto
<1>2. ASSUME NEW d \in Calls, pc'[d] \in {"attempt", "mark", "load", "cas"}
      PROVE  order[d] # <<>>
  BY <1>2 DEF CallerType, Goto
<1> QED
  BY <1>1, <1>2 DEF CallerType

LEMMA PickType ==
  ASSUME TypeOK, NEW c \in Calls, Pick(c)
  PROVE  TypeOK'
<1> USE DEF SharedType, LoopType, UsableType
<1>1. PICK q \in PickOrder : order' = [order EXCEPT ![c] = q]
  BY DEF Pick
<1>2. q \in Seq(Backends)
  BY <1>1, OrderComplete DEF TypeOK
<1>3. Count \in 0..(2 * Half - 1)
  BY CountBounded DEF TypeOK
<1>4. CallerType'
  BY <1>1, <1>2, TypeParts DEF CallerType, Pick, Goto, Labels
<1>5. SharedType' /\ LoopType' /\ UsableType'
  BY <1>3, TypeParts DEF Pick, backends, checks
<1> QED
  BY <1>4, <1>5, TypePartsNext

LEMMA CheckType ==
  ASSUME TypeOK, NEW c \in Calls, Check(c)
  PROVE  TypeOK'
<1>1. CallerType /\ SharedType /\ LoopType /\ UsableType
  BY TypeParts
<1>2. Tail(order[c]) \in Seq(Backends) /\ 0 \in 0..Retries
  BY <1>1, Constants, TailCovers DEF Check, CallerType
<1>3. CallerType'
  <2>1. CASE Goto(c, "check", "attempt") /\ UNCHANGED order
    BY <1>1, <1>2, <2>1 DEF CallerType, Check, Goto, Labels
  <2>2. CASE Advance(c) /\ pc[c] = "check" /\ UNCHANGED pc
    BY <1>1, <1>2, <2>2 DEF CallerType, Check, Advance, Labels
  <2> QED
    BY <2>1, <2>2 DEF Check
<1>4. SharedType' /\ LoopType' /\ UsableType'
  BY <1>1 DEF Check, SharedType, LoopType, UsableType, backends, balancer, checks
<1> QED
  BY <1>3, <1>4, TypePartsNext

LEMMA AttemptType ==
  ASSUME TypeOK, NEW c \in Calls, Attempt(c) \/ Load(c) \/ SwapFails(c)
  PROVE  TypeOK'
<1>1. CallerType /\ SharedType /\ LoopType /\ UsableType
  BY TypeParts
<1>2. SharedType' /\ LoopType' /\ UsableType'
  BY <1>1 DEF Attempt, Load, SwapFails, SharedType, LoopType, UsableType, backends, balancer, checks
<1>3. order[c] # <<>>
  BY <1>1 DEF Attempt, Load, SwapFails, Goto, CallerType
<1>4. old' \in [Calls -> Nat]
  <2>1. CASE Load(c)
    <3>1. latency[Backend(c)] \in Nat
      BY <1>1, <1>3, TailCovers DEF CallerType, SharedType, Backend
    <3> QED
      BY <1>1, <2>1, <3>1 DEF Load, CallerType
  <2> QED
    BY <1>1, <2>1 DEF Attempt, SwapFails, CallerType
<1>5. UNCHANGED <<stage, order, tries, expired, scanned>>
  BY DEF Attempt, Load, SwapFails
<1>6. \E from, to \in Labels : Goto(c, from, to)
  BY DEF Attempt, Load, SwapFails, Labels
<1>7. CallerType'
  BY <1>1, <1>3, <1>4, <1>5, <1>6, GotoType
<1> QED
  BY <1>2, <1>7, TypePartsNext

LEMMA AttemptFailsType ==
  ASSUME TypeOK, NEW c \in Calls, AttemptFails(c)
  PROVE  TypeOK'
<1>1. CallerType /\ SharedType /\ LoopType /\ UsableType
  BY TypeParts
<1>2. SharedType' /\ LoopType' /\ UsableType'
  BY <1>1 DEF AttemptFails, SharedType, LoopType, UsableType, backends, balancer, checks
<1>3. TriesLeft(c) => tries[c] + 1 \in 0..Retries
  BY <1>1, Constants DEF TriesLeft, CallerType
<1>4. CallerType'
  BY <1>1, <1>3 DEF AttemptFails, CallerType, Labels
<1> QED
  BY <1>2, <1>4, TypePartsNext

LEMMA MarkType ==
  ASSUME TypeOK, NEW c \in Calls, Mark(c)
  PROVE  TypeOK'
<1>1. CallerType /\ SharedType /\ LoopType /\ UsableType
  BY TypeParts
<1>2. Tail(order[c]) \in Seq(Backends)
  BY <1>1, TailCovers DEF CallerType, Mark, Goto
<1>3. UsableType'
  BY <1>1, LoseType DEF Mark
<1>4. SharedType' /\ LoopType'
  BY <1>1 DEF Mark, SharedType, LoopType, backends, checks
<1>5. CallerType'
  BY <1>1, <1>2 DEF Mark, Advance, Goto, CallerType, Labels
<1> QED
  BY <1>3, <1>4, <1>5, TypePartsNext

LEMMA NextStageType ==
  ASSUME CallerType, UsableType, NEW c \in Calls, NEW last \in BOOLEAN,
         ~last => stage[c] < TextsOf[c], NextStage(c, last),
         scanned' \in [Calls -> SUBSET Nat],
         \A d \in Calls : scanned'[d] \subseteq 1..TextsOf[d]
  PROVE  CallerType' /\ UsableType'
<1>1. UsableType'
  BY DEF UsableType, NextStage
<1>2. stage' \in [Calls -> Nat] /\ \A d \in Calls : stage'[d] <= TextsOf[d]
  <2>1. CASE last
    BY <2>1 DEF NextStage, CallerType
  <2>2. CASE ~last
    <3>1. stage[c] \in Nat /\ TextsOf[c] \in Nat /\ stage[c] < TextsOf[c]
      BY <2>2, Constants DEF CallerType
    <3>2. stage' = [stage EXCEPT ![c] = stage[c] + 1]
      BY <2>2 DEF NextStage
    <3> QED
      BY <3>1, <3>2 DEF CallerType
  <2> QED
    BY <2>1, <2>2
<1>3. pc' \in [Calls -> Labels]
  BY DEF NextStage, CallerType, Labels
<1>4. /\ order' \in [Calls -> Seq(Backends)] /\ tries' \in [Calls -> 0..Retries]
      /\ expired' \in [Calls -> BOOLEAN] /\ old' \in [Calls -> Nat]
  BY Constants DEF NextStage, CallerType
<1>5. ASSUME NEW d \in Calls, pc'[d] \in {"attempt", "mark", "load", "cas"}
      PROVE  order'[d] # <<>>
  <2>1. d # c
    BY <1>5 DEF NextStage, CallerType
  <2> QED
    BY <1>5, <2>1 DEF NextStage, CallerType
<1> QED
  BY <1>1, <1>2, <1>3, <1>4, <1>5 DEF CallerType

LEMMA EwmaType ==
  ASSUME NEW o \in Nat, NEW d \in Nat
  PROVE  Ewma(o, d) \in Nat
  BY DEF Ewma, Cell!Ewma

LEMMA CompareAndSwapType ==
  ASSUME TypeOK, NEW c \in Calls, CompareAndSwap(c)
  PROVE  TypeOK'
<1>1. CallerType /\ SharedType /\ LoopType /\ UsableType
  BY TypeParts
<1>2. Scanned(c) \subseteq 1..TextsOf[c]
  BY <1>1, Constants DEF Scanned, CallerType
<1>3. /\ scanned' \in [Calls -> SUBSET Nat]
      /\ \A d \in Calls : scanned'[d] \subseteq 1..TextsOf[d]
  BY <1>1, <1>2 DEF CompareAndSwap, CallerType
<1>4. stage[c] \notin {0, TextsOf[c]} => stage[c] < TextsOf[c]
  BY <1>1, Constants DEF CallerType
<1>5. CallerType' /\ UsableType'
  <2> DEFINE last == stage[c] \in {0, TextsOf[c]}
  <2>1. last \in BOOLEAN /\ (~last => stage[c] < TextsOf[c]) /\ NextStage(c, last)
    BY <1>4 DEF CompareAndSwap
  <2> HIDE DEF last
  <2> QED
    BY <1>1, <1>3, <2>1, NextStageType
<1>6. Ewma(old[c], Duration[c]) \in Nat
  BY <1>1, Constants, EwmaType DEF CallerType
<1>7. SharedType' /\ LoopType'
  BY <1>1, <1>6 DEF CompareAndSwap, SharedType, LoopType, backends, checks
<1> QED
  BY <1>5, <1>7, TypePartsNext

LEMMA StageFailsType ==
  ASSUME TypeOK, NEW c \in Calls, StageFails(c)
  PROVE  TypeOK'
<1>1. CallerType /\ SharedType /\ LoopType /\ UsableType
  BY TypeParts
<1>2. stage[c] # TextsOf[c] => stage[c] < TextsOf[c]
  BY <1>1, Constants DEF CallerType
<1>3. CallerType' /\ UsableType'
  BY <1>1, <1>2, NextStageType DEF StageFails, CallerType
<1>4. SharedType' /\ LoopType'
  BY <1>1 DEF StageFails, SharedType, LoopType, backends, balancer, checks
<1> QED
  BY <1>3, <1>4, TypePartsNext

LEMMA ExpireType ==
  ASSUME TypeOK, NEW c \in Calls, Expire(c)
  PROVE  TypeOK'
<1>1. CallerType'
  BY TypeParts DEF Expire, CallerType
<1>2. SharedType' /\ LoopType' /\ UsableType'
  BY TypeParts DEF Expire, SharedType, LoopType, UsableType, backends, balancer, checks
<1> QED
  BY <1>1, <1>2, TypePartsNext

LEMMA BackendType ==
  ASSUME TypeOK, NEW b \in Backends, GoesDown(b) \/ ComesBack(b)
  PROVE  TypeOK'
<1>1. CallerType'
  BY TypeParts DEF GoesDown, ComesBack, CallerType, caller
<1>2. UsableType'
  BY TypeParts, LoseType DEF GoesDown, ComesBack, UsableType
<1>3. SharedType' /\ LoopType'
  BY TypeParts, Constants DEF GoesDown, ComesBack, SharedType, LoopType, balancer, checks
<1> QED
  BY <1>1, <1>2, <1>3, TypePartsNext

LEMMA LoopStepType ==
  ASSUME TypeOK, HealthStep \/ Stop
  PROVE  TypeOK'
<1>1. CallerType'
  BY TypeParts DEF HealthStep, Probe, Store, Tick, Stop, CallerType, caller
<1>2. UsableType'
  BY TypeParts, LoseType DEF HealthStep, Probe, Store, Tick, Stop, UsableType
<1>3. SharedType'
  BY TypeParts DEF HealthStep, Probe, Store, Tick, Stop, SharedType, LoopType, backends, balancer
<1>4. LoopType'
  <2>1. CASE Store
    <3>1. at \in 1..N /\ N \in Nat
      BY TypeParts, Constants DEF LoopType
    <3>2. at' \in 1..N
      BY <2>1, <3>1 DEF Store
    <3>3. loop' \in {"probe", "store", "sleep", "stopped"} /\ answer' = FALSE
      BY <2>1 DEF Store
    <3> QED
      BY <3>2, <3>3, Constants, Zenon DEF LoopType
  <2>2. CASE Probe
    BY <2>2, TypeParts DEF Probe, LoopType
  <2>3. CASE Tick \/ Stop
    BY <2>3, TypeParts DEF Tick, Stop, LoopType
  <2> QED
    BY <2>1, <2>2, <2>3 DEF HealthStep
<1> QED
  BY <1>1, <1>2, <1>3, <1>4, TypePartsNext

LEMMA TypeStutter ==
  ASSUME TypeOK, UNCHANGED vars
  PROVE  TypeOK'
  BY Zenon DEF TypeOK, vars, backends, balancer, caller, checks

LEMMA TypeStep == TypeOK /\ [Next]_vars => TypeOK'
<1> SUFFICES ASSUME TypeOK, [Next]_vars PROVE TypeOK'
  OBVIOUS
<1>1. CASE \E b \in Backends : GoesDown(b) \/ ComesBack(b)
  BY <1>1, BackendType
<1>2. CASE \E c \in Calls : Step(c) \/ Expire(c)
  BY <1>2, PickType, CheckType, AttemptType, AttemptFailsType, MarkType,
     CompareAndSwapType, StageFailsType, ExpireType, Zenon DEF Step
<1>3. CASE HealthStep \/ Stop
  BY <1>3, LoopStepType
<1> QED
  BY <1>1, <1>2, <1>3, TypeStutter, Zenon DEF Next

(* Every variable of the detector keeps its type.                          *)
THEOREM TypeCorrect == Spec => []TypeOK
  BY TypeInit, TypeStep, PTL DEF Spec

-----------------------------------------------------------------------------
(* Failover *)

\* The backends that c may still blame nobody for are before it in its order,
\* and the one it is about to mark is not among them.
Ahead(c) ==
  /\ usable[c] \subseteq up \cap healthy
  /\ pc[c] \in {"check", "attempt", "mark"} => usable[c] \subseteq Range(order[c])
  /\ pc[c] = "mark" => Head(order[c]) \notin usable[c]

FailoverInv == \A c \in Calls : expired[c] \/ Ahead(c)

LEMMA FailoverInit == Init => FailoverInv
  BY DEF Init, FailoverInv, Ahead

LEMMA FailoverImplied == FailoverInv => FailoverComplete
<1> SUFFICES ASSUME FailoverInv, NEW c \in Calls, pc[c] = "check", order[c] = <<>>, ~expired[c]
             PROVE  usable[c] = {}
  BY Zenon DEF FailoverComplete
<1>1. usable[c] \subseteq Range(<<>>)
  BY Zenon DEF FailoverInv, Ahead
<1>2. Range(<<>>) = {}
  BY DEF Range
<1> QED
  BY <1>1, <1>2

\* A call that a step does not move keeps its invariant if the step leaves no
\* backend in usable that it takes down or marks.
LEMMA Unmoved ==
  ASSUME NEW d \in Calls, expired[d] \/ Ahead(d),
         pc'[d] = pc[d], order'[d] = order[d], expired'[d] = expired[d],
         usable'[d] \subseteq usable[d],
         usable[d] \subseteq up \cap healthy => usable'[d] \subseteq up' \cap healthy'
  PROVE  (expired[d] \/ Ahead(d))'
<1>1. CASE expired[d]
  BY <1>1
<1>2. CASE Ahead(d)
  BY <1>2, Zenon DEF Ahead
<1> QED
  BY <1>1, <1>2

LEMMA PickAhead ==
  ASSUME TypeOK, FailoverInv, NEW c \in Calls, Pick(c)
  PROVE  FailoverInv'
<1>0. CallerType /\ UsableType /\ SharedType
  BY TypeParts
<1>1. UNCHANGED <<up, healthy, expired>>
  BY DEF Pick, backends
<1>2. ASSUME NEW d \in Calls, d # c
      PROVE  (expired[d] \/ Ahead(d))'
  <2>1. pc'[d] = pc[d] /\ order'[d] = order[d] /\ usable'[d] = usable[d]
    BY <1>0, <1>2 DEF Pick, Goto, CallerType, UsableType
  <2> QED
    BY <1>1, <2>1, Unmoved, Zenon DEF FailoverInv
<1>3. Ahead(c)'
  <2>1. PICK q \in PickOrder : order' = [order EXCEPT ![c] = q]
    BY DEF Pick
  <2>2. healthy \subseteq Range(q)
    BY <1>0, <2>1, OrderComplete DEF SharedType
  <2>3. order'[c] = q /\ usable'[c] = healthy \cap up /\ pc'[c] = "check"
    BY <1>0, <2>1 DEF Pick, Goto, CallerType, UsableType
  <2> QED
    BY <1>1, <2>2, <2>3 DEF Ahead
<1> QED
  BY <1>2, <1>3, Zenon DEF FailoverInv

LEMMA CheckAhead ==
  ASSUME TypeOK, FailoverInv, NEW c \in Calls, Check(c)
  PROVE  FailoverInv'
<1>0. CallerType
  BY TypeParts
<1>1. UNCHANGED <<up, healthy, expired, usable>>
  BY DEF Check, backends, balancer
<1>2. ASSUME NEW d \in Calls, d # c
      PROVE  (expired[d] \/ Ahead(d))'
  <2>1. pc'[d] = pc[d] /\ order'[d] = order[d]
    BY <1>0, <1>2 DEF Check, Goto, Advance, CallerType
  <2> QED
    BY <1>1, <2>1, Unmoved, Zenon DEF FailoverInv
<1>3. ASSUME Ahead(c) PROVE Ahead(c)'
  <2>1. CASE Backend(c) \in healthy /\ Goto(c, "check", "attempt") /\ UNCHANGED order
    <3>1. pc[c] = "check" /\ pc'[c] = "attempt"
      BY <1>0, <2>1 DEF Goto, CallerType
    <3> QED
      BY <1>1, <1>3, <2>1, <3>1 DEF Ahead
  <2>2. CASE Backend(c) \notin healthy /\ Advance(c) /\ pc[c] = "check" /\ UNCHANGED pc
    <3>1. Range(order[c]) \subseteq {Head(order[c])} \cup Range(Tail(order[c]))
      BY <1>0, TailCovers DEF Check, CallerType
    <3>2. order'[c] = Tail(order[c])
      BY <1>0, <2>2 DEF Advance, CallerType
    <3>3. usable[c] \subseteq Range(order[c]) /\ Head(order[c]) \notin usable[c]
      BY <1>3, <2>2 DEF Ahead, Backend
    <3> QED
      BY <1>1, <1>3, <2>2, <3>1, <3>2, <3>3 DEF Ahead
  <2> QED
    BY <2>1, <2>2 DEF Check
<1> QED
  BY <1>1, <1>2, <1>3, Zenon DEF FailoverInv

\* A call that leaves a backend answered, or measures, has none to blame.
LEMMA AttemptAhead ==
  ASSUME TypeOK, FailoverInv, NEW c \in Calls,
         Attempt(c) \/ AttemptFails(c) \/ Load(c) \/ SwapFails(c)
  PROVE  FailoverInv'
<1>0. CallerType
  BY TypeParts
<1>1. UNCHANGED <<up, healthy, expired, usable, order>>
  BY DEF Attempt, AttemptFails, Load, SwapFails, backends, balancer
<1>2. ASSUME NEW d \in Calls, d # c
      PROVE  (expired[d] \/ Ahead(d))'
  <2>1. pc'[d] = pc[d]
    BY <1>0, <1>2 DEF Attempt, AttemptFails, Load, SwapFails, Goto, CallerType
  <2> QED
    BY <1>1, <2>1, Unmoved, Zenon DEF FailoverInv
<1>3. ASSUME Ahead(c), ~expired[c] PROVE Ahead(c)'
  <2>1. CASE Attempt(c) \/ Load(c) \/ SwapFails(c)
    <3>1. pc'[c] \in {"load", "cas"}
      BY <1>0, <2>1 DEF Attempt, Load, SwapFails, Goto, CallerType
    <3> QED
      BY <1>1, <1>3, <3>1 DEF Ahead
  <2>2. CASE AttemptFails(c)
    <3>1. pc[c] = "attempt" /\ pc'[c] \in {"attempt", "mark"}
      BY <1>0, <2>2 DEF AttemptFails, CallerType
    <3>2. Head(order[c]) \notin usable[c]
      BY <1>3, <2>2 DEF AttemptFails, Answers, Backend, Ahead
    <3> QED
      BY <1>1, <1>3, <3>1, <3>2 DEF Ahead
  <2> QED
    BY <2>1, <2>2
<1> QED
  BY <1>1, <1>2, <1>3, Zenon DEF FailoverInv

LEMMA MarkAhead ==
  ASSUME TypeOK, FailoverInv, NEW c \in Calls, Mark(c)
  PROVE  FailoverInv'
<1>0. CallerType
  BY TypeParts
<1>1. UNCHANGED <<up, expired>> /\ healthy' = healthy \ {Backend(c)}
  BY DEF Mark, backends
<1>2. ASSUME NEW d \in Calls, d # c
      PROVE  (expired[d] \/ Ahead(d))'
  <2>1. pc'[d] = pc[d] /\ order'[d] = order[d]
    BY <1>0, <1>2 DEF Mark, Goto, Advance, CallerType
  <2>2. usable'[d] = usable[d] \ {Backend(c)}
    BY <1>2 DEF Mark, Lose
  <2>3. usable'[d] \subseteq usable[d]
    BY <2>2
  <2>4. usable[d] \subseteq up \cap healthy => usable'[d] \subseteq up' \cap healthy'
    BY <1>1, <2>2
  <2> QED
    BY <1>1, <2>1, <2>3, <2>4, Unmoved, Zenon DEF FailoverInv
<1>3. ASSUME Ahead(c) PROVE Ahead(c)'
  <2>1. pc[c] = "mark" /\ pc'[c] = "check" /\ order'[c] = Tail(order[c]) /\ usable'[c] = usable[c]
    BY <1>0 DEF Mark, Goto, Advance, Lose, CallerType
  <2>2. Range(order[c]) \subseteq {Head(order[c])} \cup Range(Tail(order[c]))
    BY <1>0, <2>1, TailCovers DEF CallerType
  <2> QED
    BY <1>1, <1>3, <2>1, <2>2 DEF Ahead, Backend
<1> QED
  BY <1>1, <1>2, <1>3, Zenon DEF FailoverInv

LEMMA NextStageAhead ==
  ASSUME TypeOK, FailoverInv, NEW c \in Calls, CompareAndSwap(c) \/ StageFails(c)
  PROVE  FailoverInv'
<1>0. CallerType /\ UsableType
  BY TypeParts
<1>1. UNCHANGED <<up, healthy>>
  BY DEF CompareAndSwap, StageFails, backends, balancer
<1>2. PICK last \in BOOLEAN : NextStage(c, last)
  <2>1. (stage[c] \in {0, TextsOf[c]}) \in BOOLEAN /\ (stage[c] = TextsOf[c]) \in BOOLEAN
    OBVIOUS
  <2> QED
    BY <2>1, Zenon DEF CompareAndSwap, StageFails
<1>3. ASSUME NEW d \in Calls, d # c
      PROVE  (expired[d] \/ Ahead(d))'
  <2>1. /\ pc'[d] = pc[d] /\ order'[d] = order[d]
        /\ expired'[d] = expired[d] /\ usable'[d] = usable[d]
    BY <1>0, <1>2, <1>3 DEF NextStage, CallerType, UsableType
  <2> QED
    BY <1>1, <2>1, Unmoved, Zenon DEF FailoverInv
<1>4. Ahead(c)'
  <2>1. usable'[c] = {} /\ pc'[c] \in {"pick", "done"}
    BY <1>0, <1>2 DEF NextStage, CallerType, UsableType
  <2> QED
    BY <2>1 DEF Ahead
<1> QED
  BY <1>3, <1>4, Zenon DEF FailoverInv

LEMMA ExpireAhead ==
  ASSUME TypeOK, FailoverInv, NEW c \in Calls, Expire(c)
  PROVE  FailoverInv'
<1>0. CallerType
  BY TypeParts
<1>1. UNCHANGED <<up, healthy, usable, pc, order>>
  BY DEF Expire, backends, balancer
<1>2. expired'[c] /\ \A d \in Calls \ {c} : expired'[d] = expired[d]
  BY <1>0 DEF Expire, CallerType
<1>3. ASSUME NEW d \in Calls, d # c
      PROVE  (expired[d] \/ Ahead(d))'
  BY <1>1, <1>2, <1>3, Unmoved, Zenon DEF FailoverInv
<1> QED
  BY <1>2, <1>3, Zenon DEF FailoverInv

\* What happens to a backend, and what the health loop finds.
LEMMA BackendAhead ==
  ASSUME TypeOK, FailoverInv,
         (\E b \in Backends : GoesDown(b) \/ ComesBack(b)) \/ HealthStep \/ Stop
  PROVE  FailoverInv'
<1>1. UNCHANGED <<pc, order, expired>>
  BY DEF GoesDown, ComesBack, HealthStep, Probe, Store, Tick, Stop, caller
<1>2. ASSUME NEW d \in Calls
      PROVE  /\ usable'[d] \subseteq usable[d]
             /\ usable[d] \subseteq up \cap healthy => usable'[d] \subseteq up' \cap healthy'
  <2>1. ASSUME NEW b \in Backends, GoesDown(b)
        PROVE  usable'[d] = usable[d] \ {b} /\ up' = up \ {b} /\ healthy' = healthy
    BY <2>1 DEF GoesDown, Lose, balancer
  <2>2. ASSUME NEW b \in Backends, ComesBack(b)
        PROVE  usable' = usable /\ up' = up \cup {b} /\ healthy' = healthy
    BY <2>2 DEF ComesBack, balancer
  <2>3. CASE Store
    <3>1. up' = up /\ \/ usable' = usable /\ healthy' = healthy \cup {at}
                      \/ usable'[d] = usable[d] \ {at} /\ healthy' = healthy \ {at}
      BY <2>3 DEF Store, Lose, backends
    <3> QED
      BY <3>1
  <2>4. CASE Probe \/ Tick \/ Stop
    BY <2>4 DEF Probe, Tick, Stop, backends, balancer
  <2> QED
    BY <2>1, <2>2, <2>3, <2>4 DEF HealthStep
<1> QED
  BY <1>1, <1>2, Unmoved, Zenon DEF FailoverInv

LEMMA FailoverStep == TypeOK /\ FailoverInv /\ [Next]_vars => FailoverInv'
<1> SUFFICES ASSUME TypeOK, FailoverInv, [Next]_vars PROVE FailoverInv'
  OBVIOUS
<1>1. CASE (\E b \in Backends : GoesDown(b) \/ ComesBack(b)) \/ HealthStep \/ Stop
  BY <1>1, BackendAhead
<1>2. CASE \E c \in Calls : Step(c) \/ Expire(c)
  BY <1>2, PickAhead, CheckAhead, AttemptAhead, MarkAhead, NextStageAhead, ExpireAhead,
     Zenon DEF Step
<1>3. CASE UNCHANGED vars
  BY <1>3, Zenon DEF FailoverInv, Ahead, vars, backends, balancer, caller, checks
<1> QED
  BY <1>1, <1>2, <1>3, Zenon DEF Next

(* Failover is complete: for any number of backends and calls, a call goes *)
(* without an answer only if each backend was down or marked by another at *)
(* some time of the stage, or its context ended (loadbalancer.go 151-226). *)
THEOREM FailoverIsComplete == Spec => []FailoverComplete
<1>1. Init => TypeOK /\ FailoverInv
  BY TypeInit, FailoverInit
<1>2. TypeOK /\ FailoverInv /\ [Next]_vars => (TypeOK /\ FailoverInv)'
  BY TypeStep, FailoverStep
<1> QED
  BY <1>1, <1>2, FailoverImplied, PTL DEF Spec

-----------------------------------------------------------------------------
(* The latency *)

\* Only a swap changes a latency, and it does so in one step of the cell.
LEMMA SwapObserves ==
  ASSUME TypeOK, NEW c \in Calls, CompareAndSwap(c)
  PROVE  \E b \in Backends, d \in Durations : Cell!Observe(b, d)
<1>1. Backend(c) \in Backends
  BY TypeParts, TailCovers DEF CompareAndSwap, Backend, CallerType
<1>2. Duration[c] \in Durations
  BY Zenon DEF Durations
<1>3. latency' = [latency EXCEPT ![Backend(c)] = Cell!Ewma(@, Duration[c])]
  BY DEF CompareAndSwap, Ewma
<1>4. Cell!Observe(Backend(c), Duration[c])
  BY <1>3 DEF Cell!Observe
<1> QED
  BY <1>1, <1>2, <1>4, Zenon

LEMMA LatencyStep ==
  TypeOK /\ [Next]_vars => [\E b \in Backends, d \in Durations : Cell!Observe(b, d)]_latency
<1> SUFFICES ASSUME TypeOK, [Next]_vars, latency' # latency
             PROVE  \E b \in Backends, d \in Durations : Cell!Observe(b, d)
  BY Zenon
<1>1. \E c \in Calls : CompareAndSwap(c)
  BY DEF Next, Step, vars, backends, balancer, GoesDown, ComesBack, HealthStep, Probe, Store, Tick,
     Stop, Pick, Check, Attempt, AttemptFails, Mark, Load, SwapFails, StageFails, Expire
<1> QED
  BY <1>1, SwapObserves

(* The detector implements the cell: every measurement is folded into the  *)
(* latency of its backend at one instant, however many calls measure it at *)
(* the same time (loadbalancer.go 238-251).                                *)
THEOREM MeasurementsKept == Spec => ImplementsCell
<1>1. Init => Cell!Init
  BY DEF Init, Cell!Init
<1> QED
  BY <1>1, TypeCorrect, LatencyStep, PTL DEF Spec, ImplementsCell, Cell!Spec

=============================================================================
