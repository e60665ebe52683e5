----------------------------- MODULE CallsProofs -----------------------------
(***************************************************************************)
(* Proofs that no path through a call loses a slot, that no panic but those*)
(* of the picking and of a closed history comes out, and that result, records, hooks and retries   *)
(* of a call agree with what the providers it asked answered.              *)
(***************************************************************************)
EXTENDS CallsProperties, FiniteSetTheorems, TLAPS

AnyKind == AllKinds \cup {"single"}

\* The part of the types that control depends on.
ControlType ==
  /\ inUse \in Int
  /\ pc \in [Calls -> Labels]
  /\ kind \in [Calls -> AnyKind]
  /\ tries \in [Calls -> Seq(Outcomes)]

\* Which kinds of calls come to a label.
Allowed(label, k) ==
  /\ label = "before" => k \in {"chat", "single", "fallback", "dual"}
  /\ label = "pair" => k = "dual"
  /\ label \in {"acquire", "record"} => k # "test"
  /\ label = "backoff" => k \in {"chat", "single", "fallback"}
  /\ label = "release" => k \in {"fallback", "audit"}
  /\ label = "after" => k \in {"chat", "single", "fallback"}
  /\ label = "leave" => k \in {"chat", "single", "dual"}

ControlInv == ControlType /\ \A c \in Calls : Allowed(pc[c], kind[c])

\* Held, as a function of label and kind.
SlotsOfKind(k) == IF k = "dual" THEN 2 ELSE 1

HeldAt(label, k) ==
  IF label \in {"call", "wait", "backoff", "release"} THEN IF k = "test" THEN 0 ELSE SlotsOfKind(k)
  ELSE IF label \in {"available", "before", "after"} THEN IF k \in {"chat", "single"} THEN 1 ELSE 0
  ELSE IF label = "record" THEN IF k \in {"chat", "single", "dual"} THEN SlotsOfKind(k) ELSE 0
  ELSE IF label = "leave" THEN SlotsOfKind(k) ELSE 0

LEMMA HeldMeaning ==
  ASSUME NEW c \in Calls
  PROVE  Held(c) = HeldAt(pc[c], kind[c])
BY DEF Held, HeldAt, SlotsOfKind, Weight, Chat, Dual

LEMMA HeldBound ==
  ASSUME NEW label, NEW k
  PROVE  HeldAt(label, k) \in 0..2
BY DEF HeldAt, SlotsOfKind

-----------------------------------------------------------------------------
(* Counting: the slots of a function from calls to 0..2.                   *)

SlotsOf(f) == {s \in Calls \X (1..2) : s[2] <= f[s[1]]}
Row(c, n) == {c} \X (1..n)

LEMMA RowSize ==
  ASSUME NEW c, NEW n \in 0..2
  PROVE  IsFiniteSet(Row(c, n)) /\ Cardinality(Row(c, n)) = n
<1>1. IsFiniteSet({c}) /\ Cardinality({c}) = 1
  BY FS_Singleton
<1>2. IsFiniteSet(1..n) /\ Cardinality(1..n) = n
  <2>1. 1 \in Int /\ n \in Int /\ (IF 1 > n THEN 0 ELSE n - 1 + 1) = n
    OBVIOUS
  <2> QED
    BY <2>1, FS_Interval, Zenon
<1>3. IsFiniteSet(Row(c, n)) /\ Cardinality(Row(c, n)) = 1 * n
  BY <1>1, <1>2, FS_Product DEF Row
<1> QED
  BY <1>3

LEMMA SlotsFinite == ASSUME NEW f PROVE IsFiniteSet(SlotsOf(f))
<1>1. IsFiniteSet(1..2)
  <2>1. 1 \in Int /\ 2 \in Int
    OBVIOUS
  <2> QED
    BY <2>1, FS_Interval, Zenon
<1>2. IsFiniteSet(Calls \X (1..2))
  BY <1>1, CallsAssumption, FS_Product
<1> QED
  BY <1>2, FS_Subset DEF SlotsOf

LEMMA ReplaceRow ==
  ASSUME NEW f \in [Calls -> 0..2], NEW g \in [Calls -> 0..2], NEW c \in Calls,
         \A d \in Calls \ {c} : g[d] = f[d]
  PROVE  Cardinality(SlotsOf(g)) = Cardinality(SlotsOf(f)) + g[c] - f[c]
<1> DEFINE Rest == {s \in SlotsOf(f) : s[1] # c}
<1>1. IsFiniteSet(Rest) /\ Cardinality(Rest) \in Nat
  BY SlotsFinite, FS_Subset, FS_CardinalityType
<1>2. f[c] \in 0..2 /\ g[c] \in 0..2
  OBVIOUS
<1>3. ASSUME NEW h \in [Calls -> 0..2], \A d \in Calls \ {c} : h[d] = f[d]
      PROVE  Cardinality(SlotsOf(h)) = Cardinality(Rest) + h[c]
  <2>1. SlotsOf(h) = Rest \cup Row(c, h[c])
    BY <1>3 DEF SlotsOf, Row
  <2>2. Rest \cap Row(c, h[c]) = {}
    BY DEF Row
  <2>3. IsFiniteSet(Row(c, h[c])) /\ Cardinality(Row(c, h[c])) = h[c]
    BY RowSize
  <2>4. Cardinality(SlotsOf(h))
          = Cardinality(Rest) + Cardinality(Row(c, h[c])) - Cardinality(Rest \cap Row(c, h[c]))
    BY <1>1, <2>1, <2>3, FS_Union, Zenon
  <2>5. Cardinality(Rest \cap Row(c, h[c])) = 0
    BY <2>2, FS_EmptySet
  <2> QED
    BY <1>1, <2>3, <2>4, <2>5
<1>4. Cardinality(SlotsOf(f)) = Cardinality(Rest) + f[c]
  BY <1>3
<1>5. Cardinality(SlotsOf(g)) = Cardinality(Rest) + g[c]
  BY <1>3
<1> QED
  BY <1>1, <1>2, <1>4, <1>5

\* The slots of all calls, by label and kind.
HeldBy == [c \in Calls |-> HeldAt(pc[c], kind[c])]

LEMMA SlotsMeaning == SlotsMatchCalls <=> inUse = Cardinality(SlotsOf(HeldBy))
<1>1. \A s \in Calls \X (1..2) : Held(s[1]) = HeldBy[s[1]]
  BY HeldMeaning DEF HeldBy
<1>2. {s \in Calls \X (1..2) : s[2] <= Held(s[1])} = SlotsOf(HeldBy)
  BY <1>1 DEF SlotsOf
<1> QED
  BY <1>2 DEF SlotsMatchCalls

-----------------------------------------------------------------------------
(* One step of one call: it comes to a label its kind may come to, and the *)
(* semaphore changes by as much as what the call holds.                    *)

StepOf(c) ==
  /\ pc' \in [Calls -> Labels] /\ kind' \in [Calls -> AnyKind]
  /\ tries' \in [Calls -> Seq(Outcomes)]
  /\ \A d \in Calls \ {c} : pc'[d] = pc[d] /\ kind'[d] = kind[d]
  /\ Allowed(pc'[c], kind'[c])
  /\ inUse' = inUse + HeldAt(pc'[c], kind'[c]) - HeldAt(pc[c], kind[c])

LEMMA StepKeeps ==
  ASSUME ControlInv, SlotsMatchCalls, NEW c \in Calls, StepOf(c)
  PROVE  ControlInv' /\ SlotsMatchCalls'
<1> DEFINE f == HeldBy
           g == [d \in Calls |-> HeldAt(pc'[d], kind'[d])]
<1>1. f \in [Calls -> 0..2] /\ g \in [Calls -> 0..2]
  BY HeldBound DEF HeldBy
<1>2. \A d \in Calls \ {c} : g[d] = f[d]
  BY DEF StepOf, HeldBy
<1>3. f[c] = HeldAt(pc[c], kind[c]) /\ g[c] = HeldAt(pc'[c], kind'[c])
  BY DEF HeldBy
<1>4. f[c] \in Int /\ g[c] \in Int /\ inUse \in Int
  BY <1>1 DEF ControlInv, ControlType
<1>5. Cardinality(SlotsOf(g)) = Cardinality(SlotsOf(f)) + g[c] - f[c]
  BY <1>1, <1>2, ReplaceRow
<1>6. inUse = Cardinality(SlotsOf(f))
  BY SlotsMeaning
<1>7. inUse' = inUse + g[c] - f[c]
  BY <1>3 DEF StepOf
<1>8. inUse' = Cardinality(SlotsOf(g)) /\ inUse' \in Int
  BY <1>4, <1>5, <1>6, <1>7
<1>9. HeldBy' = g
  BY DEF HeldBy
<1>10. SlotsMatchCalls'
  <2>1. (SlotsMatchCalls <=> inUse = Cardinality(SlotsOf(HeldBy)))'
    BY SlotsMeaning, PTL
  <2> QED
    BY <1>8, <1>9, <2>1
<1>11. ControlInv'
  <2>1. ControlType'
    BY <1>8 DEF StepOf, ControlType
  <2>2. \A d \in Calls : Allowed(pc'[d], kind'[d])
    BY DEF StepOf, ControlInv
  <2> QED
    BY <2>1, <2>2 DEF ControlInv
<1> QED
  BY <1>10, <1>11

\* Most steps move one call and leave its kind alone.
LEMMA Move ==
  ASSUME ControlInv, NEW c \in Calls, NEW label \in Labels, Goto(c, label),
         UNCHANGED kind, tries' \in [Calls -> Seq(Outcomes)],
         Allowed(label, kind[c]),
         inUse' = inUse + HeldAt(label, kind[c]) - HeldAt(pc[c], kind[c])
  PROVE  StepOf(c)
BY DEF StepOf, ControlInv, ControlType, Goto

\* When the call still holds as many slots as before.
LEMMA MoveOn ==
  ASSUME ControlInv, NEW c \in Calls, NEW label \in Labels, Goto(c, label),
         UNCHANGED <<kind, inUse>>, tries' \in [Calls -> Seq(Outcomes)],
         Allowed(label, kind[c]),
         HeldAt(label, kind[c]) = HeldAt(pc[c], kind[c])
  PROVE  StepOf(c)
<1>1. inUse \in Int /\ HeldAt(pc[c], kind[c]) \in Int
  BY HeldBound DEF ControlInv, ControlType
<1>2. inUse' = inUse + HeldAt(label, kind[c]) - HeldAt(pc[c], kind[c])
  BY <1>1
<1> QED
  BY <1>2, Move

LEMMA StartStep ==
  ASSUME ControlInv, NEW c \in Calls, NEW k \in Kinds, Start(c, k)
  PROVE  StepOf(c)
<1>1. k \in AllKinds /\ k \in AnyKind
  BY CallsAssumption DEF AnyKind
<1>2. PICK label \in Labels :
        pc' = [pc EXCEPT ![c] = label] /\ label \in {"returned", "acquire", "available"}
                                       /\ (label # "returned" => (label = "acquire" <=> k = "chat"))
  BY <1>1 DEF Start, Settle, Goto, AfterStart, Labels
<1>3. UNCHANGED <<inUse, tries>> /\ kind' = [kind EXCEPT ![c] = k] /\ pc[c] = "new"
  BY DEF Start, shared, work
<1>4. kind' \in [Calls -> AnyKind] /\ pc' \in [Calls -> Labels] /\ tries' \in [Calls -> Seq(Outcomes)]
  BY <1>1, <1>2, <1>3 DEF ControlInv, ControlType
<1>5. kind'[c] = k /\ pc'[c] = label /\ inUse \in Int
  BY <1>2, <1>3 DEF ControlInv, ControlType
<1>6. Allowed(label, k) /\ HeldAt(label, k) = 0 /\ HeldAt(pc[c], kind[c]) = 0
  BY <1>1, <1>2, <1>3 DEF Allowed, HeldAt, AllKinds
<1>7. inUse' = inUse + HeldAt(label, k) - HeldAt(pc[c], kind[c])
  BY <1>3, <1>5, <1>6
<1>8. \A d \in Calls \ {c} : pc'[d] = pc[d] /\ kind'[d] = kind[d]
  BY <1>2, <1>3 DEF ControlInv, ControlType
<1> QED
  BY <1>4, <1>5, <1>6, <1>7, <1>8 DEF StepOf

LEMMA BeginSteps ==
  ASSUME ControlInv, NEW c \in Calls,
         NoneAvailable(c) \/ BeforeFails(c) \/ Before(c) \/ PairNone(c)
           \/ (\E o \in Orders : Pick(c, o) \/ Pair(c, o)) \/ PickPanics(c) \/ SequencePanics(c)
  PROVE  StepOf(c)
<1>1. UNCHANGED <<inUse, kind, tries>> /\ kind[c] \in AnyKind /\ tries' \in [Calls -> Seq(Outcomes)]
  BY DEF NoneAvailable, BeforeFails, Before, PairNone, Pick, Pair, PickPanics, SequencePanics,
         shared, plan, work, ControlInv, ControlType
<1>2. Allowed(pc[c], kind[c])
  BY DEF ControlInv
<1>3. SUFFICES ASSUME TRUE
               PROVE  \E label \in Labels : /\ Goto(c, label) /\ Allowed(label, kind[c])
                                            /\ HeldAt(label, kind[c]) = HeldAt(pc[c], kind[c])
  BY <1>1, MoveOn
<1>4. CASE NoneAvailable(c) \/ BeforeFails(c)
  <2>1. Goto(c, Exit(c)) /\ pc[c] \in {"available", "before"}
    BY <1>4 DEF NoneAvailable, BeforeFails, Settle
  <2> QED
    BY <2>1 DEF Exit, Chat, Labels, Allowed, HeldAt, SlotsOfKind
<1>5. CASE Before(c)
  <2>1. kind[c] \in {"chat", "single", "fallback", "dual"} /\ pc[c] = "before"
    BY <1>2, <1>5 DEF Before, Allowed
  <2>2. CASE Chat(c)
    <3>1. Goto(c, "call")
      BY <1>5, <2>2 DEF Before, Goto, Chat, Fallback, Dual
    <3> QED
      BY <2>1, <2>2, <3>1 DEF Chat, Labels, Allowed, HeldAt, SlotsOfKind
  <2>3. CASE Fallback(c)
    <3>1. Goto(c, "acquire")
      BY <1>5, <2>3 DEF Before, Goto, Chat, Fallback, Dual
    <3> QED
      BY <2>1, <2>3, <3>1 DEF Fallback, Labels, Allowed, HeldAt, SlotsOfKind
  <2>4. CASE Dual(c)
    <3>1. Goto(c, "pair")
      BY <1>5, <2>4 DEF Before, Chat, Fallback, Dual
    <3> QED
      BY <2>1, <2>4, <3>1 DEF Dual, Labels, Allowed, HeldAt, SlotsOfKind
  <2> QED
    BY <2>1, <2>2, <2>3, <2>4 DEF Chat, Fallback, Dual
<1>6. CASE PairNone(c)
  <2>1. Goto(c, "returned") /\ pc[c] = "pair"
    BY <1>6 DEF PairNone, Settle
  <2> QED
    BY <2>1 DEF Labels, Allowed, HeldAt
<1>7. CASE \E o \in Orders : Pick(c, o)
  <2>1. pc[c] = "available"
    BY <1>7 DEF Pick
  <2>2. Audit(c) => Goto(c, "acquire")
    BY <1>7 DEF Pick, Goto, Audit
  <2>3. kind[c] = "test" => Goto(c, "call")
    BY <1>7 DEF Pick, Audit
  <2>4. kind[c] \notin {"audit", "test"} => Goto(c, "before")
    BY <1>7 DEF Pick, Audit
  <2> QED
    BY <1>1, <2>1, <2>2, <2>3, <2>4
       DEF Audit, Labels, Allowed, HeldAt, SlotsOfKind, AnyKind, AllKinds
<1>8. CASE \E o \in Orders : Pair(c, o)
  <2>1. Goto(c, "acquire") /\ pc[c] = "pair" /\ kind[c] = "dual"
    BY <1>2, <1>8 DEF Pair, Allowed
  <2> QED
    BY <2>1 DEF Labels, Allowed, HeldAt
<1>9. CASE PickPanics(c)
  <2>1. Goto(c, "leave") /\ pc[c] = "available" /\ kind[c] \in {"chat", "single"}
    BY <1>9 DEF PickPanics, Settle, Chat
  <2> QED
    BY <2>1 DEF Labels, Allowed, HeldAt, SlotsOfKind
<1>10. CASE SequencePanics(c)
  <2>1. \/ pc[c] = "pair" /\ Goto(c, "returned")
        \/ pc[c] = "acquire" /\ kind[c] = "fallback" /\ Goto(c, "after")
    BY <1>10 DEF SequencePanics, Settle, Fallback
  <2> QED
    BY <2>1 DEF Labels, Allowed, HeldAt
<1> QED
  BY <1>4, <1>5, <1>6, <1>7, <1>8, <1>9, <1>10

LEMMA DegradeStep ==
  ASSUME ControlInv, NEW c \in Calls, Degrade(c)
  PROVE  StepOf(c)
<1>1. PICK label \in {"returned", "acquire"} : pc' = [pc EXCEPT ![c] = label]
  BY DEF Degrade, Settle, Goto
<1>2. UNCHANGED <<inUse, tries>> /\ kind' = [kind EXCEPT ![c] = "single"] /\ pc[c] = "pair"
  BY DEF Degrade, shared, work
<1>3. /\ kind' \in [Calls -> AnyKind] /\ pc' \in [Calls -> Labels] /\ tries' \in [Calls -> Seq(Outcomes)]
      /\ kind'[c] = "single" /\ pc'[c] = label /\ inUse \in Int
  BY <1>1, <1>2 DEF ControlInv, ControlType, Labels, AnyKind
<1> QED
  BY <1>1, <1>2, <1>3 DEF StepOf, ControlInv, ControlType, Allowed, HeldAt, SlotsOfKind

LEMMA AcquireSteps ==
  ASSUME ControlInv, NEW c \in Calls, Acquire(c) \/ AcquireFails(c)
  PROVE  StepOf(c)
<1> USE DEF ControlInv, ControlType
<1>1. /\ UNCHANGED <<kind, tries>> /\ inUse \in Int /\ pc[c] = "acquire"
      /\ kind[c] \in AnyKind \ {"test"}
  BY DEF Acquire, AcquireFails, plan, work, Allowed
<1>2. CASE Acquire(c)
  BY <1>1, <1>2, Move, SMTT(30)
     DEF Acquire, Weight, Chat, Dual, Labels, Allowed, HeldAt, SlotsOfKind
<1>3. CASE AcquireFails(c)
  BY <1>1, <1>3, Move, SMTT(30)
     DEF AcquireFails, shared, Settle, Fallback, Labels, Allowed, HeldAt, SlotsOfKind
<1> QED
  BY <1>2, <1>3

\* From the last answer, the way on keeps the slots of the call.
LEMMA AfterWaitKeeps ==
  ASSUME ControlInv, NEW c \in Calls, pc[c] \in {"call", "wait", "backoff"}
  PROVE  /\ AfterWait(c) \in Labels /\ Allowed(AfterWait(c), kind[c])
         /\ HeldAt(AfterWait(c), kind[c]) = HeldAt(pc[c], kind[c])
<1>1. kind[c] \in AnyKind
  BY DEF ControlInv, ControlType
<1> QED
  BY <1>1 DEF AfterWait, Chat, Dual, Fallback, Audit, Labels, Allowed, HeldAt, SlotsOfKind,
              AnyKind, AllKinds

LEMMA AskSteps ==
  ASSUME ControlInv, NEW c \in Calls, NotAsked(c) \/ Ask(c) \/ AskAgain(c) \/ GiveUp(c)
  PROVE  StepOf(c)
<1> USE DEF ControlInv, ControlType
<1>1. /\ UNCHANGED <<kind, inUse>> /\ inUse \in Int /\ pc[c] \in {"call", "backoff"}
      /\ kind[c] \in AnyKind
  BY DEF NotAsked, Ask, AskAgain, GiveUp, shared, plan
<1>2. tries' \in [Calls -> Seq(Outcomes)]
  <2>1. UNCHANGED tries \/ tries' = [tries EXCEPT ![c] = <<>>]
    BY DEF NotAsked, Ask, AskAgain, GiveUp
  <2>2. <<>> \in Seq(Outcomes)
    OBVIOUS
  <2> QED
    BY <2>1, <2>2
<1>4. CASE NotAsked(c) \/ GiveUp(c)
  <2>1. Goto(c, AfterWait(c))
    BY <1>4 DEF NotAsked, GiveUp
  <2> QED
    BY <1>1, <1>2, <2>1, AfterWaitKeeps, MoveOn
<1>5. CASE Ask(c) \/ AskAgain(c)
  <2>1. Goto(c, "wait")
    BY <1>5 DEF Ask, AskAgain
  <2>2. HeldAt("wait", kind[c]) = HeldAt(pc[c], kind[c])
    BY <1>1 DEF HeldAt
  <2> QED
    BY <1>1, <1>2, <2>1, <2>2, MoveOn DEF Labels, Allowed
<1> QED
  BY <1>4, <1>5

LEMMA AnswerStep ==
  ASSUME ControlInv, NEW c \in Calls, Answer(c)
  PROVE  StepOf(c)
<1> USE DEF ControlInv, ControlType
<1>1. PICK q \in inflight[c], outcome \in Outcomes :
        AnswerRetryable(c, q, outcome) \/ AnswerFinal(c, q, outcome)
  BY DEF Answer
<1>2. /\ UNCHANGED <<kind, inUse>> /\ inUse \in Int /\ pc[c] = "wait" /\ kind[c] \in AnyKind
      /\ tries[c] \in Seq(Outcomes)
  BY <1>1 DEF Answer, AnswerRetryable, AnswerFinal, shared, plan
<1>4. CASE AnswerRetryable(c, q, outcome)
  <2>1. Goto(c, "backoff") /\ tries' \in [Calls -> Seq(Outcomes)]
    BY <1>2, <1>4 DEF AnswerRetryable
  <2>2. kind[c] \in {"chat", "single", "fallback"}
    <3>1. Len(tries[c]) \in Nat /\ Len(tries[c]) < Retries(c)
      BY <1>2, <1>4 DEF AnswerRetryable, MayRetry
    <3> QED
      BY <3>1 DEF Retries, Chat, Fallback
  <2>3. HeldAt("backoff", kind[c]) = HeldAt(pc[c], kind[c])
    BY <1>2 DEF HeldAt
  <2>4. "backoff" \in Labels /\ Allowed("backoff", kind[c])
    BY <2>2 DEF Labels, Allowed
  <2> QED
    BY <1>2, <2>1, <2>3, <2>4, MoveOn
<1>5. CASE AnswerFinal(c, q, outcome)
  <2>1. tries' \in [Calls -> Seq(Outcomes)]
    BY <1>5 DEF AnswerFinal
  <2>2. CASE inflight[c] # {q}
    <3>1. Goto(c, "wait")
      BY <1>2, <1>5, <2>2 DEF AnswerFinal, Goto
    <3>2. "wait" \in Labels /\ Allowed("wait", kind[c])
      BY DEF Labels, Allowed
    <3> QED
      BY <1>2, <2>1, <3>1, <3>2, MoveOn
  <2>3. CASE inflight[c] = {q} /\ kind[c] = "test"
    <3>1. Goto(c, "returned")
      BY <1>5, <2>3 DEF AnswerFinal, Settle
    <3> QED
      BY <1>2, <2>1, <2>3, <3>1, MoveOn DEF Labels, Allowed, HeldAt
  <2>4. CASE inflight[c] = {q} /\ kind[c] # "test"
    <3>1. Goto(c, AfterWait(c))
      BY <1>5, <2>4 DEF AnswerFinal
    <3> QED
      BY <1>2, <2>1, <3>1, AfterWaitKeeps, MoveOn
  <2> QED
    BY <2>2, <2>3, <2>4
<1> QED
  BY <1>1, <1>4, <1>5

\* A call settles its own result, and panics only in Record.
SettlesOnly(c) ==
  \E r \in Results \ {"panic"} : UNCHANGED result \/ result' = [result EXCEPT ![c] = r]

LEMMA ReleaseGoes ==
  ASSUME ControlInv, NEW c \in Calls, Release(c)
  PROVE  SettlesOnly(c) /\ \E label \in {"record", "returned", "acquire"} : Goto(c, label)
<1>1. kind[c] \in {"fallback", "audit"}
  BY DEF ControlInv, Release, Allowed
<1> QED
  BY <1>1 DEF SettlesOnly, Release, Settle, Fallback, Audit, Results

LEMMA AfterRecordGoes ==
  ASSUME ControlInv, NEW c \in Calls, pc[c] = "record", AfterRecord(c)
  PROVE  /\ SettlesOnly(c)
         /\ \E label \in {"after", "acquire", "leave", "returned"} :
              /\ Goto(c, label)
              /\ label = "after" => kind[c] \in {"chat", "single", "fallback"}
              /\ label = "acquire" => kind[c] = "fallback"
              /\ label = "leave" => kind[c] = "dual"
              /\ label = "returned" => kind[c] = "audit"
<1>1. kind[c] \in AnyKind \ {"test"}
  BY DEF ControlInv, ControlType, Allowed
<1>2. Outcome(c) \in {"ok", "failed"}
  BY DEF Outcome
<1> QED
  BY <1>1, <1>2 DEF AfterRecord, SettlesOnly, Settle, Chat, Fallback, Dual, Audit, AnyKind,
                    AllKinds, Results

LEMMA EndSteps ==
  ASSUME ControlInv, NEW c \in Calls, Release(c) \/ Record(c) \/ After(c) \/ Leave(c)
  PROVE  StepOf(c)
<1> USE DEF ControlInv, ControlType
<1>1. /\ UNCHANGED <<kind, tries>> /\ inUse \in Int /\ kind[c] \in AnyKind
      /\ tries' \in [Calls -> Seq(Outcomes)]
  BY DEF Release, Record, After, Leave, plan, work
<1>2. CASE Release(c)
  <2>1. pc[c] = "release" /\ kind[c] \in {"fallback", "audit"} /\ inUse' = inUse - 1
    BY <1>2 DEF Release, GiveBack, Weight, Dual, Allowed
  <2>2. PICK label \in {"record", "returned", "acquire"} : Goto(c, label)
    BY <1>2, ReleaseGoes
  <2> QED
    BY <1>1, <2>1, <2>2, Move DEF Labels, Allowed, HeldAt, SlotsOfKind
<1>3. CASE Record(c)
  <2>1. pc[c] = "record" /\ kind[c] \in AnyKind \ {"test"} /\ UNCHANGED inUse
    BY <1>1, <1>3 DEF Record, Allowed, shared
  <2>2. \/ UNCHANGED pc \/ Goto(c, Unwound(c))
        \/ AfterRecord(c)
    BY <1>3 DEF Record, Settle
  <2>3. CASE UNCHANGED pc
    <3>1. Goto(c, "record")
      BY <2>1, <2>3 DEF Goto
    <3>2. Allowed("record", kind[c]) /\ "record" \in Labels
      BY <2>1 DEF Labels, Allowed
    <3> QED
      BY <1>1, <2>1, <3>1, <3>2, MoveOn
  <2>4. CASE Goto(c, Unwound(c))
    <3>1. Unwound(c) \in Labels /\ Allowed(Unwound(c), kind[c])
          /\ HeldAt(Unwound(c), kind[c]) = HeldAt(pc[c], kind[c])
      BY <2>1 DEF Unwound, Fallback, Audit, Labels, Allowed, HeldAt, SlotsOfKind, AnyKind, AllKinds
    <3> QED
      BY <1>1, <2>1, <2>4, <3>1, MoveOn
  <2>5. CASE AfterRecord(c)
    <3>1. PICK label \in {"after", "acquire", "leave", "returned"} :
            /\ Goto(c, label)
            /\ label = "after" => kind[c] \in {"chat", "single", "fallback"}
            /\ label = "acquire" => kind[c] = "fallback"
            /\ label = "leave" => kind[c] = "dual"
            /\ label = "returned" => kind[c] = "audit"
      BY <2>1, <2>5, AfterRecordGoes
    <3> QED
      BY <1>1, <2>1, <3>1, Move DEF Labels, Allowed, HeldAt, SlotsOfKind
  <2> QED
    BY <2>2, <2>3, <2>4, <2>5
<1>4. CASE After(c)
  <2>1. kind[c] \in {"chat", "single", "fallback"} /\ UNCHANGED inUse
    BY <1>4 DEF After, Allowed, shared
  <2>2. pc[c] = "after" /\ Goto(c, IF Chat(c) THEN "leave" ELSE "returned")
    BY <1>4 DEF After
  <2>3. CASE Chat(c)
    BY <1>1, <2>1, <2>2, <2>3, MoveOn DEF Chat, Labels, Allowed, HeldAt, SlotsOfKind
  <2>4. CASE ~Chat(c)
    BY <1>1, <2>1, <2>2, <2>4, MoveOn DEF Chat, Labels, Allowed, HeldAt, SlotsOfKind
  <2> QED
    BY <2>3, <2>4
<1>5. CASE Leave(c)
  BY <1>1, <1>5, Move DEF Leave, GiveBack, Weight, Dual, Labels, Allowed, HeldAt, SlotsOfKind
<1> QED
  BY <1>2, <1>3, <1>4, <1>5

-----------------------------------------------------------------------------
LEMMA SlotsInit == Init => ControlInv /\ SlotsMatchCalls
<1> SUFFICES ASSUME Init PROVE ControlInv /\ SlotsMatchCalls
  OBVIOUS
<1>1. ControlInv
  BY DEF Init, ControlInv, ControlType, Allowed, Labels, AnyKind, AllKinds
<1>2. SlotsOf(HeldBy) = {}
  BY DEF Init, SlotsOf, HeldBy, HeldAt
<1>3. inUse = Cardinality(SlotsOf(HeldBy))
  BY <1>2, FS_EmptySet DEF Init
<1> QED
  BY <1>1, <1>3, SlotsMeaning

LEMMA SlotsStep == ControlInv /\ SlotsMatchCalls /\ [Next]_vars => ControlInv' /\ SlotsMatchCalls'
<1> SUFFICES ASSUME ControlInv, SlotsMatchCalls, [Next]_vars
             PROVE  ControlInv' /\ SlotsMatchCalls'
  OBVIOUS
<1>1. CASE \E c \in Calls : CallStep(c) \/ \E k \in Kinds : Start(c, k)
  <2>1. PICK c \in Calls : StepOf(c)
    BY SMTT(30), <1>1, StartStep, BeginSteps, DegradeStep, AcquireSteps, AskSteps, AnswerStep, EndSteps
       DEF CallStep, Runs
  <2> QED
    BY <2>1, StepKeeps
<1>2. CASE UNCHANGED <<inUse, pc, kind, tries>>
  BY <1>2 DEF ControlInv, ControlType, SlotsMatchCalls, Held, Weight, Chat, Dual
<1>3. \/ \E c \in Calls : CallStep(c) \/ \E k \in Kinds : Start(c, k)
      \/ UNCHANGED <<inUse, pc, kind, tries>>
  BY DEF Next, Cancel, CloseScheduler, CloseHistory, plan, work, vars, shared
<1> QED
  BY <1>1, <1>2, <1>3

(* For any number of calls of any kinds, no path through a call loses a    *)
(* slot or gives one back twice.                                           *)
THEOREM SlotsNeverLeak == Spec => []SlotsMatchCalls
<1>1. Spec => [](ControlInv /\ SlotsMatchCalls)
  BY SlotsInit, SlotsStep, PTL DEF Spec
<1> QED
  BY <1>1, PTL

-----------------------------------------------------------------------------
(* Nobody is asked by a call that does not wait, and a call waits for at   *)
(* most as many providers as it holds slots.                               *)
InflightOf(c) ==
  /\ pc[c] # "wait" => inflight[c] = {}
  /\ pc[c] = "wait" /\ Dual(c) => inflight[c] \subseteq {order[c][1], order[c][2]}
  /\ pc[c] = "wait" /\ ~Dual(c) => \E q : inflight[c] \subseteq {q}

InflightType ==
  /\ kind \in [Calls -> AnyKind] /\ pc \in [Calls -> Labels]
  /\ DOMAIN order = Calls /\ DOMAIN inflight = Calls
InflightInv == InflightType /\ \A c \in Calls : InflightOf(c)

LEMMA InflightInit == Init => InflightInv
BY DEF Init, InflightInv, InflightType, InflightOf, Labels, AnyKind, AllKinds

\* A call that asks nobody and does not wait afterwards.
LEMMA InflightQuiet ==
  ASSUME InflightInv, NEW c \in Calls, pc[c] # "wait" \/ inflight' = [inflight EXCEPT ![c] = {}],
         pc[c] = "wait" \/ UNCHANGED inflight, NEW label \in Labels \ {"wait"}, Goto(c, label),
         \A d \in Calls \ {c} : order'[d] = order[d] /\ kind'[d] = kind[d],
         InflightType'
  PROVE  InflightInv'
<1>1. \A d \in Calls \ {c} : pc'[d] = pc[d] /\ inflight'[d] = inflight[d]
  BY DEF Goto, InflightInv, InflightType
<1>2. pc'[c] # "wait" /\ inflight'[c] = {}
  BY DEF Goto, InflightInv, InflightType, InflightOf
<1>3. \A d \in Calls \ {c} : InflightOf(d)'
  BY <1>1 DEF InflightInv, InflightOf, Dual
<1>4. InflightOf(c)'
  BY <1>2 DEF InflightOf
<1> QED
  BY <1>3, <1>4 DEF InflightInv

LEMMA InflightAsk ==
  ASSUME InflightInv, NEW c \in Calls, Ask(c) \/ AskAgain(c)
  PROVE  InflightInv'
<1>1. /\ inflight' = [inflight EXCEPT ![c] = Asked(c)] /\ pc' = [pc EXCEPT ![c] = "wait"]
      /\ UNCHANGED <<kind, order>>
  BY DEF Ask, AskAgain, Goto, plan
<1>2. InflightType'
  BY <1>1 DEF InflightInv, InflightType, Labels
<1>3. \A d \in Calls \ {c} : InflightOf(d)'
  BY <1>1 DEF InflightInv, InflightType, InflightOf, Dual
<1>4. inflight'[c] = Asked(c)
  BY <1>1 DEF InflightInv, InflightType
<1>5. \/ Dual(c) /\ Asked(c) = {order[c][1], order[c][2]}
      \/ ~Dual(c) /\ \E q : Asked(c) = {q}
  BY DEF Asked
<1>6. InflightOf(c)'
  BY <1>1, <1>4, <1>5 DEF InflightOf, Dual, InflightInv, InflightType
<1> QED
  BY <1>2, <1>3, <1>6 DEF InflightInv

LEMMA InflightAnswer ==
  ASSUME InflightInv, NEW c \in Calls, Answer(c)
  PROVE  InflightInv'
<1>1. PICK q \in inflight[c], outcome \in Outcomes :
        AnswerRetryable(c, q, outcome) \/ AnswerFinal(c, q, outcome)
  BY DEF Answer
<1>2. UNCHANGED <<kind, order>> /\ pc[c] = "wait"
  BY <1>1 DEF Answer, AnswerRetryable, AnswerFinal, plan
<1>3. CASE AnswerFinal(c, q, outcome) /\ inflight[c] # {q}
  <2>1. inflight' = [inflight EXCEPT ![c] = @ \ {q}] /\ UNCHANGED pc
    BY <1>3 DEF AnswerFinal
  <2>2. InflightType'
    BY <1>2, <2>1 DEF InflightInv, InflightType
  <2>3. \A d \in Calls \ {c} : InflightOf(d)'
    BY <1>2, <2>1 DEF InflightInv, InflightType, InflightOf, Dual
  <2>4. inflight'[c] \subseteq inflight[c]
    BY <2>1 DEF InflightInv, InflightType
  <2>5. InflightOf(c)'
    BY <1>2, <2>1, <2>4 DEF InflightInv, InflightOf, Dual
  <2> QED
    BY <2>2, <2>3, <2>5 DEF InflightInv
<1>4. CASE ~(AnswerFinal(c, q, outcome) /\ inflight[c] # {q})
  <2>1. inflight' = [inflight EXCEPT ![c] = {}]
    BY <1>1, <1>4 DEF AnswerRetryable, AnswerFinal
  <2>2. \E label \in {"backoff", "returned", AfterWait(c)} : Goto(c, label)
    BY <1>1, <1>4 DEF AnswerRetryable, AnswerFinal, Settle
  <2>3. AfterWait(c) \in Labels \ {"wait"}
    BY DEF AfterWait, Labels
  <2>4. PICK label \in Labels \ {"wait"} : Goto(c, label)
    BY <2>2, <2>3 DEF Labels
  <2>5. InflightType'
    BY <1>2, <2>1, <2>4 DEF InflightInv, InflightType, Goto
  <2> QED
    BY <1>2, <2>1, <2>4, <2>5, InflightQuiet
<1> QED
  BY <1>3, <1>4

LEMMA InflightOthers ==
  ASSUME InflightInv, ControlInv, NEW c \in Calls,
         \/ NoneAvailable(c) \/ BeforeFails(c) \/ Before(c) \/ PairNone(c) \/ Degrade(c)
         \/ (\E o \in Orders : Pick(c, o) \/ Pair(c, o)) \/ (\E k \in Kinds : Start(c, k))
         \/ PickPanics(c) \/ SequencePanics(c)
         \/ Acquire(c) \/ AcquireFails(c) \/ NotAsked(c) \/ GiveUp(c)
         \/ Release(c) \/ Record(c) \/ After(c) \/ Leave(c)
  PROVE  InflightInv'
<1>1. pc[c] # "wait" /\ UNCHANGED inflight
  BY DEF NoneAvailable, BeforeFails, Before, PairNone, Degrade, Pick, Pair, Start, Acquire,
         AcquireFails, NotAsked, GiveUp, Release, Record, After, Leave, PickPanics,
         SequencePanics, work
<1>2. /\ \A d \in Calls \ {c} : order'[d] = order[d] /\ kind'[d] = kind[d]
      /\ kind' \in [Calls -> AnyKind] /\ DOMAIN order' = Calls
  <2>1. UNCHANGED kind \/ (\E k \in Kinds \cup {"single"} : kind' = [kind EXCEPT ![c] = k])
    BY DEF NoneAvailable, BeforeFails, Before, PairNone, Degrade, Pick, Pair, Start, Acquire,
           AcquireFails, NotAsked, GiveUp, Release, Record, After, Leave, PickPanics,
           SequencePanics, plan
  <2>2. UNCHANGED order \/ (\E o : order' = [order EXCEPT ![c] = o])
    BY DEF NoneAvailable, BeforeFails, Before, PairNone, Degrade, Pick, Pair, Start, Acquire,
           AcquireFails, NotAsked, GiveUp, Release, Record, After, Leave, PickPanics,
           SequencePanics, plan
  <2>3. kind \in [Calls -> AnyKind] /\ DOMAIN order = Calls /\ Kinds \cup {"single"} \subseteq AnyKind
    BY CallsAssumption DEF InflightInv, InflightType, AnyKind
  <2> QED
    BY <2>1, <2>2, <2>3
<1>3. UNCHANGED pc \/ (\E label \in Labels \ {"wait"} : Goto(c, label))
  <2>1. CASE \/ NoneAvailable(c) \/ BeforeFails(c) \/ PairNone(c) \/ Degrade(c)
             \/ (\E k \in Kinds : Start(c, k))
    BY <2>1 DEF NoneAvailable, BeforeFails, PairNone, Degrade, Start, Settle, Exit, AfterStart,
                Goto, Labels
  <2>2. CASE \/ Acquire(c) \/ AcquireFails(c) \/ After(c) \/ Leave(c)
             \/ PickPanics(c) \/ SequencePanics(c)
    BY <2>2 DEF Acquire, AcquireFails, After, Leave, PickPanics, SequencePanics, Settle, Goto, Labels
  <2>3. CASE Before(c)
    <3>1. kind[c] \in {"chat", "single", "fallback", "dual"}
      BY <2>3 DEF ControlInv, Before, Allowed
    <3> QED
      BY <2>3, <3>1 DEF Before, Chat, Fallback, Dual, Goto, Labels
  <2>4. CASE \E o \in Orders : Pick(c, o) \/ Pair(c, o)
    BY <2>4 DEF Pick, Pair, Goto, Labels
  <2>5. CASE NotAsked(c) \/ GiveUp(c)
    BY <2>5 DEF NotAsked, GiveUp, AfterWait, Goto, Labels
  <2>6. CASE Release(c)
    BY <2>6, ReleaseGoes DEF Labels
  <2>7. CASE Record(c)
    <3>1. pc[c] = "record" /\ (UNCHANGED pc \/ Goto(c, Unwound(c)) \/ AfterRecord(c))
      BY <2>7 DEF Record, Settle
    <3>2. Unwound(c) \in Labels \ {"wait"}
      BY DEF Unwound, Labels
    <3> QED
      BY <3>1, <3>2, AfterRecordGoes DEF Labels
  <2> QED
    BY <2>1, <2>2, <2>3, <2>4, <2>5, <2>6, <2>7
<1>4. PICK label \in Labels \ {"wait"} : Goto(c, label)
  BY <1>1, <1>3 DEF Goto, InflightInv, InflightType
<1>5. InflightType'
  BY <1>1, <1>2, <1>4 DEF InflightInv, InflightType, Goto
<1> QED
  BY <1>1, <1>2, <1>4, <1>5, InflightQuiet

LEMMA InflightStep == ControlInv /\ InflightInv /\ [Next]_vars => InflightInv'
<1> SUFFICES ASSUME ControlInv, InflightInv, [Next]_vars PROVE InflightInv'
  OBVIOUS
<1>1. CASE \E c \in Calls : CallStep(c) \/ \E k \in Kinds : Start(c, k)
  BY <1>1, InflightOthers, InflightAsk, InflightAnswer DEF CallStep, Runs
<1>2. CASE UNCHANGED <<pc, kind, order, inflight>>
  BY <1>2 DEF InflightInv, InflightType, InflightOf, Dual
<1>3. \/ \E c \in Calls : CallStep(c) \/ \E k \in Kinds : Start(c, k)
      \/ UNCHANGED <<pc, kind, order, inflight>>
  BY DEF Next, Cancel, CloseScheduler, CloseHistory, plan, work, vars, shared
<1> QED
  BY <1>1, <1>2, <1>3

\* Every request that is out has a slot of its own.
LEMMA OutboundHasSlots ==
  ASSUME ControlInv, SlotsMatchCalls, InflightInv
  PROVE  Cardinality(Outbound) <= inUse
<1> DEFINE Slot(s) == IF Dual(s[1]) /\ s[2] # order[s[1]][1] THEN 2 ELSE 1
           f == [s \in Outbound |-> <<s[1], Slot(s)>>]
<1>1. ASSUME NEW s \in Outbound
      PROVE  /\ s = <<s[1], s[2]>> /\ s[1] \in Calls /\ s[2] \in inflight[s[1]]
             /\ pc[s[1]] = "wait" /\ kind[s[1]] # "test"
  BY DEF Outbound, InflightInv, InflightOf
<1>2. ASSUME NEW s \in Outbound PROVE f[s] \in SlotsOf(HeldBy)
  <2>1. HeldBy[s[1]] = SlotsOfKind(kind[s[1]])
    BY <1>1 DEF HeldBy, HeldAt
  <2>2. Slot(s) \in 1..2 /\ Slot(s) <= SlotsOfKind(kind[s[1]])
    BY DEF SlotsOfKind, Dual
  <2> QED
    BY <1>1, <2>1, <2>2 DEF SlotsOf
<1>3. ASSUME NEW s \in Outbound, NEW t \in Outbound, f[s] = f[t] PROVE s = t
  <2>1. s[1] = t[1] /\ Slot(s) = Slot(t)
    BY <1>3
  <2>2. CASE Dual(s[1])
    <3>1. inflight[s[1]] \subseteq {order[s[1]][1], order[s[1]][2]}
      BY <1>1, <2>2 DEF InflightInv, InflightOf
    <3>2. s[2] = t[2]
      BY <1>1, <2>1, <2>2, <3>1
    <3> QED
      BY <1>1, <2>1, <3>2
  <2>3. CASE ~Dual(s[1])
    <3>1. \E q : inflight[s[1]] \subseteq {q}
      BY <1>1, <2>3 DEF InflightInv, InflightOf
    <3>2. s[2] = t[2]
      BY <1>1, <2>1, <3>1
    <3> QED
      BY <1>1, <2>1, <3>2
  <2> QED
    BY <2>2, <2>3
<1>4. f \in Injection(Outbound, SlotsOf(HeldBy))
  BY <1>2, <1>3 DEF Injection, IsInjective
<1>5. Cardinality(Outbound) <= Cardinality(SlotsOf(HeldBy))
  <2> HIDE DEF f
  <2> QED
    BY <1>4, SlotsFinite, FS_Injection, Zenon
<1> QED
  BY <1>5, SlotsMeaning

(* For any number of calls, providers and slots, and however the semaphore *)
(* grants, the requests that are out at the providers never outnumber the  *)
(* slots taken: dual and retried calls share what they took, and no request*)
(* goes on after its slot was given back.                                  *)
THEOREM RequestsAreBounded == Spec => []OutboundWithinSlots
<1> DEFINE Inv == ControlInv /\ SlotsMatchCalls /\ InflightInv
<1>1. Init => Inv
  BY SlotsInit, InflightInit
<1>2. Inv /\ [Next]_vars => Inv'
  BY SlotsStep, InflightStep
<1>3. Inv => OutboundWithinSlots
  BY OutboundHasSlots DEF OutboundWithinSlots
<1> QED
  BY <1>1, <1>2, <1>3, PTL DEF Spec

-----------------------------------------------------------------------------
(* The way of one call through its code: for each label and kind, how far  *)
(* the call has come with its providers, what it has recorded, which hooks *)
(* have run and what its result may be.                                    *)

SettledIn(v) == {q \in Providers : v[q] # "none"}
GoodIn(v) == {q \in Providers : v[q] = "ok"}
Count(v) == Cardinality(SettledIn(v))
Prefix(o, n) == {o[i] : i \in 1..n}

One == {"chat", "single"}
Over == {"after", "leave", "returned"}
Asking == {"call", "wait", "backoff"}

Distinct(o) == \A i, j \in 1..Len(o) : o[i] = o[j] => i = j

\* How many providers a call has picked.
OrderAt(l, k, o) ==
  /\ Distinct(o)
  /\ l \in {"new", "available", "pair"} \/ (l = "acquire" /\ k \in One) \/ (l = "before" /\ k = "dual")
       => Len(o) = 0
  /\ \/ l \in Asking \cup {"release", "record"}
     \/ l = "before" /\ k # "dual"
     \/ l = "acquire" /\ k \in {"fallback", "audit"}
    => Len(o) >= 1
  /\ l \in {"acquire", "call", "wait", "record", "leave"} /\ k = "dual" => Len(o) = 2
  /\ k \in One \cup {"test"} => Len(o) <= 1
  /\ k \in {"audit", "dual"} => Len(o) <= 2

\* The settled providers are the first ones of the order, and those that a
\* call waits for come next; but the answers of a dual call come in any order.
ProgressAt(l, k, o, v, f) ==
  /\ \/ l \in {"new", "available", "before", "pair"}
     \/ l = "acquire" /\ k \in One \cup {"dual"}
     \/ l = "call" /\ k = "dual"
    => SettledIn(v) = {}
  /\ ~(k = "dual" /\ l = "wait") => Count(v) \in 0..Len(o) /\ SettledIn(v) = Prefix(o, Count(v))
  /\ (l \in Asking /\ k # "dual") \/ (l = "acquire" /\ k \in {"fallback", "audit"})
       => Count(v) < Len(o)
  /\ l \in {"release", "record"} => Count(v) >= 1
  /\ l \in {"record", "leave"} /\ k = "dual" => Count(v) = 2
  /\ l # "wait" => f = {}
  /\ l = "wait" /\ k # "dual" => f = {o[Count(v) + 1]}
  /\ l = "wait" /\ k = "dual" => f # {} /\ f \cap SettledIn(v) = {} /\ f \cup SettledIn(v) = Prefix(o, 2)

\* A fallback goes on as long as nobody has answered, an audit only when its
\* primary has.
VerdictsAt(l, k, o, v) ==
  /\ k = "fallback" =>
       \A i \in 1..Count(v) : v[o[i]] = "ok" => i = Count(v) /\ l \in {"release", "record", "after", "returned"}
  /\ k = "audit" /\ l \in {"acquire", "call", "wait", "record"} /\ Count(v) >= 1 => v[o[1]] = "ok"
  /\ k = "audit" /\ l = "release" /\ Count(v) >= 2 => v[o[1]] = "ok"

TriesAt(l, k, t) ==
  /\ l \notin {"wait", "backoff"} => t = <<>>
  /\ Len(t) <= (IF k \in {"chat", "single", "fallback"} THEN MaxRetries ELSE 0)
  /\ \A i \in 1..Len(t) : t[i] = "transient"

RecordFor(k, o, v, i) ==
  [provider |-> o[i], ok |-> v[o[i]] = "ok",
   from |-> IF k = "fallback" /\ i > 1 THEN o[1] ELSE NoProvider]

\* A fallback records each provider as it comes, the others all at the end.
RecordsAt(l, k, o, v, rs, r) ==
  /\ \A i \in 1..Len(rs) : rs[i] = RecordFor(k, o, v, i)
  /\ Len(rs) <= Count(v)
  /\ k = "fallback" => Len(rs) = IF l \in {"release", "record"} THEN Count(v) - 1 ELSE Count(v)
  /\ k # "fallback" /\ l \notin Over \cup {"record"} => Len(rs) = 0
  /\ l = "record" => Len(rs) < Count(v)
  /\ l \in Over /\ r # "panic" /\ k \notin {"fallback", "test"}
       => Len(rs) = IF k = "audit" /\ r # "ok" THEN 0 ELSE Count(v)

\* The hooks that ran; a dual call that became single ran the first ones before.
HooksAt(l, k, n, b, a, r) ==
  /\ a <= b
  /\ l = "new" \/ k \in {"audit", "test"} => b = 0
  /\ l \in {"available", "before"} \/ (l = "acquire" /\ k \in One)
       => b = IF k = "single" THEN 1 ELSE 0
  /\ /\ k \notin {"audit", "test"}
     /\ \/ l \in Asking \cup {"pair", "release", "record", "after"}
        \/ l = "acquire" /\ k \in {"fallback", "dual"}
        \/ l \in Over /\ n > 0
    => b = IF k = "single" THEN 2 ELSE 1
  /\ l \notin {"leave", "returned"} \/ k = "dual" => a = 0
  /\ l \in {"leave", "returned"} /\ n > 0 /\ (k = "fallback" \/ (k \in One /\ r # "panic"))
       => a = 1

\* What a result that is settled says of the providers.
Says(k, o, v, r) ==
  /\ r = "ok" => GoodIn(v) # {}
  /\ r = "failed" => SettledIn(v) # {} /\ GoodIn(v) = {}
  /\ r = "failed" /\ k \in {"fallback", "dual"} => Count(v) = Len(o)
  /\ k = "fallback" /\ GoodIn(v) # {} => r \in {"ok", "panic"}
  /\ k = "audit" /\ r = "ok" => v[o[1]] = "ok"
  /\ r \in {"closed", "noProvider", "hook"} => SettledIn(v) = {}
  /\ r = "cancelled" /\ GoodIn(v) # {} => k = "audit" /\ Count(v) = 1

ResultAt(l, k, o, v, r) ==
  /\ r = "none" <=> l \notin Over
  /\ r # "none" => Says(k, o, v, r)

PathOf(c) ==
  /\ OrderAt(pc[c], kind[c], order[c])
  /\ ProgressAt(pc[c], kind[c], order[c], verdict[c], inflight[c])
  /\ VerdictsAt(pc[c], kind[c], order[c], verdict[c])
  /\ TriesAt(pc[c], kind[c], tries[c])
  /\ RecordsAt(pc[c], kind[c], order[c], verdict[c], records[c], result[c])
  /\ HooksAt(pc[c], kind[c], Count(verdict[c]), before[c], after[c], result[c])
  /\ ResultAt(pc[c], kind[c], order[c], verdict[c], result[c])

\* The types of what belongs to the calls.
PathType ==
  /\ pc \in [Calls -> Labels]
  /\ kind \in [Calls -> AnyKind]
  /\ order \in [Calls -> Seq(Providers)]
  /\ inflight \in [Calls -> SUBSET Providers]
  /\ tries \in [Calls -> Seq(Outcomes)]
  /\ verdict \in [Calls -> [Providers -> Verdicts]]
  /\ records \in [Calls -> Seq(CallRecord)]
  /\ before \in [Calls -> Nat]
  /\ after \in [Calls -> Nat]
  /\ result \in [Calls -> Results]

PathInv == PathType /\ \A c \in Calls : PathOf(c)

-----------------------------------------------------------------------------
(* The first providers of an order, one after the other.                   *)

LEMMA PrefixSize ==
  ASSUME NEW o \in Seq(Providers), Distinct(o), NEW n \in 0..Len(o)
  PROVE  Prefix(o, n) \subseteq Providers /\ IsFiniteSet(Prefix(o, n)) /\ Cardinality(Prefix(o, n)) = n
<1> DEFINE f == [i \in 1..n |-> o[i]]
<1>1. IsFiniteSet(1..n) /\ Cardinality(1..n) = n
  <2>1. 1 \in Int /\ n \in Int /\ (IF 1 > n THEN 0 ELSE n - 1 + 1) = n
    OBVIOUS
  <2> QED
    BY <2>1, FS_Interval, Zenon
<1>2. \A i \in 1..n : i \in 1..Len(o) /\ o[i] \in Providers
  OBVIOUS
<1>3. f \in Bijection(1..n, Prefix(o, n))
  BY <1>2 DEF Bijection, Injection, IsInjective, Surjection, Prefix, Distinct
<1>4. IsFiniteSet(Prefix(o, n)) /\ Cardinality(Prefix(o, n)) = Cardinality(1..n)
  <2> HIDE DEF f
  <2> QED
    BY <1>1, <1>3, FS_Bijection, Zenon DEF ExistsBijection
<1> QED
  BY <1>1, <1>2, <1>4 DEF Prefix

\* The next provider of the order settles, and what follows.
Settles(o, n, v, x, w) == w = [v EXCEPT ![o[n + 1]] = x]

HasSettled(o, n, v, x, w) ==
  /\ v[o[n + 1]] = "none" /\ w[o[n + 1]] = x
  /\ SettledIn(w) = Prefix(o, n + 1) /\ Count(v) = n /\ Count(w) = n + 1
  /\ \A i \in 1..n : w[o[i]] = v[o[i]]
  /\ x = "ok" => o[n + 1] \in GoodIn(w)
  /\ x = "failed" => GoodIn(w) = GoodIn(v)

Answers == {"ok", "failed"}

LEMMA SettleNext ==
  ASSUME NEW o \in Seq(Providers), Distinct(o), NEW n \in Nat, n < Len(o),
         NEW v \in [Providers -> Verdicts], SettledIn(v) = Prefix(o, n),
         NEW x \in Answers, NEW w, Settles(o, n, v, x, w)
  PROVE  HasSettled(o, n, v, x, w)
<1>1. o[n + 1] \in Providers /\ n + 1 \in 1..Len(o) /\ n \in 0..Len(o) /\ n + 1 \in 0..Len(o)
  OBVIOUS
<1>2. \A i \in 1..n : i \in 1..Len(o) /\ i # n + 1 /\ o[i] # o[n + 1] /\ o[i] \in Providers
  BY <1>1 DEF Distinct
<1>3. o[n + 1] \notin Prefix(o, n)
  BY <1>2 DEF Prefix
<1>4. v[o[n + 1]] = "none"
  BY <1>1, <1>3 DEF SettledIn
<1>5. \A q \in Providers : w[q] = IF q = o[n + 1] THEN x ELSE v[q]
  BY <1>1 DEF Settles
<1>6. Prefix(o, n + 1) = Prefix(o, n) \cup {o[n + 1]}
  BY DEF Prefix
<1>7. SettledIn(w) = SettledIn(v) \cup {o[n + 1]}
  BY <1>1, <1>5 DEF SettledIn, Answers
<1>8. (x = "ok" => o[n + 1] \in GoodIn(w)) /\ (x = "failed" => GoodIn(w) = GoodIn(v))
  BY <1>1, <1>4, <1>5 DEF GoodIn
<1>9. SettledIn(w) = Prefix(o, n + 1)
  BY <1>6, <1>7, Zenon
<1>10. Count(v) = n /\ Count(w) = n + 1
  BY <1>1, <1>9, PrefixSize, Zenon DEF Count
<1> QED
  BY <1>1, <1>2, <1>4, <1>5, <1>8, <1>9, <1>10 DEF HasSettled, Answers

-----------------------------------------------------------------------------
(* A step of one call leaves the others alone.                             *)
Same(d) ==
  /\ pc'[d] = pc[d] /\ kind'[d] = kind[d] /\ order'[d] = order[d]
  /\ inflight'[d] = inflight[d] /\ tries'[d] = tries[d] /\ verdict'[d] = verdict[d]
  /\ records'[d] = records[d] /\ before'[d] = before[d] /\ after'[d] = after[d]
  /\ result'[d] = result[d]

LEMMA SameStays ==
  ASSUME NEW d \in Calls, PathOf(d), Same(d)
  PROVE  PathOf(d)'
BY DEF PathOf, Same

LEMMA OthersStay ==
  ASSUME ControlInv, PathType, NEW c \in Calls, CallStep(c) \/ (\E k \in Kinds : Start(c, k)),
         NEW d \in Calls, d # c
  PROVE  Same(d)
<1> USE DEF PathType, Same, shared, plan, work, hooks
<1>1. CASE \/ NoneAvailable(c) \/ BeforeFails(c) \/ PairNone(c) \/ AcquireFails(c)
           \/ PickPanics(c) \/ SequencePanics(c) \/ Degrade(c) \/ \E k \in Kinds : Start(c, k)
  BY <1>1 DEF NoneAvailable, BeforeFails, PairNone, AcquireFails, Degrade, Start, PickPanics,
              SequencePanics, Settle, Goto
<1>2. CASE (\E o \in Orders : Pick(c, o) \/ Pair(c, o)) \/ Before(c)
  BY <1>2 DEF Pick, Pair, Before, Goto
<1>3. CASE Acquire(c) \/ Ask(c) \/ AskAgain(c) \/ After(c) \/ Leave(c)
  BY <1>3 DEF Acquire, Ask, AskAgain, After, Leave, Goto
<1>4. CASE NotAsked(c) \/ GiveUp(c)
  <2>1. PICK q \in Asked(c) : Verdict(c, q, FALSE)
    BY <1>4 DEF NotAsked, GiveUp, Asked
  <2> QED
    BY <1>4, <2>1 DEF NotAsked, GiveUp, Goto, Verdict
<1>5. CASE Answer(c)
  BY <1>5 DEF Answer, AnswerRetryable, AnswerFinal, Settle, Goto, Verdict
<1>6. CASE Release(c)
  <2>1. SettlesOnly(c) /\ (\E label \in Labels : Goto(c, label))
    BY <1>6, ReleaseGoes DEF Labels
  <2> QED
    BY <1>6, <2>1 DEF Release, SettlesOnly, Goto
<1>7. CASE Record(c)
  <2>1. /\ pc[c] = "record" /\ UNCHANGED <<plan, work, hooks>>
        /\ records' = [records EXCEPT ![c] = Append(@, RecordOf(c, Len(@) + 1))]
        /\ \/ Settle(c, "panic", Unwound(c)) \/ UNCHANGED <<pc, result>> \/ AfterRecord(c)
    BY <1>7 DEF Record
  <2>2. \E r \in Results : UNCHANGED result \/ result' = [result EXCEPT ![c] = r]
    BY <2>1, AfterRecordGoes DEF SettlesOnly, Settle, Results
  <2>3. \E label : UNCHANGED pc \/ Goto(c, label)
    BY <2>1, AfterRecordGoes DEF Settle
  <2> QED
    BY <2>1, <2>2, <2>3 DEF Goto
<1> QED
  BY <1>1, <1>2, <1>3, <1>4, <1>5, <1>6, <1>7 DEF CallStep, Runs

LEMMA PathStays ==
  ASSUME ControlInv, PathInv, NEW c \in Calls, CallStep(c) \/ (\E k \in Kinds : Start(c, k)),
         PathType', PathOf(c)'
  PROVE  PathInv'
<1>1. \A d \in Calls \ {c} : PathOf(d)'
  BY OthersStay, SameStays DEF PathInv
<1> QED
  BY <1>1 DEF PathInv

LEMMA PathInit == Init => PathInv
<1> SUFFICES ASSUME Init PROVE PathInv
  OBVIOUS
<1>1. PathType
  BY DEF Init, PathType, Labels, AnyKind, AllKinds, Verdicts, Results
<1>2. ASSUME NEW c \in Calls PROVE PathOf(c)
  <2>1. /\ pc[c] = "new" /\ kind[c] = "chat" /\ order[c] = <<>> /\ inflight[c] = {} /\ tries[c] = <<>>
        /\ verdict[c] = [q \in Providers |-> "none"] /\ records[c] = <<>>
        /\ before[c] = 0 /\ after[c] = 0 /\ result[c] = "none"
    BY DEF Init
  <2>2. SettledIn(verdict[c]) = {} /\ Prefix(order[c], 0) = {}
    BY <2>1 DEF SettledIn, Prefix
  <2>3. Count(verdict[c]) = 0
    BY <2>2, FS_EmptySet DEF Count
  <2>4. MaxRetries \in Nat
    BY CallsAssumption
  <2>5. OrderAt(pc[c], kind[c], order[c]) /\ TriesAt(pc[c], kind[c], tries[c])
    BY <2>1, <2>4 DEF OrderAt, Distinct, TriesAt, One, Asking
  <2>6. ProgressAt(pc[c], kind[c], order[c], verdict[c], inflight[c])
    BY <2>1, <2>2, <2>3 DEF ProgressAt, One, Asking
  <2>7. /\ VerdictsAt(pc[c], kind[c], order[c], verdict[c])
        /\ RecordsAt(pc[c], kind[c], order[c], verdict[c], records[c], result[c])
    BY <2>1, <2>3 DEF VerdictsAt, RecordsAt, Over
  <2>8. /\ HooksAt(pc[c], kind[c], Count(verdict[c]), before[c], after[c], result[c])
        /\ ResultAt(pc[c], kind[c], order[c], verdict[c], result[c])
    BY <2>1, <2>3 DEF HooksAt, ResultAt, One, Over, Asking
  <2> QED
    BY <2>5, <2>6, <2>7, <2>8 DEF PathOf
<1> QED
  BY <1>1, <1>2 DEF PathInv

-----------------------------------------------------------------------------
(* The steps of a call that has not settled any provider.                  *)

LEMMA Fresh ==
  ASSUME NEW v, SettledIn(v) = {}, NEW l, NEW k, NEW o \in Seq(Providers), NEW r,
         NEW rs, Len(rs) = 0,
         l \notin {"wait", "backoff", "release", "record"}, l = "leave" => k # "dual",
         (l = "call" /\ k # "dual") \/ (l = "acquire" /\ k \in {"fallback", "audit"}) => Len(o) > 0
  PROVE  /\ ProgressAt(l, k, o, v, {}) /\ VerdictsAt(l, k, o, v) /\ RecordsAt(l, k, o, v, rs, r)
         /\ Count(v) = 0 /\ GoodIn(v) = {}
<1>1. Count(v) = 0
  BY FS_EmptySet DEF Count
<1>2. GoodIn(v) = {}
  BY DEF GoodIn, SettledIn
<1>3. Prefix(o, 0) = {}
  BY DEF Prefix
<1>4. ProgressAt(l, k, o, v, {})
  BY <1>1, <1>3 DEF ProgressAt, Asking
<1>5. VerdictsAt(l, k, o, v) /\ RecordsAt(l, k, o, v, rs, r)
  BY <1>1 DEF VerdictsAt, RecordsAt, Over
<1> QED
  BY <1>1, <1>2, <1>4, <1>5

\* A call at its beginning, as it is described above.
Beginning(l, k) ==
  l \in {"new", "available", "before", "pair"} \/ (l = "acquire" /\ k \in One \cup {"dual"})

LEMMA FreshFacts ==
  ASSUME PathInv, NEW c \in Calls, Beginning(pc[c], kind[c])
  PROVE  /\ SettledIn(verdict[c]) = {} /\ Count(verdict[c]) = 0 /\ GoodIn(verdict[c]) = {}
         /\ Len(records[c]) = 0 /\ inflight[c] = {} /\ tries[c] = <<>> /\ result[c] = "none"
         /\ after[c] = 0
<1> USE DEF PathInv, PathOf
<1>1. SettledIn(verdict[c]) = {} /\ inflight[c] = {}
  BY DEF ProgressAt, Beginning
<1>2. Count(verdict[c]) = 0
  BY <1>1, FS_EmptySet DEF Count
<1>3. GoodIn(verdict[c]) = {}
  BY <1>1 DEF GoodIn, SettledIn
<1>4. Len(records[c]) = 0
  <2>1. records[c] \in Seq(CallRecord) /\ Len(records[c]) \in Nat
    BY DEF PathType
  <2> QED
    BY <1>2, <2>1 DEF RecordsAt
<1>5. tries[c] = <<>> /\ result[c] = "none" /\ after[c] = 0
  BY DEF TriesAt, ResultAt, HooksAt, Beginning, Over
<1> QED
  BY <1>1, <1>2, <1>3, <1>4, <1>5

\* What is left to show of a step that settles no provider.
LEMMA FreshStep ==
  ASSUME PathInv, NEW c \in Calls, Beginning(pc[c], kind[c]),
         NEW l \in Labels, pc' = [pc EXCEPT ![c] = l],
         NEW k \in AnyKind, kind' = [kind EXCEPT ![c] = k],
         NEW o \in Seq(Providers), order' = [order EXCEPT ![c] = o],
         NEW b \in Nat, before' = [before EXCEPT ![c] = b],
         NEW r \in Results, result' = [result EXCEPT ![c] = r],
         UNCHANGED <<inflight, tries, verdict, records, after>>,
         OrderAt(l, k, o), HooksAt(l, k, 0, b, 0, r),
         l \notin {"wait", "backoff", "release", "record", "after"}, l = "leave" => k # "dual",
         (l = "call" /\ k # "dual") \/ (l = "acquire" /\ k \in {"fallback", "audit"}) => Len(o) > 0,
         r = "none" <=> l \notin Over,
         r \in {"none", "closed", "noProvider", "hook", "cancelled", "panic"}
  PROVE  PathType' /\ PathOf(c)'
<1>1. PathType'
  BY DEF PathInv, PathType
<1>2. /\ pc'[c] = l /\ kind'[c] = k /\ order'[c] = o /\ before'[c] = b /\ result'[c] = r
      /\ inflight'[c] = inflight[c] /\ tries'[c] = tries[c] /\ verdict'[c] = verdict[c]
      /\ records'[c] = records[c] /\ after'[c] = after[c]
  BY DEF PathInv, PathType
<1>3. /\ SettledIn(verdict[c]) = {} /\ Count(verdict[c]) = 0 /\ GoodIn(verdict[c]) = {}
      /\ Len(records[c]) = 0 /\ inflight[c] = {} /\ tries[c] = <<>> /\ after[c] = 0
  BY FreshFacts
<1>4. /\ ProgressAt(l, k, o, verdict[c], {}) /\ VerdictsAt(l, k, o, verdict[c])
      /\ RecordsAt(l, k, o, verdict[c], records[c], r)
  BY <1>3, Fresh
<1>5. TriesAt(l, k, <<>>)
  BY CallsAssumption DEF TriesAt
<1>6. ResultAt(l, k, o, verdict[c], r)
  BY <1>3 DEF ResultAt, Says
<1> QED
  BY <1>1, <1>2, <1>3, <1>4, <1>5, <1>6, Zenon DEF PathOf

\* EXCEPT that changes nothing.
LEMMA Kept == ASSUME PathType, NEW c \in Calls
  PROVE  /\ kind = [kind EXCEPT ![c] = kind[c]] /\ order = [order EXCEPT ![c] = order[c]]
         /\ before = [before EXCEPT ![c] = before[c]] /\ result = [result EXCEPT ![c] = result[c]]
         /\ pc = [pc EXCEPT ![c] = pc[c]] /\ inflight = [inflight EXCEPT ![c] = inflight[c]]
         /\ tries = [tries EXCEPT ![c] = tries[c]] /\ verdict = [verdict EXCEPT ![c] = verdict[c]]
         /\ records = [records EXCEPT ![c] = records[c]] /\ after = [after EXCEPT ![c] = after[c]]
BY DEF PathType

LEMMA CallType == ASSUME PathInv, NEW c \in Calls
  PROVE  /\ pc[c] \in Labels /\ kind[c] \in AnyKind /\ order[c] \in Seq(Providers) /\ Len(order[c]) \in Nat
         /\ before[c] \in Nat /\ after[c] \in Nat /\ result[c] \in Results /\ PathOf(c)
         /\ tries[c] \in Seq(Outcomes) /\ Len(tries[c]) \in Nat
         /\ verdict[c] \in [Providers -> Verdicts]
         /\ records[c] \in Seq(CallRecord) /\ Len(records[c]) \in Nat
BY DEF PathInv, PathType

LEMMA StartPath ==
  ASSUME PathInv, NEW c \in Calls, NEW k \in Kinds, Start(c, k)
  PROVE  PathType' /\ PathOf(c)'
<1>1. k \in AllKinds /\ k \in AnyKind
  BY CallsAssumption DEF AnyKind
<1>2. pc[c] = "new" /\ UNCHANGED <<order, inflight, tries, verdict, records, before, after>>
      /\ kind' = [kind EXCEPT ![c] = k]
  BY DEF Start, work, hooks
<1>3. OrderAt("new", kind[c], order[c]) /\ before[c] = 0 /\ order[c] \in Seq(Providers) /\ Len(order[c]) = 0
      /\ result[c] = "none"
  BY <1>2, CallType DEF PathOf, OrderAt, HooksAt, ResultAt, Over
<1>4. PICK l \in {"returned", "acquire", "available"}, r \in Results :
        /\ pc' = [pc EXCEPT ![c] = l] /\ result' = [result EXCEPT ![c] = r]
        /\ IF l = "returned" THEN r = "closed" ELSE r = "none"
        /\ l # "returned" => (l = "acquire" <=> k = "chat")
  <2>1. CASE closed /\ k # "test"
    BY <1>3, <2>1 DEF Start, Settle, Goto, Results
  <2>2. CASE ~(closed /\ k # "test")
    <3>1. pc' = [pc EXCEPT ![c] = AfterStart(k)] /\ result' = result
      BY <2>2 DEF Start, Goto
    <3>2. result = [result EXCEPT ![c] = "none"]
      BY <1>3, Kept DEF PathInv
    <3> QED
      BY <3>1, <3>2 DEF AfterStart, Results
  <2> QED
    BY <2>1, <2>2
<1>5. OrderAt(l, k, order[c]) /\ HooksAt(l, k, 0, 0, 0, r)
  BY <1>1, <1>3, <1>4 DEF OrderAt, HooksAt, One, Over, Asking, AllKinds
<1>6. order' = [order EXCEPT ![c] = order[c]] /\ before' = [before EXCEPT ![c] = 0]
  BY <1>2, <1>3, Kept DEF PathInv
<1>7. Beginning(pc[c], kind[c]) /\ l \in Labels
  BY <1>2 DEF Beginning, Labels
<1>8. (l = "call" /\ k # "dual") \/ (l = "acquire" /\ k \in {"fallback", "audit"}) => Len(order[c]) > 0
  BY <1>4
<1> QED
  BY <1>1, <1>2, <1>3, <1>4, <1>5, <1>6, <1>7, <1>8, FreshStep DEF Over

LEMMA BeginPath ==
  ASSUME ControlInv, PathInv, NEW c \in Calls,
         NoneAvailable(c) \/ BeforeFails(c) \/ Before(c) \/ PairNone(c)
  PROVE  PathType' /\ PathOf(c)'
<1>1. /\ UNCHANGED <<kind, order, inflight, tries, verdict, records, after>>
      /\ pc[c] \in {"available", "before", "pair"} /\ Allowed(pc[c], kind[c])
      /\ kind[c] \in AnyKind /\ order[c] \in Seq(Providers) /\ Len(order[c]) \in Nat
      /\ before[c] \in Nat /\ OrderAt(pc[c], kind[c], order[c])
      /\ HooksAt(pc[c], kind[c], 0, before[c], 0, "none") /\ Beginning(pc[c], kind[c])
      /\ result[c] = "none"
  <2>1. pc[c] \in {"available", "before", "pair"} /\ UNCHANGED <<kind, order, inflight, tries, verdict, records, after>>
    BY DEF NoneAvailable, BeforeFails, Before, PairNone, plan, work, hooks
  <2>2. Beginning(pc[c], kind[c]) /\ Allowed(pc[c], kind[c])
    BY <2>1 DEF Beginning, ControlInv
  <2>3. Count(verdict[c]) = 0 /\ result[c] = "none" /\ after[c] = 0
    BY <2>2, FreshFacts
  <2> QED
    BY <2>1, <2>2, <2>3, CallType DEF PathOf
<1>2. PICK l \in Labels, b \in Nat, r \in {"none", "noProvider", "hook"} :
        /\ pc' = [pc EXCEPT ![c] = l] /\ before' = [before EXCEPT ![c] = b]
        /\ result' = [result EXCEPT ![c] = r]
        /\ \/ pc[c] \in {"available", "before"} /\ l = Exit(c) /\ b = before[c] /\ r # "none"
           \/ pc[c] = "pair" /\ l = "returned" /\ b = before[c] /\ r # "none"
           \/ /\ pc[c] = "before" /\ b = before[c] + 1 /\ r = "none"
              /\ \/ l = "call" /\ Chat(c)
                 \/ l = "acquire" /\ Fallback(c)
                 \/ l = "pair" /\ Dual(c)
  <2>1. before = [before EXCEPT ![c] = before[c]] /\ result = [result EXCEPT ![c] = "none"]
    BY <1>1, Kept DEF PathInv
  <2>2. CASE NoneAvailable(c) \/ BeforeFails(c)
    <3>1. Exit(c) \in Labels /\ before' = before
      BY <2>2 DEF Exit, Labels, NoneAvailable, BeforeFails, hooks
    <3>2. pc[c] \in {"available", "before"} /\ pc' = [pc EXCEPT ![c] = Exit(c)]
          /\ \E r \in {"noProvider", "hook"} : result' = [result EXCEPT ![c] = r]
      BY <2>2 DEF NoneAvailable, BeforeFails, Settle, Goto
    <3> QED
      BY <1>1, <2>1, <3>1, <3>2
  <2>3. CASE PairNone(c)
    <3>1. before' = before /\ pc[c] = "pair" /\ pc' = [pc EXCEPT ![c] = "returned"]
          /\ result' = [result EXCEPT ![c] = "noProvider"]
      BY <2>3 DEF PairNone, Settle, Goto, hooks
    <3> QED
      BY <1>1, <2>1, <3>1 DEF Labels
  <2>4. CASE Before(c)
    <3>1. result' = result /\ pc[c] = "before" /\ before' = [before EXCEPT ![c] = before[c] + 1]
      BY <2>4 DEF Before
    <3>2. Chat(c) \/ Fallback(c) \/ Dual(c)
      BY <1>1, <3>1 DEF Allowed, Chat, Fallback, Dual
    <3>3. \/ Chat(c) /\ pc' = [pc EXCEPT ![c] = "call"]
          \/ Fallback(c) /\ pc' = [pc EXCEPT ![c] = "acquire"]
          \/ Dual(c) /\ pc' = [pc EXCEPT ![c] = "pair"]
      BY <2>4, <3>2 DEF Before, Goto, Chat, Fallback, Dual
    <3>4. before[c] + 1 \in Nat
      BY <1>1
    <3> QED
      BY <2>1, <3>1, <3>3, <3>4 DEF Labels
  <2> QED
    BY <2>2, <2>3, <2>4
<1>3. OrderAt(l, kind[c], order[c])
  BY <1>1, <1>2 DEF OrderAt, One, Asking, Exit, Chat, Fallback, Dual
<1>4. HooksAt(l, kind[c], 0, b, 0, r)
  BY <1>1, <1>2 DEF HooksAt, One, Over, Asking, Exit, Chat, Fallback, Dual
<1>5. kind' = [kind EXCEPT ![c] = kind[c]] /\ order' = [order EXCEPT ![c] = order[c]]
  BY <1>1, Kept DEF PathInv
<1>6. (l = "call" /\ kind[c] # "dual") \/ (l = "acquire" /\ kind[c] \in {"fallback", "audit"}) => Len(order[c]) > 0
  BY <1>2, <1>3, <1>1 DEF OrderAt, Asking
<1>7. /\ l \notin {"wait", "backoff", "release", "record", "after"} /\ (l = "leave" => kind[c] # "dual")
      /\ (r = "none" <=> l \notin Over)
  BY <1>2 DEF Over, Exit, Chat
<1> QED
  BY ZenonT(40), <1>1, <1>2, <1>3, <1>4, <1>5, <1>6, <1>7, FreshStep DEF Results

\* A panic while picking: nobody has been asked.
LEMMA PickPanicsPath ==
  ASSUME ControlInv, PathInv, NEW c \in Calls, PickPanics(c) \/ (SequencePanics(c) /\ pc[c] = "pair")
  PROVE  PathType' /\ PathOf(c)'
<1>1. PICK l \in {"leave", "returned"} :
        /\ pc' = [pc EXCEPT ![c] = l] /\ result' = [result EXCEPT ![c] = "panic"]
        /\ UNCHANGED <<kind, order, inflight, tries, verdict, records, before, after>>
        /\ \/ pc[c] = "available" /\ kind[c] \in One /\ l = "leave"
           \/ pc[c] = "pair" /\ kind[c] = "dual" /\ l = "returned"
  BY DEF PickPanics, SequencePanics, Settle, Goto, Chat, One, plan, work, hooks, ControlInv, Allowed
<1>2. Beginning(pc[c], kind[c])
  BY <1>1 DEF Beginning
<1>3. Count(verdict[c]) = 0 /\ result[c] = "none" /\ after[c] = 0
  BY <1>2, FreshFacts
<1>4. /\ OrderAt(pc[c], kind[c], order[c]) /\ HooksAt(pc[c], kind[c], 0, before[c], 0, "none")
      /\ kind[c] \in AnyKind /\ order[c] \in Seq(Providers) /\ Len(order[c]) \in Nat /\ before[c] \in Nat
  BY <1>3, CallType DEF PathOf
<1>5. OrderAt(l, kind[c], order[c]) /\ HooksAt(l, kind[c], 0, before[c], 0, "panic")
  BY <1>1, <1>4 DEF OrderAt, HooksAt, One, Over, Asking
<1>6. /\ kind' = [kind EXCEPT ![c] = kind[c]] /\ order' = [order EXCEPT ![c] = order[c]]
      /\ before' = [before EXCEPT ![c] = before[c]]
  BY <1>1, Kept DEF PathInv
<1>7. /\ l \in Labels /\ "panic" \in Results /\ l \in Over
      /\ l \notin {"wait", "backoff", "release", "record", "after", "call", "acquire"}
      /\ l = "leave" => kind[c] # "dual"
  BY <1>1 DEF Labels, Results, Over, One
<1> QED
  BY <1>1, <1>2, <1>4, <1>5, <1>6, <1>7, FreshStep

\* What is picked out of an order is one, too.
LEMMA SubOrder ==
  ASSUME NEW o \in Orders, NEW n \in 0..Len(o)
  PROVE  /\ SubSeq(o, 1, n) \in Seq(Providers) /\ Len(SubSeq(o, 1, n)) = n
         /\ Distinct(SubSeq(o, 1, n)) /\ Len(o) \in Nat \ {0}
<1>1. o \in Seq(Providers) /\ Len(o) \in Nat \ {0}
  BY CallsAssumption
<1>2. \A i, j \in 1..Len(o) : o[i] = o[j] => i = j
  BY CallsAssumption
<1>3. SubSeq(o, 1, n) \in Seq(Providers) /\ Len(SubSeq(o, 1, n)) = n
  BY <1>1
<1>4. \A i \in 1..n : SubSeq(o, 1, n)[i] = o[i] /\ i \in 1..Len(o)
  BY <1>1
<1>5. Distinct(SubSeq(o, 1, n))
  <2> DEFINE p == SubSeq(o, 1, n)
  <2> SUFFICES ASSUME NEW i \in 1..Len(p), NEW j \in 1..Len(p), p[i] = p[j] PROVE i = j
    BY DEF Distinct
  <2>1. i \in 1..n /\ j \in 1..n
    BY <1>3
  <2>2. p[i] = o[i] /\ p[j] = o[j]
    BY <1>4, <2>1
  <2> QED
    BY <1>2, <1>4, <2>1, <2>2
<1> QED
  BY <1>1, <1>3, <1>5

LEMMA PickPath ==
  ASSUME ControlInv, PathInv, NEW c \in Calls, NEW p \in Orders, Pick(c, p)
  PROVE  PathType' /\ PathOf(c)'
<1>1. /\ UNCHANGED <<kind, inflight, tries, verdict, records, before, after, result>>
      /\ pc[c] = "available" /\ Beginning(pc[c], kind[c]) /\ kind[c] \in AnyKind
      /\ before[c] \in Nat /\ HooksAt("available", kind[c], 0, before[c], 0, "none")
      /\ result[c] = "none"
  <2>1. UNCHANGED <<kind, inflight, tries, verdict, records, before, after, result>> /\ pc[c] = "available"
    BY DEF Pick, work, hooks
  <2>2. Beginning(pc[c], kind[c])
    BY <2>1 DEF Beginning
  <2>3. Count(verdict[c]) = 0 /\ result[c] = "none" /\ after[c] = 0
    BY <2>2, FreshFacts
  <2> QED
    BY <2>1, <2>2, <2>3, CallType DEF PathOf
<1>2. Len(p) \in Nat \ {0}
  BY CallsAssumption
<1>3. PICK n \in 0..Len(p) :
        /\ order' = [order EXCEPT ![c] = SubSeq(p, 1, n)]
        /\ kind[c] = "dual" => n = 0
        /\ kind[c] # "dual" => n >= 1
        /\ kind[c] = "audit" => n <= 2
        /\ kind[c] \in One \cup {"test"} => n = 1
  <2>1. PICK n \in IF Fallback(c) THEN {Len(p)}
                   ELSE IF Audit(c) THEN 1..2 ELSE {IF Dual(c) THEN 0 ELSE 1} :
          order' = [order EXCEPT ![c] = SubSeq(p, 1, n)]
    BY DEF Pick
  <2>2. kind[c] = "audit" => Len(p) >= 2
    BY DEF Pick, Audit
  <2>3. /\ n \in 0..Len(p) /\ (kind[c] = "dual" => n = 0) /\ (kind[c] # "dual" => n >= 1)
        /\ (kind[c] = "audit" => n <= 2) /\ (kind[c] \in One \cup {"test"} => n = 1)
    BY <1>2, <2>1, <2>2 DEF Fallback, Audit, Dual, One
  <2> QED
    BY <2>1, <2>3
<1>4. PICK l \in {"acquire", "call", "before"} :
        /\ pc' = [pc EXCEPT ![c] = l]
        /\ IF kind[c] = "audit" THEN l = "acquire" ELSE IF kind[c] = "test" THEN l = "call" ELSE l = "before"
  BY DEF Pick, Goto, Audit
<1>5. DEFINE o == SubSeq(p, 1, n)
<1>6. o \in Seq(Providers) /\ Len(o) = n /\ Distinct(o)
  BY SubOrder
<1>7. OrderAt(l, kind[c], o)
  <2> HIDE DEF o
  <2> QED
    BY <1>1, <1>2, <1>3, <1>4, <1>6 DEF OrderAt, One, Asking, AnyKind, AllKinds
<1>8. HooksAt(l, kind[c], 0, before[c], 0, "none")
  BY <1>1, <1>4 DEF HooksAt, One, Asking, Over, AnyKind, AllKinds
<1>9. /\ kind' = [kind EXCEPT ![c] = kind[c]] /\ before' = [before EXCEPT ![c] = before[c]]
      /\ result' = [result EXCEPT ![c] = "none"]
  BY <1>1, Kept DEF PathInv
<1>10. (l = "call" /\ kind[c] # "dual") \/ (l = "acquire" /\ kind[c] \in {"fallback", "audit"}) => Len(o) > 0
  <2> HIDE DEF o
  <2> QED
    BY <1>3, <1>6
<1>11. order' = [order EXCEPT ![c] = o]
  BY <1>3
<1> QED
  <2>1. l \in Labels /\ "none" \in Results /\ l \notin Over
    BY <1>4 DEF Labels, Results, Over
  <2> HIDE DEF o
  <2> QED
    BY <1>1, <1>4, <1>6, <1>7, <1>8, <1>9, <1>10, <1>11, <2>1, FreshStep

LEMMA PairPath ==
  ASSUME ControlInv, PathInv, NEW c \in Calls, NEW p \in Orders, Pair(c, p)
  PROVE  PathType' /\ PathOf(c)'
<1>1. /\ UNCHANGED <<kind, inflight, tries, verdict, records, before, after, result>>
      /\ pc[c] = "pair" /\ Beginning(pc[c], kind[c]) /\ kind[c] = "dual"
      /\ before[c] \in Nat /\ HooksAt("pair", kind[c], 0, before[c], 0, "none")
      /\ result[c] = "none"
  <2>1. UNCHANGED <<kind, inflight, tries, verdict, records, before, after, result>> /\ pc[c] = "pair"
    BY DEF Pair, work, hooks
  <2>2. Beginning(pc[c], kind[c]) /\ kind[c] = "dual"
    BY <2>1 DEF Beginning, ControlInv, Allowed
  <2>3. Count(verdict[c]) = 0 /\ result[c] = "none" /\ after[c] = 0
    BY <2>2, FreshFacts
  <2> QED
    BY <2>1, <2>2, <2>3, CallType DEF PathOf
<1>2. /\ 2 \in 0..Len(p) /\ order' = [order EXCEPT ![c] = SubSeq(p, 1, 2)]
      /\ pc' = [pc EXCEPT ![c] = "acquire"]
  BY CallsAssumption DEF Pair, Goto
<1>3. DEFINE o == SubSeq(p, 1, 2)
<1>4. o \in Seq(Providers) /\ Len(o) = 2 /\ Distinct(o)
  BY <1>2, SubOrder
<1>5. OrderAt("acquire", "dual", o)
  <2> HIDE DEF o
  <2> QED
    BY <1>4 DEF OrderAt, One, Asking
<1>6. HooksAt("acquire", "dual", 0, before[c], 0, "none")
  BY <1>1 DEF HooksAt, One, Asking, Over
<1>7. /\ kind' = [kind EXCEPT ![c] = "dual"] /\ before' = [before EXCEPT ![c] = before[c]]
      /\ result' = [result EXCEPT ![c] = "none"]
  BY <1>1, Kept DEF PathInv
<1>8. order' = [order EXCEPT ![c] = o]
  BY <1>2
<1>9. "acquire" \in Labels /\ "dual" \in AnyKind /\ "none" \in Results /\ "acquire" \notin Over
  BY DEF Labels, Results, Over, AnyKind, AllKinds
<1> HIDE DEF o
<1> QED
  BY <1>1, <1>2, <1>4, <1>5, <1>6, <1>7, <1>8, <1>9, FreshStep

LEMMA DegradePath ==
  ASSUME ControlInv, PathInv, NEW c \in Calls, Degrade(c)
  PROVE  PathType' /\ PathOf(c)'
<1>1. /\ UNCHANGED <<order, inflight, tries, verdict, records, before, after>>
      /\ pc[c] = "pair" /\ Beginning(pc[c], kind[c]) /\ kind[c] = "dual"
      /\ before[c] = 1 /\ order[c] \in Seq(Providers) /\ Len(order[c]) = 0
      /\ result[c] = "none" /\ kind' = [kind EXCEPT ![c] = "single"] /\ Distinct(order[c])
  <2>1. UNCHANGED <<order, inflight, tries, verdict, records, before, after>> /\ pc[c] = "pair"
        /\ kind' = [kind EXCEPT ![c] = "single"]
    BY DEF Degrade, work, hooks
  <2>2. Beginning(pc[c], kind[c]) /\ kind[c] = "dual"
    BY <2>1 DEF Beginning, ControlInv, Allowed
  <2>3. Count(verdict[c]) = 0 /\ result[c] = "none"
    BY <2>2, FreshFacts
  <2>4. before[c] = 1 /\ Len(order[c]) = 0 /\ Distinct(order[c])
    BY <2>1, <2>2, CallType DEF PathOf, HooksAt, OrderAt, Asking
  <2> QED
    BY <2>1, <2>2, <2>3, <2>4, CallType
<1>2. PICK l \in {"returned", "acquire"}, r \in {"closed", "none"} :
        /\ pc' = [pc EXCEPT ![c] = l] /\ result' = [result EXCEPT ![c] = r]
        /\ r = "none" <=> l = "acquire"
  <2>1. result = [result EXCEPT ![c] = "none"]
    BY <1>1, Kept DEF PathInv
  <2>2. CASE closed
    BY <2>2 DEF Degrade, Settle, Goto
  <2>3. CASE ~closed
    BY <2>1, <2>3 DEF Degrade, Goto
  <2> QED
    BY <2>2, <2>3
<1>3. OrderAt(l, "single", order[c]) /\ HooksAt(l, "single", 0, 1, 0, r)
  BY <1>1, <1>2 DEF OrderAt, HooksAt, One, Over, Asking
<1>4. order' = [order EXCEPT ![c] = order[c]] /\ before' = [before EXCEPT ![c] = 1]
  BY <1>1, Kept DEF PathInv
<1>5. l \in Labels /\ r \in Results /\ "single" \in AnyKind /\ (r = "none" <=> l \notin Over)
  BY <1>2 DEF Labels, Results, AnyKind, Over
<1> QED
  BY <1>1, <1>2, <1>3, <1>4, <1>5, FreshStep

-----------------------------------------------------------------------------
(* The steps from the slot on.                                             *)

\* What is left to show of a step that keeps kind and order.
LEMMA StepTo ==
  ASSUME PathInv, NEW c \in Calls, UNCHANGED <<kind, order, before>>,
         NEW l \in Labels, pc' = [pc EXCEPT ![c] = l],
         NEW f \in SUBSET Providers, inflight' = [inflight EXCEPT ![c] = f],
         NEW t \in Seq(Outcomes), tries' = [tries EXCEPT ![c] = t],
         NEW v \in [Providers -> Verdicts], verdict' = [verdict EXCEPT ![c] = v],
         NEW rs \in Seq(CallRecord), records' = [records EXCEPT ![c] = rs],
         NEW a \in Nat, after' = [after EXCEPT ![c] = a],
         NEW r \in Results, result' = [result EXCEPT ![c] = r],
         OrderAt(l, kind[c], order[c]), ProgressAt(l, kind[c], order[c], v, f),
         VerdictsAt(l, kind[c], order[c], v), TriesAt(l, kind[c], t),
         RecordsAt(l, kind[c], order[c], v, rs, r),
         HooksAt(l, kind[c], Count(v), before[c], a, r),
         ResultAt(l, kind[c], order[c], v, r)
  PROVE  PathType' /\ PathOf(c)'
<1>1. PathType'
  BY DEF PathInv, PathType
<1>2. /\ pc'[c] = l /\ kind'[c] = kind[c] /\ order'[c] = order[c] /\ before'[c] = before[c]
      /\ result'[c] = r /\ inflight'[c] = f /\ tries'[c] = t /\ verdict'[c] = v
      /\ records'[c] = rs /\ after'[c] = a
  BY DEF PathInv, PathType
<1> QED
  BY <1>1, <1>2, Zenon DEF PathOf

\* When the step neither asks nor records anything.
LEMMA WalkTo ==
  ASSUME PathInv, NEW c \in Calls, pc[c] # "wait",
         UNCHANGED <<kind, order, before, inflight, tries, verdict, records>>,
         NEW l \in Labels \ {"wait", "backoff"}, pc' = [pc EXCEPT ![c] = l],
         NEW a \in Nat, after' = [after EXCEPT ![c] = a],
         NEW r \in Results, result' = [result EXCEPT ![c] = r],
         pc[c] # "backoff",
         OrderAt(l, kind[c], order[c]), ProgressAt(l, kind[c], order[c], verdict[c], {}),
         VerdictsAt(l, kind[c], order[c], verdict[c]),
         RecordsAt(l, kind[c], order[c], verdict[c], records[c], r),
         HooksAt(l, kind[c], Count(verdict[c]), before[c], a, r),
         ResultAt(l, kind[c], order[c], verdict[c], r)
  PROVE  PathType' /\ PathOf(c)'
<1>1. inflight[c] = {} /\ tries[c] = <<>>
  BY CallType DEF PathOf, ProgressAt, TriesAt
<1>2. TriesAt(l, kind[c], <<>>)
  BY CallsAssumption DEF TriesAt
<1>3. /\ inflight' = [inflight EXCEPT ![c] = {}] /\ tries' = [tries EXCEPT ![c] = <<>>]
      /\ verdict' = [verdict EXCEPT ![c] = verdict[c]] /\ records' = [records EXCEPT ![c] = records[c]]
  BY <1>1, Kept DEF PathInv
<1>4. {} \in SUBSET Providers /\ <<>> \in Seq(Outcomes)
  OBVIOUS
<1> QED
  BY <1>2, <1>3, <1>4, CallType, StepTo

LEMMA CountType ==
  ASSUME PathInv, NEW c \in Calls, ~(pc[c] = "wait" /\ kind[c] = "dual")
  PROVE  Count(verdict[c]) \in Nat /\ Count(verdict[c]) \in 0..Len(order[c])
         /\ SettledIn(verdict[c]) = Prefix(order[c], Count(verdict[c]))
BY CallType DEF PathOf, ProgressAt

LEMMA AcquirePath ==
  ASSUME ControlInv, PathInv, NEW c \in Calls, Acquire(c)
  PROVE  PathType' /\ PathOf(c)'
<1> DEFINE k == kind[c]
           n == Count(verdict[c])
<1>1. /\ UNCHANGED <<kind, order, inflight, tries, verdict, records, before, after, result>>
      /\ pc[c] = "acquire" /\ k \in AnyKind \ {"test"}
      /\ pc' = [pc EXCEPT ![c] = IF k \in One THEN "available" ELSE "call"]
  BY DEF Acquire, plan, work, hooks, Goto, Chat, One, ControlInv, ControlType, Allowed
<1>2. PICK l \in {"available", "call"} :
        pc' = [pc EXCEPT ![c] = l] /\ (l = "available" <=> k \in One)
  BY <1>1
<1>3. /\ OrderAt("acquire", k, order[c]) /\ ProgressAt("acquire", k, order[c], verdict[c], inflight[c])
      /\ VerdictsAt("acquire", k, order[c], verdict[c])
      /\ RecordsAt("acquire", k, order[c], verdict[c], records[c], result[c])
      /\ HooksAt("acquire", k, n, before[c], after[c], result[c])
      /\ ResultAt("acquire", k, order[c], verdict[c], result[c])
  BY <1>1, CallType DEF PathOf
<1>4. n \in Nat /\ Len(order[c]) \in Nat
  BY <1>1, CountType, CallType
<1> HIDE DEF k, n
<1>5. OrderAt(l, k, order[c])
  <2>1. CASE l = "available"
    BY <1>2, <1>3, <2>1 DEF OrderAt, One, Asking
  <2>2. CASE l = "call"
    <3>1. k \in {"fallback", "audit", "dual"}
      BY <1>1, <1>2, <2>2 DEF One, AnyKind, AllKinds
    <3>2. OrderAt("acquire", k, order[c])
      BY <1>3
    <3>4. k = "dual" => Len(order[c]) = 2
      BY <3>2 DEF OrderAt
    <3>5. k # "dual" => Len(order[c]) >= 1
      BY <3>1, <3>2 DEF OrderAt
    <3>3. Distinct(order[c]) /\ (k \in {"audit", "dual"} => Len(order[c]) <= 2)
      BY <1>3 DEF OrderAt
    <3> QED
      BY <2>2, <3>1, <3>3, <3>4, <3>5 DEF OrderAt, One, Asking
  <2> QED
    BY <2>1, <2>2
<1>6. ProgressAt(l, k, order[c], verdict[c], {})
  BY <1>1, <1>2, <1>3 DEF ProgressAt, One, Asking, AnyKind, AllKinds
<1>7. VerdictsAt(l, k, order[c], verdict[c])
  BY <1>2, <1>3 DEF VerdictsAt, One
<1>8. RecordsAt(l, k, order[c], verdict[c], records[c], result[c])
  BY <1>2, <1>3 DEF RecordsAt, One, Over
<1>9. HooksAt(l, k, n, before[c], after[c], result[c])
  BY <1>1, <1>2, <1>3 DEF HooksAt, One, Over, Asking, AnyKind, AllKinds
<1>10. ResultAt(l, k, order[c], verdict[c], result[c])
  BY <1>2, <1>3 DEF ResultAt, Over
<1>11. after' = [after EXCEPT ![c] = after[c]] /\ result' = [result EXCEPT ![c] = result[c]]
       /\ after[c] \in Nat /\ result[c] \in Results
  BY <1>1, Kept, CallType DEF PathInv
<1>12. l \in Labels \ {"wait", "backoff"}
  BY <1>2 DEF Labels
<1> QED
  BY <1>1, <1>2, <1>5, <1>6, <1>7, <1>8, <1>9, <1>10, <1>11, <1>12, WalkTo DEF k, n

LEMMA AcquireFailsPath ==
  ASSUME ControlInv, PathInv, NEW c \in Calls,
         AcquireFails(c) \/ (SequencePanics(c) /\ pc[c] = "acquire")
  PROVE  PathType' /\ PathOf(c)'
<1> DEFINE k == kind[c]
           n == Count(verdict[c])
<1>1. /\ UNCHANGED <<kind, order, inflight, tries, verdict, records, before, after>>
      /\ pc[c] = "acquire" /\ k \in AnyKind \ {"test"}
      /\ \/ result' = [result EXCEPT ![c] = "cancelled"]
         \/ result' = [result EXCEPT ![c] = "panic"] /\ k = "fallback"
      /\ pc' = [pc EXCEPT ![c] = IF k = "fallback" THEN "after" ELSE "returned"]
  BY DEF AcquireFails, SequencePanics, plan, work, hooks, Settle, Goto, Fallback, ControlInv, ControlType, Allowed
<1>2. PICK l \in {"after", "returned"} :
        pc' = [pc EXCEPT ![c] = l] /\ (l = "after" <=> k = "fallback")
  BY <1>1
<1>15. PICK r \in {"cancelled", "panic"} :
         result' = [result EXCEPT ![c] = r] /\ (r = "panic" => k = "fallback")
  BY <1>1
<1>3. /\ OrderAt("acquire", k, order[c]) /\ ProgressAt("acquire", k, order[c], verdict[c], inflight[c])
      /\ VerdictsAt("acquire", k, order[c], verdict[c])
      /\ RecordsAt("acquire", k, order[c], verdict[c], records[c], result[c])
      /\ HooksAt("acquire", k, n, before[c], after[c], result[c])
  BY <1>1, CallType DEF PathOf
<1>4. n \in Nat /\ n \in 0..Len(order[c]) /\ SettledIn(verdict[c]) = Prefix(order[c], n)
      /\ Len(order[c]) \in Nat /\ Len(records[c]) \in Nat
  BY <1>1, CountType, CallType
<1>5. k \notin {"fallback", "audit"} => n = 0
  BY <1>1, <1>3, FS_EmptySet DEF ProgressAt, AnyKind, AllKinds, One, Count
<1>6. n = 0 => GoodIn(verdict[c]) = {}
  BY <1>4 DEF GoodIn, SettledIn, Prefix
<1> HIDE DEF k, n
<1>7. OrderAt(l, k, order[c])
  BY <1>1, <1>2, <1>3 DEF OrderAt, One, Asking, AnyKind, AllKinds
<1>8. ProgressAt(l, k, order[c], verdict[c], {})
  BY <1>1, <1>2, <1>3, <1>4 DEF ProgressAt, One, Asking, n
<1>9. VerdictsAt(l, k, order[c], verdict[c])
  BY <1>2, <1>3 DEF VerdictsAt
<1>10. RecordsAt(l, k, order[c], verdict[c], records[c], r)
  BY <1>1, <1>2, <1>15, <1>3, <1>4, <1>5 DEF RecordsAt, Over, n
<1>11. HooksAt(l, k, n, before[c], after[c], r)
  BY <1>1, <1>2, <1>15, <1>3, <1>4, <1>5 DEF HooksAt, One, Over, Asking, AnyKind, AllKinds
<1>12. ResultAt(l, k, order[c], verdict[c], r)
  <2>1. k = "fallback" => GoodIn(verdict[c]) = {}
    BY <1>3, <1>4 DEF VerdictsAt, GoodIn, SettledIn, Prefix, n
  <2>2. k = "audit" => n \in {0, 1}
    BY <1>3, <1>4 DEF OrderAt, ProgressAt, n
  <2>3. GoodIn(verdict[c]) # {} => k = "audit" /\ n = 1
    BY <1>5, <1>6, <2>1, <2>2
  <2> QED
    BY <1>2, <1>15, <2>1, <2>3 DEF ResultAt, Says, Over, n
<1>13. after' = [after EXCEPT ![c] = after[c]] /\ after[c] \in Nat
  BY <1>1, Kept, CallType DEF PathInv
<1>14. l \in Labels \ {"wait", "backoff"} /\ r \in Results
  BY <1>2 DEF Labels, Results
<1> QED
  BY <1>1, <1>2, <1>15, <1>7, <1>8, <1>9, <1>10, <1>11, <1>12, <1>13, <1>14, WalkTo DEF k, n

LEMMA AskedIs ==
  ASSUME PathInv, NEW c \in Calls, pc[c] \in Asking, kind[c] # "dual"
  PROVE  LET n == Count(verdict[c])
         IN  /\ Asked(c) = {order[c][n + 1]} /\ order[c][n + 1] \in Providers
             /\ n \in Nat /\ n < Len(order[c]) /\ Distinct(order[c])
             /\ SettledIn(verdict[c]) = Prefix(order[c], n)
<1>1. Count(verdict[c]) \in Nat /\ SettledIn(verdict[c]) = Prefix(order[c], Count(verdict[c]))
  BY CountType
<1>2. Count(verdict[c]) < Len(order[c])
  BY CallType DEF PathOf, ProgressAt
<1>3. order[c][Count(verdict[c]) + 1] \in Providers
  BY <1>1, <1>2, CallType
<1>4. Asked(c) = {order[c][Count(verdict[c]) + 1]}
  BY DEF Asked, Dual, Settled, Count, SettledIn
<1> QED
  BY <1>1, <1>2, <1>3, <1>4, CallType DEF PathOf, OrderAt

LEMMA AskPath ==
  ASSUME ControlInv, PathInv, NEW c \in Calls, Ask(c) \/ AskAgain(c)
  PROVE  PathType' /\ PathOf(c)'
<1> DEFINE k == kind[c]
           n == Count(verdict[c])
<1>1. /\ UNCHANGED <<kind, order, tries, verdict, records, before, after, result>>
      /\ pc[c] \in {"call", "backoff"} /\ k \in AnyKind /\ (pc[c] = "backoff" => k \in One \cup {"fallback"})
      /\ inflight' = [inflight EXCEPT ![c] = Asked(c)] /\ pc' = [pc EXCEPT ![c] = "wait"]
  BY DEF Ask, AskAgain, plan, hooks, Goto, ControlInv, ControlType, Allowed, One
<1>2. /\ OrderAt(pc[c], k, order[c]) /\ ProgressAt(pc[c], k, order[c], verdict[c], inflight[c])
      /\ VerdictsAt(pc[c], k, order[c], verdict[c]) /\ TriesAt(pc[c], k, tries[c])
      /\ RecordsAt(pc[c], k, order[c], verdict[c], records[c], result[c])
      /\ HooksAt(pc[c], k, n, before[c], after[c], result[c])
      /\ ResultAt(pc[c], k, order[c], verdict[c], result[c])
  BY CallType DEF PathOf
<1>3. n \in Nat
  BY <1>1, CountType
<1>4. Asked(c) \subseteq Providers /\ ProgressAt("wait", k, order[c], verdict[c], Asked(c))
  <2>1. CASE k # "dual"
    <3>1. pc[c] \in Asking
      BY <1>1 DEF Asking
    <3>2. Asked(c) = {order[c][n + 1]} /\ order[c][n + 1] \in Providers /\ n < Len(order[c])
      BY <2>1, <3>1, AskedIs
    <3> QED
      BY <1>1, <1>2, <2>1, <3>2 DEF ProgressAt, Asking
  <2>2. CASE k = "dual"
    <3>0. pc[c] = "call"
      BY <1>1, <2>2 DEF One
    <3>1. SettledIn(verdict[c]) = {} /\ Len(order[c]) = 2 /\ order[c] \in Seq(Providers)
      BY <1>2, <2>2, <3>0, CallType DEF ProgressAt, OrderAt
    <3>2. Asked(c) = {order[c][1], order[c][2]}
      BY <2>2 DEF Asked, Dual
    <3>3. Asked(c) = Prefix(order[c], 2)
      BY <3>2 DEF Prefix
    <3>4. Asked(c) \subseteq Providers /\ Asked(c) # {}
      BY <3>1, <3>2
    <3> QED
      BY <2>2, <3>1, <3>3, <3>4 DEF ProgressAt, Asking
  <2> QED
    BY <2>1, <2>2
<1> HIDE DEF k, n
<1>5. Distinct(order[c]) /\ Len(order[c]) >= 1 /\ (k \in {"audit", "dual"} => Len(order[c]) <= 2)
      /\ (k = "dual" => Len(order[c]) = 2) /\ (k \in One \cup {"test"} => Len(order[c]) <= 1)
  <2>1. OrderAt(pc[c], k, order[c])
    BY <1>2
  <2>2. pc[c] \in Asking /\ (k = "dual" => pc[c] = "call")
    BY <1>1 DEF Asking, One
  <2>3. Len(order[c]) >= 1 /\ Distinct(order[c])
    BY <2>1, <2>2 DEF OrderAt
  <2>4. /\ k \in {"audit", "dual"} => Len(order[c]) <= 2
        /\ k \in One \cup {"test"} => Len(order[c]) <= 1
    BY <2>1 DEF OrderAt
  <2>5. k = "dual" => Len(order[c]) = 2
    BY <2>1, <2>2 DEF OrderAt
  <2> QED
    BY <2>3, <2>4, <2>5
<1>6. OrderAt("wait", k, order[c])
  BY <1>5 DEF OrderAt, Asking
<1>7. VerdictsAt("wait", k, order[c], verdict[c])
  <2>1. k = "fallback" => \A i \in 1..n : verdict[c][order[c][i]] # "ok"
    BY <1>1, <1>2 DEF VerdictsAt, n
  <2>2. k = "audit" /\ n >= 1 => verdict[c][order[c][1]] = "ok"
    BY <1>1, <1>2 DEF VerdictsAt, One, n
  <2> QED
    BY <2>1, <2>2 DEF VerdictsAt, n
<1>8. TriesAt("wait", k, tries[c])
  BY <1>2 DEF TriesAt
<1>9. RecordsAt("wait", k, order[c], verdict[c], records[c], result[c])
  BY <1>1, <1>2 DEF RecordsAt, Over
<1>10. HooksAt("wait", k, n, before[c], after[c], result[c])
  BY <1>1, <1>2 DEF HooksAt, Asking, Over
<1>11. ResultAt("wait", k, order[c], verdict[c], result[c])
  BY <1>1, <1>2 DEF ResultAt, Over
<1>12. /\ after' = [after EXCEPT ![c] = after[c]] /\ result' = [result EXCEPT ![c] = result[c]]
       /\ tries' = [tries EXCEPT ![c] = tries[c]] /\ verdict' = [verdict EXCEPT ![c] = verdict[c]]
       /\ records' = [records EXCEPT ![c] = records[c]] /\ "wait" \in Labels
  BY <1>1, Kept DEF PathInv, Labels
<1> QED
  BY <1>1, <1>4, <1>6, <1>7, <1>8, <1>9, <1>10, <1>11, <1>12, CallType, StepTo DEF k, n

\* An answer that ends the questions to the next provider of an order.
LEMMA SettlePath ==
  ASSUME ControlInv, PathInv, NEW c \in Calls, pc[c] \in Asking, kind[c] # "dual",
         UNCHANGED <<kind, order, records, before, after>>,
         NEW q \in Asked(c), NEW x \in {"ok", "failed"},
         verdict' = [verdict EXCEPT ![c][q] = x],
         inflight' = [inflight EXCEPT ![c] = {}], tries' = [tries EXCEPT ![c] = <<>>],
         IF kind[c] = "test"
         THEN pc' = [pc EXCEPT ![c] = "returned"] /\ result' = [result EXCEPT ![c] = x]
         ELSE pc' = [pc EXCEPT ![c] = AfterWait(c)] /\ UNCHANGED result
  PROVE  PathType' /\ PathOf(c)'
<1> DEFINE k == kind[c]
           o == order[c]
           v == verdict[c]
           n == Count(v)
           w == [v EXCEPT ![q] = x]
           rs == records[c]
<1>1. /\ OrderAt(pc[c], k, o) /\ ProgressAt(pc[c], k, o, v, inflight[c])
      /\ VerdictsAt(pc[c], k, o, v)
      /\ RecordsAt(pc[c], k, o, v, rs, result[c])
      /\ HooksAt(pc[c], k, n, before[c], after[c], result[c])
      /\ ResultAt(pc[c], k, o, v, result[c])
      /\ o \in Seq(Providers) /\ Len(o) \in Nat /\ k \in AnyKind /\ v \in [Providers -> Verdicts]
      /\ rs \in Seq(CallRecord) /\ Len(rs) \in Nat
  BY CallType DEF PathOf
<1>2. /\ q = o[n + 1] /\ q \in Providers /\ n \in Nat /\ n < Len(o) /\ Distinct(o)
      /\ SettledIn(v) = Prefix(o, n)
  BY AskedIs
<1>3. w \in [Providers -> Verdicts] /\ verdict' = [verdict EXCEPT ![c] = w]
  BY <1>1 DEF Verdicts
<1>4. Settles(o, n, v, x, w)
  BY <1>2 DEF Settles
<1> HIDE DEF k, o, v, w, rs
<1>5. /\ w[o[n + 1]] = x /\ SettledIn(w) = Prefix(o, n + 1) /\ Count(w) = n + 1
      /\ \A i \in 1..n : w[o[i]] = v[o[i]]
      /\ (x = "ok" => o[n + 1] \in GoodIn(w)) /\ (x = "failed" => GoodIn(w) = GoodIn(v))
  <2>1. o \in Seq(Providers) /\ v \in [Providers -> Verdicts]
    BY <1>1
  <2>2. n \in Nat /\ n < Len(o) /\ Distinct(o) /\ SettledIn(v) = Prefix(o, n)
    BY <1>2
  <2>3. x \in Answers
    BY DEF Answers
  <2> HIDE DEF n
  <2>4. HasSettled(o, n, v, x, w)
    BY <1>4, <2>1, <2>2, <2>3, SettleNext, Zenon
  <2> QED
    BY <2>4 DEF HasSettled
<1>6. PICK l \in {"returned", "release", "record"}, r \in Results :
        /\ pc' = [pc EXCEPT ![c] = l] /\ result' = [result EXCEPT ![c] = r]
        /\ \/ l = "returned" /\ k = "test" /\ r = x
           \/ l = "record" /\ k \in One /\ r = result[c]
           \/ l = "release" /\ k \in {"fallback", "audit"} /\ r = result[c]
  <2>1. CASE k = "test"
    BY <2>1 DEF k, Results
  <2>2. CASE k # "test"
    <3>1. result' = [result EXCEPT ![c] = result[c]] /\ result[c] \in Results
      BY <2>2, CallType, Kept DEF k, PathInv
    <3>2. k \in AnyKind \ {"dual", "test"}
      BY <1>1, <2>2 DEF k
    <3>3. \/ k \in One /\ AfterWait(c) = "record"
          \/ k \in {"fallback", "audit"} /\ AfterWait(c) = "release"
      <4>1. k \in One \/ k \in {"fallback", "audit"}
        BY <3>2 DEF One, AnyKind, AllKinds
      <4>2. k \in One => AfterWait(c) = "record"
        BY DEF k, AfterWait, Chat, Dual, Fallback, Audit, One
      <4>3. k \in {"fallback", "audit"} => AfterWait(c) = "release"
        BY DEF k, AfterWait, Chat, Dual, Fallback, Audit
      <4> QED
        BY <4>1, <4>2, <4>3, Zenon
    <3>4. pc' = [pc EXCEPT ![c] = AfterWait(c)]
      BY <2>2 DEF k
    <3> QED
      BY <3>1, <3>3, <3>4
  <2> QED
    BY <2>1, <2>2
<1>7. result[c] = "none"
  BY <1>1 DEF ResultAt, Over, Asking
<1> HIDE DEF n
<1>8. Len(o) >= 1 /\ (k \in {"audit", "dual"} => Len(o) <= 2) /\ (k \in One \cup {"test"} => Len(o) <= 1)
  BY <1>1 DEF OrderAt
<1>9. OrderAt(l, k, o)
  BY <1>2, <1>6, <1>8 DEF OrderAt, Asking, One
<1>10. ProgressAt(l, k, o, w, {})
  BY <1>2, <1>5, <1>6, <1>8 DEF ProgressAt, Asking, One
<1>11. VerdictsAt(l, k, o, w)
  <2>1. k = "fallback" => \A i \in 1..n : v[o[i]] # "ok"
    BY <1>1 DEF VerdictsAt, Asking, n
  <2>2. k = "audit" /\ n >= 1 => v[o[1]] = "ok"
    <3>1. k = "audit" => pc[c] \in {"call", "wait"}
      <4>1. Allowed(pc[c], kind[c])
        BY DEF ControlInv
      <4> QED
        BY <4>1 DEF Allowed, Asking, k
    <3> QED
      BY <1>1, <3>1 DEF VerdictsAt, n
  <2>3. k = "fallback" => \A i \in 1..(n + 1) : w[o[i]] = "ok" => i = n + 1
    BY <1>2, <1>5, <2>1
  <2>4. k = "audit" /\ n + 1 >= 2 => w[o[1]] = "ok"
    BY <1>2, <1>5, <2>2
  <2> QED
    BY <1>5, <1>6, <2>3, <2>4 DEF VerdictsAt, One
<1>12. RecordsAt(l, k, o, w, rs, r)
  <2>1. /\ Len(rs) <= n /\ (k = "fallback" => Len(rs) = n) /\ (k # "fallback" => Len(rs) = 0)
        /\ \A i \in 1..Len(rs) : rs[i] = RecordFor(k, o, v, i)
    BY <1>1 DEF RecordsAt, Asking, Over, n
  <2>2. \A i \in 1..Len(rs) : rs[i] = RecordFor(k, o, w, i)
    BY <1>1, <1>2, <1>5, <2>1 DEF RecordFor
  <2> QED
    BY <1>1, <1>2, <1>5, <1>6, <2>1, <2>2 DEF RecordsAt, Over, One
<1>13. HooksAt(l, k, n + 1, before[c], after[c], r)
  BY <1>1, <1>6 DEF HooksAt, Asking, Over, One
<1>14. ResultAt(l, k, o, w, r)
  <2>1. CASE l = "returned"
    <3>1. k = "test" /\ r = x /\ n = 0
      BY <1>2, <1>6, <1>8, <2>1
    <3>2. GoodIn(v) = {} /\ SettledIn(w) # {}
      BY <1>2, <1>5, <3>1 DEF Prefix, GoodIn, SettledIn
    <3> QED
      BY <1>5, <2>1, <3>1, <3>2 DEF ResultAt, Says, Over
  <2>2. CASE l # "returned"
    BY <1>6, <1>7, <2>2 DEF ResultAt, Over
  <2> QED
    BY <2>1, <2>2
<1>15. /\ after' = [after EXCEPT ![c] = after[c]] /\ records' = [records EXCEPT ![c] = rs]
       /\ l \in Labels /\ {} \in SUBSET Providers /\ <<>> \in Seq(Outcomes)
       /\ after[c] \in Nat
  BY <1>6, Kept, CallType DEF PathInv, Labels, rs
<1>16. TriesAt(l, k, <<>>)
  BY CallsAssumption DEF TriesAt
<1> QED
  <2>1. HooksAt(l, k, Count(w), before[c], after[c], r)
    BY <1>5, <1>13
  <2> QED
    BY <1>1, <1>3, <1>6, <1>9, <1>10, <1>11, <1>12, <1>14, <1>15, <1>16, <2>1, StepTo DEF k, o

LEMMA NotAskedPath ==
  ASSUME ControlInv, PathInv, NEW c \in Calls, NotAsked(c) \/ GiveUp(c)
  PROVE  PathType' /\ PathOf(c)'
<1>1. /\ UNCHANGED <<kind, order, records, before, after, inflight, result>>
      /\ pc[c] \in {"call", "backoff"} /\ kind[c] \in {"chat", "single", "fallback"}
      /\ \A q \in Asked(c) : Verdict(c, q, FALSE)
      /\ pc' = [pc EXCEPT ![c] = AfterWait(c)]
  <2>1. CASE NotAsked(c)
    <3>1. Retries(c) > 0
      BY <2>1 DEF NotAsked
    <3>2. kind[c] \in {"chat", "single", "fallback"}
      BY <3>1 DEF Retries, Chat, Fallback
    <3> QED
      BY <2>1, <3>2 DEF NotAsked, plan, hooks, Goto
  <2>2. CASE GiveUp(c)
    BY <2>2 DEF GiveUp, plan, hooks, Goto, ControlInv, Allowed
  <2> QED
    BY <2>1, <2>2
<1>2. pc[c] \in Asking
  BY <1>1 DEF Asking
<1>3. PICK q \in Asked(c) : Verdict(c, q, FALSE)
  <2>1. kind[c] # "dual"
    BY <1>1
  <2> QED
    BY <1>1, <1>2, <2>1, AskedIs
<1>4. verdict' = [verdict EXCEPT ![c][q] = "failed"]
  BY <1>3 DEF Verdict
<1>5. inflight' = [inflight EXCEPT ![c] = {}]
  <2>1. inflight[c] = {}
    BY <1>1, CallType DEF PathOf, ProgressAt
  <2> QED
    BY <1>1, <2>1, Kept DEF PathInv
<1>6. tries' = [tries EXCEPT ![c] = <<>>]
  <2>1. CASE NotAsked(c)
    <3>1. tries[c] = <<>> /\ tries' = tries
      BY <2>1, CallType DEF NotAsked, PathOf, TriesAt
    <3> QED
      BY <3>1, Kept DEF PathInv
  <2>2. CASE GiveUp(c)
    BY <2>2 DEF GiveUp
  <2> QED
    BY <2>1, <2>2
<1> QED
  BY <1>1, <1>2, <1>3, <1>4, <1>5, <1>6, SettlePath

LEMMA RetryPath ==
  ASSUME ControlInv, PathInv, NEW c \in Calls, pc[c] = "wait",
         NEW q \in inflight[c], NEW outcome \in Outcomes, AnswerRetryable(c, q, outcome)
  PROVE  PathType' /\ PathOf(c)'
<1> DEFINE k == kind[c]
           n == Count(verdict[c])
           t == Append(tries[c], outcome)
<1>1. /\ UNCHANGED <<kind, order, verdict, records, before, after, result>>
      /\ outcome = "transient" /\ Len(tries[c]) < Retries(c)
      /\ inflight' = [inflight EXCEPT ![c] = {}] /\ pc' = [pc EXCEPT ![c] = "backoff"]
      /\ tries' = [tries EXCEPT ![c] = t]
  BY DEF AnswerRetryable, MayRetry, plan, hooks, Goto
<1>2. k \in {"chat", "single", "fallback"} /\ Len(tries[c]) < MaxRetries
  <2>1. Len(tries[c]) \in Nat
    BY CallType
  <2> QED
    BY <1>1, <2>1 DEF Retries, Chat, Fallback
<1>3. /\ OrderAt("wait", k, order[c]) /\ ProgressAt("wait", k, order[c], verdict[c], inflight[c])
      /\ VerdictsAt("wait", k, order[c], verdict[c]) /\ TriesAt("wait", k, tries[c])
      /\ RecordsAt("wait", k, order[c], verdict[c], records[c], result[c])
      /\ HooksAt("wait", k, n, before[c], after[c], result[c])
      /\ ResultAt("wait", k, order[c], verdict[c], result[c])
  BY CallType DEF PathOf
<1>4. t \in Seq(Outcomes) /\ Len(t) = Len(tries[c]) + 1
      /\ \A i \in 1..Len(t) : t[i] = "transient"
  <2>1. tries[c] \in Seq(Outcomes) /\ \A i \in 1..Len(tries[c]) : tries[c][i] = "transient"
    BY <1>3, CallType DEF TriesAt
  <2> QED
    BY <1>1, <2>1
<1>5. TriesAt("backoff", k, t)
  <2> HIDE DEF t
  <2>1. Len(tries[c]) \in Nat /\ MaxRetries \in Nat
    BY CallType, CallsAssumption
  <2> QED
    BY <1>2, <1>4, <2>1 DEF TriesAt
<1> HIDE DEF k, n, t
<1>6. OrderAt("backoff", k, order[c])
  <2>1. Distinct(order[c]) /\ Len(order[c]) >= 1 /\ (k \in One \cup {"test"} => Len(order[c]) <= 1)
    BY <1>3 DEF OrderAt, Asking
  <2> QED
    BY <1>2, <2>1 DEF OrderAt, Asking
<1>7. ProgressAt("backoff", k, order[c], verdict[c], {})
  BY <1>2, <1>3 DEF ProgressAt, Asking
<1>8. VerdictsAt("backoff", k, order[c], verdict[c])
  <2>1. k = "fallback" => \A i \in 1..Count(verdict[c]) : verdict[c][order[c][i]] # "ok"
    BY <1>3 DEF VerdictsAt
  <2> QED
    BY <1>2, <2>1 DEF VerdictsAt
<1>9. RecordsAt("backoff", k, order[c], verdict[c], records[c], result[c])
  BY <1>3 DEF RecordsAt, Over
<1>10. HooksAt("backoff", k, n, before[c], after[c], result[c])
  BY <1>2, <1>3 DEF HooksAt, Asking, Over
<1>11. ResultAt("backoff", k, order[c], verdict[c], result[c])
  BY <1>3 DEF ResultAt, Over
<1>12. /\ after' = [after EXCEPT ![c] = after[c]] /\ result' = [result EXCEPT ![c] = result[c]]
       /\ verdict' = [verdict EXCEPT ![c] = verdict[c]]
       /\ records' = [records EXCEPT ![c] = records[c]] /\ "backoff" \in Labels
       /\ {} \in SUBSET Providers
  BY <1>1, Kept DEF PathInv, Labels
<1> QED
  BY <1>1, <1>4, <1>5, <1>6, <1>7, <1>8, <1>9, <1>10, <1>11, <1>12, CallType, StepTo DEF k, n

\* An answer to a dual call.
LEMMA DualPath ==
  ASSUME ControlInv, PathInv, NEW c \in Calls, pc[c] = "wait", kind[c] = "dual",
         NEW q \in inflight[c], NEW x \in {"ok", "failed"},
         UNCHANGED <<kind, order, records, before, after, result>>,
         verdict' = [verdict EXCEPT ![c][q] = x],
         inflight' = [inflight EXCEPT ![c] = @ \ {q}], tries' = [tries EXCEPT ![c] = <<>>],
         IF inflight[c] = {q} THEN pc' = [pc EXCEPT ![c] = "record"] ELSE UNCHANGED pc
  PROVE  PathType' /\ PathOf(c)'
<1> DEFINE o == order[c]
           v == verdict[c]
           w == [v EXCEPT ![q] = x]
           f == inflight[c]
           rs == records[c]
<1>1. /\ OrderAt("wait", "dual", o) /\ ProgressAt("wait", "dual", o, v, f)
      /\ RecordsAt("wait", "dual", o, v, rs, result[c])
      /\ HooksAt("wait", "dual", Count(v), before[c], after[c], result[c])
      /\ ResultAt("wait", "dual", o, v, result[c])
      /\ o \in Seq(Providers) /\ Len(o) \in Nat /\ v \in [Providers -> Verdicts]
      /\ rs \in Seq(CallRecord) /\ Len(rs) \in Nat /\ f \subseteq Providers
  BY CallType DEF PathOf, PathInv, PathType
<1>2. /\ w \in [Providers -> Verdicts] /\ verdict' = [verdict EXCEPT ![c] = w]
      /\ inflight' = [inflight EXCEPT ![c] = f \ {q}] /\ f \ {q} \subseteq Providers
  BY <1>1 DEF Verdicts
<1>3. PICK l \in {"wait", "record"} : pc' = [pc EXCEPT ![c] = l] /\ (l = "record" <=> f \ {q} = {})
  <2>1. pc = [pc EXCEPT ![c] = "wait"]
    BY Kept DEF PathInv
  <2> QED
    BY <2>1
<1>4. q \in f /\ q \in Providers
  BY <1>1
<1>5. SettledIn(w) = SettledIn(v) \cup {q}
  BY <1>1, <1>4 DEF SettledIn
<1> HIDE DEF o, v, w, f, rs
<1>6. f \cap SettledIn(v) = {} /\ f \cup SettledIn(v) = Prefix(o, 2)
  BY <1>1 DEF ProgressAt
<1>7. (f \ {q}) \cap SettledIn(w) = {} /\ (f \ {q}) \cup SettledIn(w) = Prefix(o, 2)
  BY <1>4, <1>5, <1>6
<1>8. Distinct(o) /\ Len(o) = 2
  BY <1>1 DEF OrderAt
<1>9. IsFiniteSet(Prefix(o, 2)) /\ Cardinality(Prefix(o, 2)) = 2
  <2>1. 2 \in 0..Len(o)
    BY <1>8
  <2> QED
    BY <1>1, <1>8, <2>1, PrefixSize, Zenon
<1>10. Count(w) \in Nat /\ Len(rs) = 0
  <2>1. SettledIn(w) \subseteq Prefix(o, 2)
    BY <1>7
  <2>2. IsFiniteSet(SettledIn(w))
    BY <1>9, <2>1, FS_Subset
  <2> QED
    BY <1>1, <2>2, FS_CardinalityType DEF RecordsAt, Over, Count
<1>11. OrderAt(l, "dual", o)
  BY <1>3, <1>8 DEF OrderAt, One, Asking
<1>12. ProgressAt(l, "dual", o, w, f \ {q})
  <2>1. CASE l = "wait"
    BY <1>3, <1>7, <2>1 DEF ProgressAt, One, Asking
  <2>2. CASE l = "record"
    <3>1. SettledIn(w) = Prefix(o, 2) /\ f \ {q} = {}
      BY <1>3, <1>7, <2>2
    <3>2. Count(w) = 2
      BY <1>9, <3>1 DEF Count
    <3> QED
      BY <1>8, <2>2, <3>1, <3>2 DEF ProgressAt, Asking, One
  <2> QED
    BY <2>1, <2>2
<1>13. VerdictsAt(l, "dual", o, w)
  BY DEF VerdictsAt
<1>14. RecordsAt(l, "dual", o, w, rs, result[c])
  <2>1. l = "record" => Count(w) = 2
    BY <1>12 DEF ProgressAt
  <2> QED
    BY <1>3, <1>10, <2>1 DEF RecordsAt, Over
<1>15. HooksAt(l, "dual", Count(w), before[c], after[c], result[c])
  BY <1>1, <1>3 DEF HooksAt, One, Asking, Over
<1>16. ResultAt(l, "dual", o, w, result[c])
  BY <1>1, <1>3 DEF ResultAt, Over
<1>17. /\ after' = [after EXCEPT ![c] = after[c]] /\ result' = [result EXCEPT ![c] = result[c]]
       /\ records' = [records EXCEPT ![c] = rs] /\ l \in Labels /\ <<>> \in Seq(Outcomes)
       /\ after[c] \in Nat /\ result[c] \in Results
  BY <1>3, Kept, CallType DEF PathInv, Labels, rs
<1>18. TriesAt(l, "dual", <<>>)
  BY CallsAssumption DEF TriesAt
<1>19. f \ {q} \in SUBSET Providers
  BY <1>2
<1>20. /\ OrderAt(l, kind[c], order[c]) /\ ProgressAt(l, kind[c], order[c], w, f \ {q})
       /\ VerdictsAt(l, kind[c], order[c], w) /\ TriesAt(l, kind[c], <<>>)
       /\ RecordsAt(l, kind[c], order[c], w, rs, result[c])
       /\ HooksAt(l, kind[c], Count(w), before[c], after[c], result[c])
       /\ ResultAt(l, kind[c], order[c], w, result[c])
  BY <1>11, <1>12, <1>13, <1>14, <1>15, <1>16, <1>18 DEF o
<1> QED
  BY <1>1, <1>2, <1>3, <1>17, <1>19, <1>20, StepTo

LEMMA AnswerPath ==
  ASSUME ControlInv, PathInv, NEW c \in Calls, Answer(c)
  PROVE  PathType' /\ PathOf(c)'
<1>1. PICK q \in inflight[c], outcome \in Outcomes :
        pc[c] = "wait" /\ (AnswerRetryable(c, q, outcome) \/ AnswerFinal(c, q, outcome))
  BY DEF Answer
<1>2. CASE AnswerRetryable(c, q, outcome)
  BY <1>1, <1>2, RetryPath
<1>3. CASE AnswerFinal(c, q, outcome)
  <2>1. /\ UNCHANGED <<kind, order, records, before, after>>
        /\ inflight' = [inflight EXCEPT ![c] = @ \ {q}] /\ tries' = [tries EXCEPT ![c] = <<>>]
    BY <1>3 DEF AnswerFinal, plan, hooks
  <2>2. PICK x \in {"ok", "failed"} : verdict' = [verdict EXCEPT ![c][q] = x]
                                      /\ x = (IF outcome = "ok" THEN "ok" ELSE "failed")
    BY <1>3 DEF AnswerFinal, Verdict
  <2>3. CASE kind[c] # "dual"
    <3>1. inflight[c] = Asked(c) /\ inflight[c] = {q}
      <4>1. pc[c] \in Asking
        BY <1>1 DEF Asking
      <4>2. inflight[c] = {order[c][Count(verdict[c]) + 1]}
        BY <1>1, <2>3, CallType DEF PathOf, ProgressAt
      <4> QED
        BY <2>3, <4>1, <4>2, AskedIs
    <3>2. inflight' = [inflight EXCEPT ![c] = {}]
      BY <2>1, <3>1
    <3>3. IF kind[c] = "test"
          THEN pc' = [pc EXCEPT ![c] = "returned"] /\ result' = [result EXCEPT ![c] = x]
          ELSE pc' = [pc EXCEPT ![c] = AfterWait(c)] /\ UNCHANGED result
      BY <1>3, <2>2, <3>1 DEF AnswerFinal, Settle, Goto
    <3>4. pc[c] \in Asking
      BY <1>1 DEF Asking
    <3> QED
      BY <2>1, <2>2, <2>3, <3>1, <3>2, <3>3, <3>4, SettlePath
  <2>4. CASE kind[c] = "dual"
    <3>1. AfterWait(c) = "record"
      BY <2>4 DEF AfterWait, Chat, Dual, Fallback, Audit
    <3>2. /\ UNCHANGED result
          /\ IF inflight[c] = {q} THEN pc' = [pc EXCEPT ![c] = "record"] ELSE UNCHANGED pc
      BY <1>3, <2>4, <3>1 DEF AnswerFinal, Goto
    <3> QED
      BY <1>1, <2>1, <2>2, <2>4, <3>2, DualPath
  <2> QED
    BY <2>3, <2>4
<1> QED
  BY <1>1, <1>2, <1>3

\* What a call knows once it waits for nobody.
LEMMA PartsOf ==
  ASSUME PathInv, NEW c \in Calls
  PROVE  /\ OrderAt(pc[c], kind[c], order[c])
         /\ ProgressAt(pc[c], kind[c], order[c], verdict[c], inflight[c])
         /\ VerdictsAt(pc[c], kind[c], order[c], verdict[c])
         /\ RecordsAt(pc[c], kind[c], order[c], verdict[c], records[c], result[c])
         /\ HooksAt(pc[c], kind[c], Count(verdict[c]), before[c], after[c], result[c])
         /\ ResultAt(pc[c], kind[c], order[c], verdict[c], result[c])
BY CallType DEF PathOf

LEMMA EndPath ==
  ASSUME ControlInv, PathInv, NEW c \in Calls, After(c) \/ Leave(c)
  PROVE  PathType' /\ PathOf(c)'
<1> DEFINE k == kind[c]
           n == Count(verdict[c])
           b == before[c]
<1>1. /\ UNCHANGED <<kind, order, before, inflight, tries, verdict, records, result>>
      /\ pc[c] \in {"after", "leave"} /\ Allowed(pc[c], k) /\ b \in Nat /\ after[c] \in Nat
  BY CallType DEF After, Leave, plan, work, ControlInv, hooks
<1>2. PICK l \in {"leave", "returned"}, a \in Nat :
        /\ pc' = [pc EXCEPT ![c] = l] /\ after' = [after EXCEPT ![c] = a]
        /\ \/ pc[c] = "after" /\ k \in One /\ l = "leave" /\ a = after[c] + 1
           \/ pc[c] = "after" /\ k = "fallback" /\ l = "returned" /\ a = after[c] + 1
           \/ pc[c] = "leave" /\ l = "returned" /\ a = after[c]
  <2>1. CASE After(c)
    <3>1. k \in One \/ k = "fallback"
      BY <1>1, <2>1 DEF After, Allowed, One
    <3>2. pc[c] = "after" /\ after' = [after EXCEPT ![c] = after[c] + 1] /\ after[c] + 1 \in Nat
      BY <1>1, <2>1 DEF After
    <3>3. pc' = [pc EXCEPT ![c] = IF k \in One THEN "leave" ELSE "returned"]
      BY <2>1 DEF After, Goto, Chat, One
    <3> QED
      BY <3>1, <3>2, <3>3 DEF One
  <2>2. CASE Leave(c)
    <3>1. after = [after EXCEPT ![c] = after[c]] /\ after' = after
      BY <2>2, Kept DEF PathInv, Leave, hooks
    <3> QED
      BY <1>1, <2>2, <3>1 DEF Leave, Goto
  <2> QED
    BY <2>1, <2>2
<1> HIDE DEF k, n, b
<1>3. /\ OrderAt(pc[c], k, order[c]) /\ ProgressAt(pc[c], k, order[c], verdict[c], inflight[c])
      /\ VerdictsAt(pc[c], k, order[c], verdict[c])
      /\ RecordsAt(pc[c], k, order[c], verdict[c], records[c], result[c])
      /\ HooksAt(pc[c], k, n, b, after[c], result[c])
      /\ ResultAt(pc[c], k, order[c], verdict[c], result[c])
  BY PartsOf DEF k, n, b
<1>4. OrderAt(l, k, order[c])
  <2>1. /\ Distinct(order[c]) /\ (k \in {"audit", "dual"} => Len(order[c]) <= 2)
        /\ (k \in One \cup {"test"} => Len(order[c]) <= 1)
    BY <1>3 DEF OrderAt
  <2>2. l = "leave" => k # "dual"
    BY <1>2 DEF One
  <2> QED
    BY <1>2, <2>1, <2>2 DEF OrderAt, Asking
<1>5. ProgressAt(l, k, order[c], verdict[c], {})
  <2>1. n \in 0..Len(order[c]) /\ SettledIn(verdict[c]) = Prefix(order[c], n)
    BY <1>1, CountType DEF n
  <2>2. l = "leave" => k # "dual"
    BY <1>2 DEF One
  <2> QED
    BY <1>2, <2>1, <2>2 DEF ProgressAt, Asking, n
<1>6. VerdictsAt(l, k, order[c], verdict[c])
  BY <1>1, <1>2, <1>3 DEF VerdictsAt, One, Allowed
<1>7. RecordsAt(l, k, order[c], verdict[c], records[c], result[c])
  BY <1>1, <1>2, <1>3 DEF RecordsAt, Over
<1>8. HooksAt(l, k, n, b, a, result[c])
  <2>1. CASE pc[c] = "after"
    <3>1. after[c] = 0 /\ b = (IF k = "single" THEN 2 ELSE 1) /\ k \notin {"audit", "test", "dual"}
      BY <1>2, <1>3, <2>1 DEF HooksAt, One
    <3>2. a = 1 /\ a <= b
      BY <1>1, <1>2, <2>1, <3>1
    <3> QED
      BY <1>2, <3>1, <3>2 DEF HooksAt, One, Asking, Over
  <2>2. CASE pc[c] = "leave"
    BY <1>2, <1>3, <2>2 DEF HooksAt, One, Asking, Over
  <2> QED
    BY <1>1, <2>1, <2>2
<1>9. ResultAt(l, k, order[c], verdict[c], result[c])
  BY <1>1, <1>2, <1>3 DEF ResultAt, Over
<1>10. result' = [result EXCEPT ![c] = result[c]] /\ result[c] \in Results
  BY <1>1, Kept, CallType DEF PathInv
<1>11. l \in Labels \ {"wait", "backoff"}
  BY <1>2 DEF Labels
<1> QED
  BY <1>1, <1>2, <1>4, <1>5, <1>6, <1>7, <1>8, <1>9, <1>10, <1>11, WalkTo DEF k, n, b

\* The providers that answered, and the first one.
LEMMA OkMeaning ==
  ASSUME NEW c \in Calls
  PROVE  /\ Settled(c) = SettledIn(verdict[c]) /\ Cardinality(Settled(c)) = Count(verdict[c])
         /\ AnyOk(c) <=> GoodIn(verdict[c]) # {}
BY DEF Settled, SettledIn, Count, AnyOk, GoodIn

LEMMA PrimarySettled ==
  ASSUME PathInv, NEW c \in Calls, pc[c] \in {"release", "record"}
  PROVE  /\ Count(verdict[c]) >= 1 /\ Len(order[c]) >= 1
         /\ verdict[c][order[c][1]] \in {"ok", "failed"} /\ order[c][1] \in Providers
<1>1. Count(verdict[c]) >= 1 /\ Len(order[c]) >= 1
  BY PartsOf DEF ProgressAt, OrderAt
<1>2. /\ SettledIn(verdict[c]) = Prefix(order[c], Count(verdict[c]))
      /\ Count(verdict[c]) \in Nat
  BY CountType
<1>3. 1 \in 1..Count(verdict[c])
  BY <1>1, <1>2
<1>4. order[c][1] \in SettledIn(verdict[c])
  BY <1>2, <1>3 DEF Prefix
<1> QED
  BY <1>1, <1>4, CallType DEF SettledIn, Verdicts

LEMMA ReleasePath ==
  ASSUME ControlInv, PathInv, NEW c \in Calls, Release(c)
  PROVE  PathType' /\ PathOf(c)'
<1> DEFINE k == kind[c]
           n == Count(verdict[c])
           v == verdict[c]
           o == order[c]
<1>1. /\ UNCHANGED <<kind, order, before, after, inflight, tries, verdict, records>>
      /\ pc[c] = "release" /\ k \in {"fallback", "audit"}
  BY DEF Release, plan, work, hooks, ControlInv, Allowed
<1>2. /\ n \in Nat /\ n \in 0..Len(o) /\ SettledIn(v) = Prefix(o, n) /\ Len(o) \in Nat
      /\ n >= 1 /\ Len(o) >= 1 /\ v[o[1]] \in {"ok", "failed"}
      /\ Len(records[c]) \in Nat
  BY <1>1, CountType, CallType, PrimarySettled
<1>3. result[c] = "none"
  BY <1>1, PartsOf DEF ResultAt, Over
<1>4. PICK l \in {"record", "returned", "acquire"}, r \in {"none", "failed"} :
        /\ pc' = [pc EXCEPT ![c] = l] /\ result' = [result EXCEPT ![c] = r]
        /\ \/ k = "fallback" /\ l = "record" /\ r = "none"
           \/ k = "audit" /\ v[o[1]] = "failed" /\ l = "returned" /\ r = "failed"
           \/ k = "audit" /\ v[o[1]] = "ok" /\ l = "record" /\ r = "none"
           \/ k = "audit" /\ v[o[1]] = "ok" /\ n < Len(o) /\ l = "acquire" /\ r = "none"
  <2>1. result = [result EXCEPT ![c] = "none"]
    BY <1>3, Kept DEF PathInv
  <2>2. CASE k = "fallback"
    BY <2>1, <2>2 DEF Release, Fallback, Audit, Goto
  <2>3. CASE k = "audit" /\ v[o[1]] = "failed"
    <3>1. Settle(c, "failed", "returned")
      BY <2>3 DEF Release, Fallback, Audit, Primary
    <3> QED
      BY <2>3, <3>1 DEF Settle, Goto
  <2>4. CASE k = "audit" /\ v[o[1]] = "ok"
    <3>1. Goto(c, IF AllSettled(c) THEN "record" ELSE "acquire") /\ UNCHANGED result
      BY <2>4 DEF Release, Fallback, Audit, Primary
    <3>2. ~AllSettled(c) => n < Len(o)
      BY <1>2, OkMeaning DEF AllSettled
    <3> QED
      BY <2>1, <2>4, <3>1, <3>2 DEF Goto
  <2> QED
    BY <1>1, <1>2, <2>2, <2>3, <2>4
<1>5. /\ OrderAt("release", k, o) /\ ProgressAt("release", k, o, v, inflight[c])
      /\ VerdictsAt("release", k, o, v)
      /\ RecordsAt("release", k, o, v, records[c], "none")
      /\ HooksAt("release", k, n, before[c], after[c], "none")
  BY <1>1, <1>3, PartsOf
<1> HIDE DEF k, n, v, o
<1>6. OrderAt(l, k, o)
  <2>1. Distinct(o) /\ (k \in {"audit", "dual"} => Len(o) <= 2)
    BY <1>5 DEF OrderAt
  <2> QED
    BY <1>1, <1>2, <1>4, <2>1 DEF OrderAt, One, Asking
<1>7. ProgressAt(l, k, o, v, {})
  BY <1>1, <1>2, <1>4 DEF ProgressAt, One, Asking, n, v
<1>8. VerdictsAt(l, k, o, v)
  BY <1>1, <1>2, <1>4, <1>5 DEF VerdictsAt, n, v
<1>9. RecordsAt(l, k, o, v, records[c], r)
  <2>1. /\ \A i \in 1..Len(records[c]) : records[c][i] = RecordFor(k, o, v, i)
        /\ Len(records[c]) <= n /\ (k = "fallback" => Len(records[c]) = n - 1)
        /\ (k = "audit" => Len(records[c]) = 0)
    BY <1>5 DEF RecordsAt, Over, n, v
  <2>2. l = "record" => Len(records[c]) < n
    BY <1>1, <1>2, <2>1
  <2> QED
    BY <1>1, <1>4, <2>1, <2>2 DEF RecordsAt, Over, n, v
<1>10. HooksAt(l, k, n, before[c], after[c], r)
  BY <1>1, <1>4, <1>5 DEF HooksAt, One, Over, Asking
<1>11. ResultAt(l, k, o, v, r)
  <2>1. CASE r = "none"
    BY <1>4, <2>1 DEF ResultAt, Over
  <2>2. CASE r = "failed"
    <3>1. k = "audit" /\ v[o[1]] = "failed" /\ l = "returned"
      BY <1>4, <2>2
    <3>2. n = 1
      <4>1. VerdictsAt("release", "audit", o, v)
        BY <1>5, <3>1
      <4>2. n >= 2 => v[o[1]] = "ok"
        BY <4>1 DEF VerdictsAt, n, v
      <4> QED
        BY <1>2, <3>1, <4>2
    <3>3. SettledIn(v) = {o[1]}
      BY <1>2, <3>2 DEF Prefix
    <3>4. GoodIn(v) = {}
      BY <3>1, <3>3 DEF GoodIn, SettledIn
    <3> QED
      BY <2>2, <3>1, <3>3, <3>4 DEF ResultAt, Says, Over
  <2> QED
    BY <2>1, <2>2
<1>12. after' = [after EXCEPT ![c] = after[c]] /\ after[c] \in Nat /\ r \in Results
       /\ l \in Labels \ {"wait", "backoff"}
  BY <1>1, <1>4, Kept, CallType DEF PathInv, Results, Labels
<1> QED
  BY <1>1, <1>4, <1>6, <1>7, <1>8, <1>9, <1>10, <1>11, <1>12, WalkTo DEF k, n, v, o

LEMMA RecordPath ==
  ASSUME ControlInv, PathInv, NEW c \in Calls, Record(c)
  PROVE  PathType' /\ PathOf(c)'
<1> DEFINE k == kind[c]
           n == Count(verdict[c])
           v == verdict[c]
           o == order[c]
           rs == records[c]
           ss == Append(rs, RecordOf(c, Len(rs) + 1))
<1>1. /\ UNCHANGED <<kind, order, before, after, inflight, tries, verdict>>
      /\ pc[c] = "record" /\ k \in AnyKind \ {"test"}
      /\ records' = [records EXCEPT ![c] = ss]
  BY DEF Record, plan, work, hooks, ControlInv, ControlType, Allowed
<1>2. /\ n \in Nat /\ n \in 0..Len(o) /\ SettledIn(v) = Prefix(o, n) /\ Len(o) \in Nat
      /\ n >= 1 /\ Len(o) >= 1 /\ v[o[1]] \in {"ok", "failed"} /\ o[1] \in Providers
      /\ rs \in Seq(CallRecord) /\ Len(rs) \in Nat /\ v \in [Providers -> Verdicts]
      /\ o \in Seq(Providers) /\ after[c] \in Nat
  BY <1>1, CountType, CallType, PrimarySettled
<1>3. /\ OrderAt("record", k, o) /\ ProgressAt("record", k, o, v, inflight[c])
      /\ VerdictsAt("record", k, o, v)
      /\ RecordsAt("record", k, o, v, rs, result[c])
      /\ HooksAt("record", k, n, before[c], after[c], result[c])
  BY <1>1, PartsOf
<1>4. result[c] = "none" /\ inflight[c] = {} /\ tries[c] = <<>>
  BY <1>1, CallType DEF PathOf, ResultAt, ProgressAt, TriesAt, Over
<1>5. /\ Len(rs) < n /\ (k = "fallback" => Len(rs) = n - 1)
      /\ \A i \in 1..Len(rs) : rs[i] = RecordFor(k, o, v, i)
  BY <1>3 DEF RecordsAt
<1>6. RecordOf(c, Len(rs) + 1) = RecordFor(k, o, v, Len(rs) + 1)
  BY DEF RecordOf, RecordFor, Fallback
<1>7. RecordOf(c, Len(rs) + 1) \in CallRecord
  <2>1. Len(rs) + 1 \in 1..Len(o) /\ 1 \in 1..Len(o)
    BY <1>2, <1>5
  <2>2. o[Len(rs) + 1] \in Providers /\ o[1] \in Providers
    BY <1>2, <2>1
  <2> QED
    BY <2>2 DEF RecordOf, CallRecord
<1> HIDE DEF k, n, v, o
<1>8. /\ ss \in Seq(CallRecord) /\ Len(ss) = Len(rs) + 1
      /\ \A i \in 1..Len(ss) : ss[i] = RecordFor(k, o, v, i)
  <2>1. ss \in Seq(CallRecord) /\ Len(ss) = Len(rs) + 1
        /\ ss[Len(rs) + 1] = RecordOf(c, Len(rs) + 1)
        /\ \A i \in 1..Len(rs) : ss[i] = rs[i]
    BY <1>2, <1>7
  <2> HIDE DEF ss, rs
  <2>2. ASSUME NEW i \in 1..Len(ss) PROVE ss[i] = RecordFor(k, o, v, i)
    <3>1. i \in 1..Len(rs) \/ i = Len(rs) + 1
      BY <1>2, <2>1
    <3>2. i \in 1..Len(rs) => ss[i] = RecordFor(k, o, v, i)
      BY <1>5, <2>1, Zenon
    <3>3. i = Len(rs) + 1 => ss[i] = RecordFor(k, o, v, i)
      BY <1>6, <2>1, Zenon
    <3> QED
      BY <3>1, <3>2, <3>3, Zenon
  <2> QED
    BY <2>1, <2>2
<1> HIDE DEF ss, rs
<1>9. PICK l \in {"record", "after", "acquire", "leave", "returned"},
           r \in {"none", "ok", "failed", "panic"} :
        /\ pc' = [pc EXCEPT ![c] = l] /\ result' = [result EXCEPT ![c] = r]
        /\ \/ l = "record" /\ r = "none" /\ Len(ss) < n
           \/ r = "panic" /\ IF k = "fallback" THEN l = "after"
                             ELSE IF k = "audit" THEN l = "returned" ELSE l = "leave"
           \/ /\ Len(ss) = n /\ k # "audit" /\ r \in {"ok", "failed"}
              /\ r = "ok" <=> GoodIn(v) # {}
              /\ k = "fallback" /\ r = "failed" => n = Len(o)
              /\ l = IF k = "dual" THEN "leave" ELSE "after"
           \/ Len(ss) = n /\ k = "fallback" /\ l = "acquire" /\ r = "none" /\ GoodIn(v) = {} /\ n < Len(o)
           \/ Len(ss) = n /\ k = "audit" /\ l = "returned" /\ r = "ok"
  <2>1. result = [result EXCEPT ![c] = "none"] /\ pc = [pc EXCEPT ![c] = "record"]
    BY <1>1, <1>4, Kept DEF PathInv
  <2>2. CASE Persistent /\ historyClosed
    <3>1. Settle(c, "panic", Unwound(c))
      BY <2>2 DEF Record
    <3>2. Unwound(c) = IF k = "fallback" THEN "after" ELSE IF k = "audit" THEN "returned" ELSE "leave"
      BY DEF Unwound, Fallback, Audit, k
    <3> QED
      BY <3>1, <3>2 DEF Settle, Goto
  <2>3. CASE ~(Persistent /\ historyClosed) /\ Len(rs) + 1 < n
    <3>1. UNCHANGED <<pc, result>>
      BY <2>3, OkMeaning DEF Record, n, rs
    <3> QED
      BY <1>8, <2>1, <2>3, <3>1
  <2>4. CASE ~(Persistent /\ historyClosed) /\ ~(Len(rs) + 1 < n)
    <3>1. AfterRecord(c)
      BY <2>4, OkMeaning DEF Record, n, rs
    <3>2. Len(ss) = n
      BY <1>2, <1>5, <1>8, <2>4
    <3>3. (AnyOk(c) <=> GoodIn(v) # {}) /\ (AllSettled(c) <=> n = Len(o)) /\ (~AllSettled(c) => n < Len(o))
      <4>1. AnyOk(c) <=> GoodIn(v) # {}
        BY OkMeaning DEF v
      <4>2. AllSettled(c) <=> n = Len(o)
        BY OkMeaning DEF AllSettled, n, o
      <4> QED
        BY <1>2, <4>1, <4>2
    <3>4. Outcome(c) \in {"ok", "failed"} /\ (Outcome(c) = "ok" <=> GoodIn(v) # {})
      BY <3>3 DEF Outcome
    <3>5. k \in One \cup {"fallback", "dual", "audit"}
      BY <1>1 DEF One, AnyKind, AllKinds
    <3>6. CASE k \in One \/ (k = "fallback" /\ (AnyOk(c) \/ AllSettled(c)))
      <4>1. Settle(c, Outcome(c), "after")
        BY <3>1, <3>6 DEF AfterRecord, Chat, Fallback, Dual, Audit, One, k
      <4>2. k = "fallback" /\ Outcome(c) = "failed" => n = Len(o)
        BY <3>3, <3>6 DEF Outcome, One
      <4> QED
        BY <3>2, <3>4, <3>6, <4>1, <4>2 DEF Settle, Goto, One
    <3>7. CASE k = "fallback" /\ ~AnyOk(c) /\ ~AllSettled(c)
      <4>1. Goto(c, "acquire") /\ UNCHANGED result
        BY <3>1, <3>7 DEF AfterRecord, Chat, Fallback, Dual, Audit, k
      <4> QED
        BY <2>1, <3>2, <3>3, <3>7, <4>1 DEF Goto
    <3>8. CASE k = "dual"
      <4>1. Settle(c, Outcome(c), "leave")
        BY <3>1, <3>8 DEF AfterRecord, Chat, Fallback, Dual, Audit, k
      <4> QED
        BY <3>2, <3>4, <3>8, <4>1 DEF Settle, Goto
    <3>9. CASE k = "audit"
      <4>1. Settle(c, "ok", "returned")
        BY <3>1, <3>9 DEF AfterRecord, Chat, Fallback, Dual, Audit, k
      <4> QED
        BY <3>2, <3>9, <4>1 DEF Settle, Goto
    <3> QED
      BY <3>5, <3>6, <3>7, <3>8, <3>9
  <2> QED
    BY <2>2, <2>3, <2>4
<1>10. OrderAt(l, k, o)
  <2>1. /\ Distinct(o) /\ (k \in {"audit", "dual"} => Len(o) <= 2)
        /\ (k \in One \cup {"test"} => Len(o) <= 1) /\ (k = "dual" => Len(o) = 2)
    BY <1>3 DEF OrderAt
  <2>2. l = "acquire" => k = "fallback"
    BY <1>9
  <2> QED
    BY <1>2, <1>9, <2>1, <2>2 DEF OrderAt, One, Asking
<1>11. ProgressAt(l, k, o, v, {})
  <2>1. k = "dual" => n = 2
    BY <1>3 DEF ProgressAt, n, v
  <2>2. l = "acquire" => k = "fallback" /\ n < Len(o)
    BY <1>9
  <2> QED
    BY <1>2, <1>9, <2>1, <2>2 DEF ProgressAt, One, Asking, n, v
<1>12. VerdictsAt(l, k, o, v)
  <2>1. k = "fallback" => \A i \in 1..n : v[o[i]] = "ok" => i = n
    BY <1>3 DEF VerdictsAt, n, v
  <2>2. k = "audit" => v[o[1]] = "ok"
    BY <1>2, <1>3 DEF VerdictsAt, n, v
  <2>3. GoodIn(v) = {} => \A i \in 1..n : v[o[i]] # "ok"
    BY <1>2 DEF GoodIn
  <2>4. k = "fallback" => l \in {"record", "after"} \/ (l = "acquire" /\ GoodIn(v) = {})
    BY <1>9
  <2> QED
    BY <2>1, <2>2, <2>3, <2>4 DEF VerdictsAt, n, v
<1>13. RecordsAt(l, k, o, v, ss, r)
  <2>1. Len(ss) <= n /\ (k = "fallback" => Len(ss) = n)
    BY <1>2, <1>5, <1>8
  <2>2. /\ l = "record" => Len(ss) < n /\ k # "fallback"
        /\ l \notin Over \cup {"record"} => k = "fallback"
        /\ l \in Over /\ r # "panic" => Len(ss) = n /\ (k = "audit" => r = "ok")
    BY <1>2, <1>9, <2>1 DEF Over
  <2>3. l # "release"
    BY <1>9
  <2> QED
    BY <1>1, <1>8, <2>1, <2>2, <2>3 DEF RecordsAt, n, v
<1>14. HooksAt(l, k, n, before[c], after[c], r)
  <2>1. /\ after[c] <= before[c] /\ after[c] = 0
        /\ k \in {"audit", "test"} => before[c] = 0
        /\ k \notin {"audit", "test"} => before[c] = IF k = "single" THEN 2 ELSE 1
    BY <1>3 DEF HooksAt
  <2>2. /\ l = "acquire" => k = "fallback"
        /\ l = "returned" => k = "audit"
        /\ l = "leave" => k = "dual" \/ r = "panic"
        /\ l = "leave" => k # "fallback"
    BY <1>9
  <2> QED
    BY <1>9, <2>1, <2>2 DEF HooksAt, One, Over, Asking
<1>15. ResultAt(l, k, o, v, r)
  <2>1. r = "none" <=> l \notin Over
    BY <1>9 DEF Over
  <2>2. ASSUME r # "none" PROVE Says(k, o, v, r)
    <3>1. SettledIn(v) # {}
      BY <1>2 DEF SettledIn
    <3>2. k = "audit" => v[o[1]] = "ok" /\ GoodIn(v) # {}
      BY <1>2, <1>3 DEF VerdictsAt, GoodIn, n, v
    <3>3. k = "dual" => n = Len(o)
      BY <1>3 DEF ProgressAt, OrderAt, n, v
    <3>4. /\ r = "ok" => GoodIn(v) # {}
          /\ r = "failed" => GoodIn(v) = {}
          /\ r = "failed" /\ k = "fallback" => n = Len(o)
          /\ k = "fallback" /\ GoodIn(v) # {} => r \in {"ok", "panic"}
      BY <1>9, <2>2, <3>2
    <3> QED
      BY <1>9, <3>1, <3>2, <3>3, <3>4 DEF Says, n, v
  <2> QED
    BY <2>1, <2>2 DEF ResultAt
<1>16. /\ after' = [after EXCEPT ![c] = after[c]] /\ verdict' = [verdict EXCEPT ![c] = v]
       /\ inflight' = [inflight EXCEPT ![c] = {}] /\ tries' = [tries EXCEPT ![c] = <<>>]
       /\ {} \in SUBSET Providers /\ <<>> \in Seq(Outcomes)
       /\ r \in Results /\ l \in Labels
  BY <1>1, <1>4, <1>9, Kept DEF PathInv, Results, Labels, v
<1>17. TriesAt(l, k, <<>>)
  BY CallsAssumption DEF TriesAt
<1> QED
  BY <1>1, <1>2, <1>8, <1>9, <1>10, <1>11, <1>12, <1>13, <1>14, <1>15, <1>16, <1>17, StepTo
     DEF k, n, v, o

LEMMA PathStep == ControlInv /\ PathInv /\ [Next]_vars => PathInv'
<1> SUFFICES ASSUME ControlInv, PathInv, [Next]_vars PROVE PathInv'
  OBVIOUS
<1>1. CASE \E c \in Calls : CallStep(c) \/ \E k \in Kinds : Start(c, k)
  <2>1. PICK c \in Calls : CallStep(c) \/ \E k \in Kinds : Start(c, k)
    BY <1>1
  <2>2. PathType' /\ PathOf(c)'
    BY <2>1, StartPath, BeginPath, PickPath, PairPath, DegradePath, AcquirePath, AcquireFailsPath,
       NotAskedPath, AskPath, AnswerPath, ReleasePath, RecordPath, EndPath, PickPanicsPath
       DEF CallStep, Runs, SequencePanics
  <2> QED
    BY <2>1, <2>2, PathStays
<1>2. CASE UNCHANGED <<pc, plan, work, records, hooks, result>>
  <2>1. PathType'
    BY <1>2 DEF PathInv, PathType, plan, work, hooks
  <2>2. ASSUME NEW d \in Calls PROVE PathOf(d)'
    <3>1. Same(d)
      BY <1>2 DEF Same, plan, work, hooks
    <3> QED
      BY <3>1, SameStays DEF PathInv
  <2> QED
    BY <2>1, <2>2 DEF PathInv
<1>3. \/ \E c \in Calls : CallStep(c) \/ \E k \in Kinds : Start(c, k)
      \/ UNCHANGED <<pc, plan, work, records, hooks, result>>
  BY DEF Next, Cancel, CloseScheduler, CloseHistory, plan, work, vars, shared, hooks
<1> QED
  BY <1>1, <1>2, <1>3

-----------------------------------------------------------------------------
(* What the way of a call means for its caller.                            *)

CallInv == ControlInv /\ SlotsMatchCalls /\ PathInv

LEMMA CallInvAlways == Spec => []CallInv
<1>1. Init => CallInv
  BY SlotsInit, PathInit DEF CallInv
<1>2. CallInv /\ [Next]_vars => CallInv'
  BY SlotsStep, PathStep DEF CallInv
<1> QED
  BY <1>1, <1>2, PTL DEF Spec

\* What does not belong to a call.
SharedType ==
  /\ closed \in BOOLEAN /\ historyClosed \in BOOLEAN /\ cancelled \subseteq Cancellable
  /\ forgotten \subseteq Calls

LEMMA SharedTypeStep == SharedType /\ [Next]_vars => SharedType'
<1> SUFFICES ASSUME SharedType, [Next]_vars PROVE SharedType'
  OBVIOUS
<1> USE DEF SharedType
<1>1. ASSUME NEW c \in Calls, CallStep(c) \/ \E k \in Kinds : Start(c, k)
      PROVE  UNCHANGED <<closed, historyClosed, cancelled>> /\ forgotten' \subseteq Calls
  <2>1. CASE AcquireFails(c)
    BY <2>1 DEF AcquireFails
  <2>2. CASE Acquire(c) \/ Release(c) \/ Leave(c)
    BY <2>2 DEF Acquire, Release, Leave, GiveBack
  <2>3. CASE ~(AcquireFails(c) \/ Acquire(c) \/ Release(c) \/ Leave(c))
    BY <1>1, <2>3
       DEF CallStep, Runs, NoneAvailable, BeforeFails, Before, PairNone, Degrade, Pick, Pair, Start,
           PickPanics, SequencePanics, NotAsked, Ask, AskAgain, Answer, AnswerRetryable, AnswerFinal,
           GiveUp, Record, After, shared
  <2> QED
    BY <2>1, <2>2, <2>3
<1>2. CASE UNCHANGED <<closed, historyClosed, forgotten, cancelled>>
  BY <1>2
<1>3. CASE \/ \E c \in Cancellable \ cancelled : Cancel(c)
           \/ CloseScheduler \/ CloseHistory
  BY <1>3 DEF Cancel, CloseScheduler, CloseHistory
<1> QED
  BY <1>1, <1>2, <1>3 DEF Next, vars, shared

\* Hooks neither hide a panic nor cause one.
HandedInv ==
  /\ handed \in [Calls -> Results]
  /\ \A c \in Calls : after[c] > 0 => (handed[c] = "panic" <=> result[c] = "panic")

LEMMA HandedStep == CallInv /\ HandedInv /\ [Next]_vars => HandedInv'
<1> SUFFICES ASSUME CallInv, HandedInv, [Next]_vars PROVE HandedInv'
  OBVIOUS
<1>1. ControlInv /\ PathInv /\ PathType /\ handed \in [Calls -> Results]
  BY DEF CallInv, PathInv, HandedInv
<1>2. CASE \E c \in Calls : CallStep(c) \/ \E k \in Kinds : Start(c, k)
  <2>1. PICK c \in Calls : CallStep(c) \/ \E k \in Kinds : Start(c, k)
    BY <1>2
  <2>2. \A d \in Calls \ {c} : after'[d] = after[d] /\ result'[d] = result[d]
    BY <1>1, <2>1, OthersStay DEF Same
  <2>3. CASE After(c)
    <3>1. PICK x \in Rewritten(c) : handed' = [handed EXCEPT ![c] = x]
      BY <2>3 DEF After
    <3>2. result' = result /\ result[c] \in Results
      BY <1>1, <2>3, CallType DEF After
    <3>3. x \in Results /\ (x = "panic" <=> result[c] = "panic")
      BY <3>2 DEF Rewritten, Results
    <3> QED
      BY <1>1, <2>2, <3>1, <3>2, <3>3 DEF HandedInv
  <2>4. CASE ~After(c)
    <3>1. UNCHANGED handed
      BY <2>1, <2>4
         DEF CallStep, Runs, NoneAvailable, BeforeFails, Before, PairNone, Degrade, Pick, Pair, Start,
             PickPanics, SequencePanics, Acquire, AcquireFails, NotAsked, Ask, AskAgain, Answer,
             AnswerRetryable, AnswerFinal, GiveUp, Release, Record, Leave, hooks
    <3>2. UNCHANGED after
      BY <2>1, <2>4
         DEF CallStep, Runs, NoneAvailable, BeforeFails, Before, PairNone, Degrade, Pick, Pair, Start,
             PickPanics, SequencePanics, Acquire, AcquireFails, NotAsked, Ask, AskAgain, Answer,
             AnswerRetryable, AnswerFinal, GiveUp, Release, Record, Leave, hooks
    <3>3. after[c] > 0 => UNCHANGED result
      <4> SUFFICES ASSUME after[c] > 0 PROVE UNCHANGED result
        OBVIOUS
      <4>1. pc[c] \in {"leave", "returned"}
        <5>1. HooksAt(pc[c], kind[c], Count(verdict[c]), before[c], after[c], result[c]) /\ after[c] # 0
          BY <1>1, PartsOf
        <5> QED
          BY <5>1 DEF HooksAt
      <4>2. Leave(c)
        BY <2>1, <2>4, <4>1
           DEF CallStep, Runs, NoneAvailable, BeforeFails, Before, PairNone, Degrade, Pick, Pair, Start,
               PickPanics, SequencePanics, Acquire, AcquireFails, NotAsked, Ask, AskAgain, Answer,
               GiveUp, Release, Record
      <4> QED
        BY <4>2 DEF Leave
    <3> QED
      BY <1>1, <2>2, <3>1, <3>2, <3>3 DEF HandedInv
  <2> QED
    BY <2>3, <2>4
<1>3. CASE UNCHANGED <<after, handed, result>>
  BY <1>3 DEF HandedInv
<1> QED
  BY <1>2, <1>3 DEF Next, Cancel, CloseScheduler, CloseHistory, vars, hooks

LEMMA HandedAlways == Spec => []HandedInv
<1>1. Init => HandedInv
  BY DEF Init, HandedInv, Results
<1> QED
  BY <1>1, HandedStep, CallInvAlways, PTL DEF Spec

(* A call never leaves its types: no record names an unknown provider, and *)
(* the semaphore is never released below zero.                             *)
THEOREM CallsKeepTypes == Spec => []TypeOK
<1>1. Spec => []SharedType
  <2>1. Init => SharedType
    BY DEF Init, SharedType
  <2> QED
    BY <2>1, SharedTypeStep, PTL DEF Spec
<1>2. SharedType /\ CallInv /\ HandedInv => TypeOK
  <2> SUFFICES ASSUME SharedType, CallInv, HandedInv PROVE TypeOK
    OBVIOUS
  <2>1. inUse \in Nat
    <3>1. inUse = Cardinality(SlotsOf(HeldBy))
      BY SlotsMeaning DEF CallInv
    <3>2. Cardinality(SlotsOf(HeldBy)) \in Nat
      BY SlotsFinite, FS_CardinalityType
    <3> QED
      BY <3>1, <3>2
  <2> QED
    BY <2>1 DEF TypeOK, SharedType, CallInv, HandedInv, PathInv, PathType, AnyKind
<1> QED
  BY <1>1, <1>2, CallInvAlways, HandedAlways, PTL

-----------------------------------------------------------------------------
(* Panics.                                                                 *)

LEMMA SettlesOnlySteps ==
  ASSUME ControlInv, NEW c \in Calls, CallStep(c) \/ \E k \in Kinds : Start(c, k),
         ~Record(c), ~PickPanics(c), ~SequencePanics(c)
  PROVE  SettlesOnly(c)
<1>1. CASE \/ NoneAvailable(c) \/ BeforeFails(c) \/ PairNone(c) \/ AcquireFails(c)
           \/ Degrade(c) \/ \E k \in Kinds : Start(c, k)
  BY <1>1 DEF SettlesOnly, NoneAvailable, BeforeFails, PairNone, AcquireFails, Degrade, Start,
              Settle, Results
<1>2. CASE \/ (\E o \in Orders : Pick(c, o) \/ Pair(c, o)) \/ Before(c) \/ Acquire(c)
           \/ NotAsked(c) \/ Ask(c) \/ AskAgain(c) \/ GiveUp(c) \/ After(c) \/ Leave(c)
  <2>1. UNCHANGED result
    BY <1>2 DEF Pick, Pair, Before, Acquire, NotAsked, Ask, AskAgain, GiveUp, After, Leave
  <2> QED
    BY <2>1 DEF SettlesOnly, Results
<1>3. CASE Answer(c)
  BY <1>3 DEF SettlesOnly, Answer, AnswerRetryable, AnswerFinal, Settle, Results
<1>4. CASE Release(c)
  BY <1>4, ReleaseGoes
<1> QED
  BY <1>1, <1>2, <1>3, <1>4 DEF CallStep, Runs

\* Where a panic of one call may come from.
PanicOf(c) ==
  result[c] = "panic" =>
    \/ historyClosed /\ Persistent /\ kind[c] # "test"
    \/ Settled(c) = {} /\ kind[c] \notin {"audit", "test"}

\* A call that panics has come to its end, and keeps what it settled.
LEMMA PanicOfStep ==
  ASSUME CallInv, NEW c \in Calls, PanicOf(c), CallStep(c) \/ \E k \in Kinds : Start(c, k)
  PROVE  PanicOf(c)'
<1>1. ControlInv /\ PathInv /\ PathType
  BY DEF CallInv, PathInv
<1>2. UNCHANGED historyClosed
  BY DEF CallStep, Runs, NoneAvailable, BeforeFails, Before, PairNone, Degrade, Pick, Pair, Start,
         PickPanics, SequencePanics, Acquire, AcquireFails, NotAsked, Ask, AskAgain, Answer,
         AnswerRetryable, AnswerFinal, GiveUp, Release, Record, After, Leave, GiveBack, shared
<1>3. CASE Record(c)
  <2>1. pc[c] = "record" /\ kind[c] # "test" /\ UNCHANGED kind /\ result[c] = "none"
    BY <1>1, <1>3, PartsOf DEF Record, plan, ControlInv, Allowed, ResultAt, Over
  <2>2. CASE Persistent /\ historyClosed
    BY <1>2, <2>1, <2>2 DEF PanicOf
  <2>3. CASE ~(Persistent /\ historyClosed)
    <3>1. UNCHANGED result \/ AfterRecord(c)
      BY <1>3, <2>3 DEF Record
    <3>2. result'[c] # "panic"
      BY <1>1, <2>1, <3>1, AfterRecordGoes DEF SettlesOnly, PathType
    <3> QED
      BY <3>2 DEF PanicOf
  <2> QED
    BY <2>2, <2>3
<1>4. CASE PickPanics(c) \/ SequencePanics(c)
  <2>1. UNCHANGED <<verdict, kind>>
    BY <1>4 DEF PickPanics, SequencePanics, plan, work
  <2>2. kind[c] \notin {"audit", "test"}
    BY <1>1, <1>4 DEF PickPanics, SequencePanics, Chat, Fallback, ControlInv, Allowed
  <2>3. Settled(c) = {}
    <3>1. Beginning(pc[c], kind[c]) \/ Settled(c) = {}
      BY <1>4 DEF PickPanics, SequencePanics, Beginning
    <3> QED
      BY <1>1, <3>1, FreshFacts, OkMeaning
  <2> QED
    BY <2>1, <2>2, <2>3 DEF PanicOf, Settled
<1>5. CASE After(c) \/ Leave(c)
  <2>1. UNCHANGED <<verdict, kind, result>>
    BY <1>5 DEF After, Leave, plan, work
  <2> QED
    BY <1>2, <2>1 DEF PanicOf, Settled
<1>6. CASE ~(Record(c) \/ PickPanics(c) \/ SequencePanics(c) \/ After(c) \/ Leave(c))
  <2>1. pc[c] \notin Over
    BY <1>6 DEF CallStep, Runs, NoneAvailable, BeforeFails, Before, PairNone, Degrade, Pick, Pair,
                Start, Acquire, AcquireFails, NotAsked, Ask, AskAgain, Answer, GiveUp, Release, Over
  <2>2. result[c] = "none"
    BY <1>1, <2>1, PartsOf DEF ResultAt
  <2>3. SettlesOnly(c)
    BY <1>1, <1>6, SettlesOnlySteps
  <2>4. result'[c] # "panic"
    BY <1>1, <2>2, <2>3 DEF SettlesOnly, PathType
  <2> QED
    BY <2>4 DEF PanicOf
<1> QED
  BY <1>3, <1>4, <1>5, <1>6

(* For any number of calls and providers, whatever the providers do, a     *)
(* panic that reaches a caller comes from a history with a storage that was*)
(* closed, or from the picking, before the call had asked anybody.         *)
THEOREM PanicsComeFromPickOrHistory == Spec => []PanicOnlyFromPickOrHistory
<1> DEFINE Inv == \A c \in Calls : PanicOf(c)
<1>1. Init => Inv
  BY DEF Init, PanicOf
<1>2. CallInv /\ Inv /\ [Next]_vars => Inv'
  <2> SUFFICES ASSUME CallInv, Inv, [Next]_vars, NEW d \in Calls PROVE PanicOf(d)'
    OBVIOUS
  <2>1. CASE \E c \in Calls : CallStep(c) \/ \E k \in Kinds : Start(c, k)
    <3>1. PICK c \in Calls : CallStep(c) \/ \E k \in Kinds : Start(c, k)
      BY <2>1
    <3>2. CASE c = d
      BY <3>1, <3>2, PanicOfStep
    <3>3. CASE c # d
      <4>1. Same(d)
        BY <3>1, <3>3, OthersStay DEF CallInv, PathInv
      <4>2. UNCHANGED historyClosed
        BY <3>1
           DEF CallStep, Runs, NoneAvailable, BeforeFails, Before, PairNone, Degrade, Pick, Pair, Start,
               PickPanics, SequencePanics, Acquire, AcquireFails, NotAsked, Ask, AskAgain, Answer,
               AnswerRetryable, AnswerFinal, GiveUp, Release, Record, After, Leave, GiveBack, shared
      <4> QED
        BY <4>1, <4>2 DEF PanicOf, Same, Settled
    <3> QED
      BY <3>2, <3>3
  <2>2. CASE UNCHANGED <<kind, verdict, result>> /\ (historyClosed => historyClosed')
    BY <2>2 DEF PanicOf, Settled
  <2> QED
    BY <2>1, <2>2 DEF Next, Cancel, CloseScheduler, CloseHistory, vars, shared, plan, work
<1>3. Inv => PanicOnlyFromPickOrHistory
  BY DEF PanicOf, PanicOnlyFromPickOrHistory
<1> QED
  BY <1>1, <1>2, <1>3, CallInvAlways, PTL DEF Spec

-----------------------------------------------------------------------------
(* For any number of calls and providers, any order and any failures, what *)
(* a call makes of its answers is what became of the providers; the caller *)
(* is told that, unless the hooks of a chat or a fallback tell him another *)
(* answer or error, and of every panic.                                    *)
THEOREM ResultsAreFaithful == Spec => []ResultFaithful
<1>1. ASSUME CallInv, HandedInv, NEW c \in Calls, Returned(c)
      PROVE  LET ok == {q \in Providers : verdict[c][q] = "ok"}
                 asked == Settled(c)
             IN  /\ result[c] = "ok" => ok # {}
                 /\ result[c] = "failed" => asked # {} /\ ok = {}
                 /\ result[c] = "failed" /\ (Fallback(c) \/ Dual(c))
                      => asked = {order[c][i] : i \in 1..Len(order[c])}
                 /\ Fallback(c) /\ ok # {} =>
                      /\ result[c] \in {"ok", "panic"}
                      /\ ok = {order[c][Cardinality(asked)]}
                 /\ Audit(c) /\ result[c] = "ok" => verdict[c][order[c][1]] = "ok"
                 /\ result[c] \in {"closed", "noProvider", "hook"} => asked = {}
                 /\ result[c] = "cancelled" /\ ok # {} => Audit(c) /\ Cardinality(asked) = 1
                 /\ Told(c) # result[c] => Chat(c) \/ Fallback(c)
                 /\ Told(c) = "panic" <=> result[c] = "panic"
  <2> DEFINE v == verdict[c]
             n == Count(verdict[c])
             o == order[c]
  <2>1. PathInv /\ pc[c] = "returned"
    BY <1>1 DEF CallInv, Returned
  <2>2. Says(kind[c], o, v, result[c])
    BY <2>1, PartsOf DEF ResultAt, Over
  <2>3. SettledIn(v) = Prefix(o, n) /\ n \in 0..Len(o)
    BY <2>1, CountType
  <2>4. VerdictsAt("returned", kind[c], o, v)
    BY <2>1, PartsOf
  <2>5. GoodIn(v) = {q \in Providers : verdict[c][q] = "ok"} /\ Settled(c) = SettledIn(v)
        /\ Cardinality(Settled(c)) = n
    BY OkMeaning DEF GoodIn
  <2>6. kind[c] = "fallback" /\ GoodIn(v) # {} => GoodIn(v) = {o[n]}
    <3> SUFFICES ASSUME kind[c] = "fallback", GoodIn(v) # {} PROVE GoodIn(v) = {o[n]}
      OBVIOUS
    <3>1. \A i \in 1..n : v[o[i]] = "ok" => i = n
      BY <2>4 DEF VerdictsAt
    <3>2. \A q \in GoodIn(v) : \E i \in 1..n : q = o[i] /\ v[o[i]] = "ok"
      BY <2>3 DEF GoodIn, SettledIn, Prefix
    <3> QED
      BY <3>1, <3>2
  <2>7. n = Len(o) => Settled(c) = {order[c][i] : i \in 1..Len(order[c])}
    BY <2>3, <2>5 DEF Prefix
  <2> HIDE DEF v, n
  <2>8. /\ result[c] = "ok" => GoodIn(v) # {}
        /\ result[c] = "failed" => Settled(c) # {} /\ GoodIn(v) = {}
        /\ result[c] = "failed" /\ (Fallback(c) \/ Dual(c)) => n = Len(o)
        /\ Fallback(c) /\ GoodIn(v) # {} => result[c] \in {"ok", "panic"}
        /\ Audit(c) /\ result[c] = "ok" => v[o[1]] = "ok"
        /\ result[c] \in {"closed", "noProvider", "hook"} => Settled(c) = {}
        /\ result[c] = "cancelled" /\ GoodIn(v) # {} => Audit(c) /\ n = 1
    BY <2>2, <2>5, Zenon DEF Says, Fallback, Dual, Audit, n, v
  <2>9. Told(c) # result[c] => Chat(c) \/ Fallback(c)
    <3> SUFFICES ASSUME after[c] > 0 PROVE Chat(c) \/ Fallback(c)
      BY DEF Told
    <3>1. HooksAt("returned", kind[c], n, before[c], after[c], result[c])
      BY <2>1, PartsOf DEF n
    <3>2. kind[c] \in AnyKind /\ before[c] \in Nat /\ after[c] \in Nat
      BY <2>1, CallType
    <3> QED
      BY <3>1, <3>2 DEF HooksAt, Chat, Fallback, AnyKind, AllKinds
  <2>10. Told(c) = "panic" <=> result[c] = "panic"
    BY <1>1 DEF Told, HandedInv
  <2> QED
    BY <2>5, <2>6, <2>7, <2>8, <2>9, <2>10, Zenon DEF Fallback, v
<1>2. CallInv /\ HandedInv => ResultFaithful
  BY <1>1, Zenon DEF ResultFaithful
<1> QED
  BY <1>2, CallInvAlways, HandedAlways, PTL

(* For any number of calls and providers, the history of a call that comes *)
(* back without a panic holds what it settled, once and in order.          *)
THEOREM HistoryIsFaithful == Spec => []HistoryFaithful
<1>1. ASSUME CallInv, NEW c \in Calls, Returned(c), result[c] # "panic", kind[c] # "test"
      PROVE  LET n == IF Audit(c) /\ result[c] # "ok" THEN 0 ELSE Cardinality(Settled(c))
             IN  /\ Len(records[c]) = n
                 /\ \A i \in 1..n :
                      records[c][i] =
                        [provider |-> order[c][i], ok |-> verdict[c][order[c][i]] = "ok",
                         from |-> IF Fallback(c) /\ i > 1 THEN order[c][1] ELSE NoProvider]
  <2>1. PathInv /\ pc[c] = "returned"
    BY <1>1 DEF CallInv, Returned
  <2>2. RecordsAt("returned", kind[c], order[c], verdict[c], records[c], result[c])
    BY <2>1, PartsOf
  <2>3. Len(records[c]) = IF Audit(c) /\ result[c] # "ok" THEN 0 ELSE Cardinality(Settled(c))
    <3>1. Cardinality(Settled(c)) = Count(verdict[c])
      BY OkMeaning
    <3> QED
      BY <1>1, <2>2, <3>1 DEF RecordsAt, Over, Audit
  <2>4. \A i \in 1..Len(records[c]) :
          records[c][i] =
            [provider |-> order[c][i], ok |-> verdict[c][order[c][i]] = "ok",
             from |-> IF Fallback(c) /\ i > 1 THEN order[c][1] ELSE NoProvider]
    BY <2>2 DEF RecordsAt, RecordFor, Fallback
  <2> QED
    BY <2>3, <2>4, Zenon
<1>2. CallInv => HistoryFaithful
  BY <1>1, Zenon DEF HistoryFaithful
<1> QED
  BY <1>2, CallInvAlways, PTL

(* For any number of attempts and providers the hooks run in pairs, except *)
(* in the cases that HooksPaired names.                                    *)
THEOREM HooksRunInPairs == Spec => []HooksPaired
<1>1. ASSUME CallInv, NEW c \in Calls
      PROVE  /\ after[c] <= before[c]
             /\ Returned(c) /\ Settled(c) # {} =>
                  /\ Fallback(c) => before[c] = 1 /\ after[c] = 1
                  /\ kind[c] = "chat" /\ result[c] # "panic" => before[c] = 1 /\ after[c] = 1
                  /\ Dual(c) => before[c] = 1 /\ after[c] = 0
                  /\ kind[c] = "single" /\ result[c] # "panic" => before[c] = 2 /\ after[c] = 1
  <2>1. PathInv
    BY <1>1 DEF CallInv
  <2>2. HooksAt(pc[c], kind[c], Count(verdict[c]), before[c], after[c], result[c])
    BY <2>1, PartsOf
  <2>3. after[c] <= before[c]
    BY <2>2 DEF HooksAt
  <2>4. ASSUME Returned(c), Settled(c) # {} PROVE Count(verdict[c]) > 0
    <3>1. /\ SettledIn(verdict[c]) = Prefix(order[c], Count(verdict[c])) /\ Count(verdict[c]) \in Nat
      BY <2>1, <2>4, CountType DEF Returned
    <3>2. Count(verdict[c]) # 0
      BY <2>4, <3>1, OkMeaning DEF Prefix
    <3> QED
      BY <3>1, <3>2
  <2> QED
    BY <2>2, <2>3, <2>4 DEF HooksAt, Returned, Fallback, Dual, One, Over, Asking
<1>2. CallInv => HooksPaired
  BY <1>1 DEF HooksPaired
<1> QED
  BY <1>2, CallInvAlways, PTL

\* A step of one call asks more of it, or nobody.
LEMMA AsksStep ==
  ASSUME CallInv, [Next]_vars, NEW c \in Calls, NEW q \in inflight'[c] \ inflight[c]
  PROVE  (Ask(c) \/ AskAgain(c)) /\ q \in Asked(c)
<1>1. PathInv /\ ControlInv /\ PathType
  BY DEF CallInv, PathInv
<1>2. CASE \E d \in Calls : CallStep(d) \/ \E k \in Kinds : Start(d, k)
  <2>1. PICK d \in Calls : CallStep(d) \/ \E k \in Kinds : Start(d, k)
    BY <1>2
  <2>2. d = c
    <3>1. d # c => inflight'[c] = inflight[c]
      BY <1>1, <2>1, OthersStay DEF Same
    <3> QED
      BY <3>1
  <2>3. CASE Ask(c) \/ AskAgain(c)
    <3>1. inflight' = [inflight EXCEPT ![c] = Asked(c)]
      BY <2>3 DEF Ask, AskAgain
    <3> QED
      BY <1>1, <2>3, <3>1 DEF PathType
  <2>4. CASE Answer(c)
    BY <1>1, <2>4 DEF Answer, AnswerRetryable, AnswerFinal, PathType
  <2>5. CASE ~(Ask(c) \/ AskAgain(c) \/ Answer(c))
    <3>1. UNCHANGED inflight
      BY <2>1, <2>2, <2>5
         DEF CallStep, Runs, NoneAvailable, BeforeFails, Before, PairNone, Degrade, Pick, Pair, Start, Acquire,
             AcquireFails, NotAsked, GiveUp, Release, Record, After, Leave, PickPanics, SequencePanics, work
    <3> QED
      BY <3>1
  <2> QED
    BY <2>3, <2>4, <2>5
<1>3. CASE UNCHANGED inflight
  BY <1>3
<1> QED
  BY <1>2, <1>3 DEF Next, Cancel, CloseScheduler, CloseHistory, work, vars

(* Whatever the providers answer, a provider is asked once more only after *)
(* errors that can be retried, and as often as DoRetry allows.             *)
THEOREM AsksAreBounded == Spec => AsksBounded
<1> DEFINE Bounded == \A c \in Calls : \A q \in inflight'[c] \ inflight[c] :
                        /\ verdict[c][q] = "none"
                        /\ Len(tries[c]) <= Retries(c)
                        /\ \A i \in 1..Len(tries[c]) : tries[c][i] = "transient"
<1>1. ASSUME CallInv, [Next]_vars PROVE Bounded
  <2> SUFFICES ASSUME NEW c \in Calls, NEW q \in inflight'[c] \ inflight[c]
               PROVE  /\ verdict[c][q] = "none"
                      /\ Len(tries[c]) <= Retries(c)
                      /\ \A i \in 1..Len(tries[c]) : tries[c][i] = "transient"
    OBVIOUS
  <2>1. PathInv /\ ControlInv
    BY <1>1 DEF CallInv
  <2>2. (Ask(c) \/ AskAgain(c)) /\ q \in Asked(c)
    BY <1>1, AsksStep
  <2>3. pc[c] \in Asking /\ (kind[c] = "dual" => pc[c] = "call")
    BY <2>1, <2>2 DEF Ask, AskAgain, Asking, ControlInv, Allowed
  <2>4. TriesAt(pc[c], kind[c], tries[c])
    BY <2>1, CallType DEF PathOf
  <2>5. Len(tries[c]) <= Retries(c) /\ \A i \in 1..Len(tries[c]) : tries[c][i] = "transient"
    BY <2>4 DEF TriesAt, Retries, Chat, Fallback
  <2>6. verdict[c][q] = "none"
    <3>1. CASE kind[c] # "dual"
      <4>1. q = order[c][Count(verdict[c]) + 1] /\ Count(verdict[c]) \in Nat
            /\ Count(verdict[c]) < Len(order[c]) /\ Distinct(order[c])
            /\ SettledIn(verdict[c]) = Prefix(order[c], Count(verdict[c])) /\ q \in Providers
        BY <2>1, <2>2, <2>3, <3>1, AskedIs
      <4>2. q \notin Prefix(order[c], Count(verdict[c]))
        <5> DEFINE o == order[c]
                   n == Count(verdict[c])
        <5>1. Len(o) \in Nat
          BY <2>1, CallType
        <5>2. q = o[n + 1] /\ n \in Nat /\ n < Len(o) /\ Distinct(o)
          BY <4>1
        <5> HIDE DEF o, n
        <5>3. \A i \in 1..n : i \in 1..Len(o) /\ n + 1 \in 1..Len(o) /\ i # n + 1
          BY <5>1, <5>2
        <5>4. \A i \in 1..n : o[i] # q
          BY <5>2, <5>3, Zenon DEF Distinct
        <5>5. q \notin Prefix(o, n)
          BY <5>4 DEF Prefix
        <5> QED
          BY <5>5 DEF o, n
      <4> QED
        BY <4>1, <4>2 DEF SettledIn
    <3>2. CASE kind[c] = "dual"
      <4>1. SettledIn(verdict[c]) = {} /\ Len(order[c]) = 2 /\ order[c] \in Seq(Providers)
        BY <2>1, <2>3, <3>2, PartsOf, CallType DEF ProgressAt, OrderAt
      <4>2. q \in Providers
        BY <2>2, <3>2, <4>1 DEF Asked, Dual
      <4> QED
        BY <4>1, <4>2 DEF SettledIn
    <3> QED
      BY <3>1, <3>2
  <2> QED
    BY <2>5, <2>6
<1>2. CallInv /\ [Next]_vars => [Bounded]_vars
  BY <1>1
<1> QED
  BY <1>2, CallInvAlways, PTL DEF Spec, AsksBounded

=============================================================================
