--------------------------- MODULE SchedulerProofs ---------------------------
(***************************************************************************)
(* Theorems about what the goroutines of the scheduler share: the slots of *)
(* the semaphore, for any number of goroutines, any weights and any        *)
(* capacities, and the request of a caller (module Requests), for any      *)
(* number of calls and providers, any hooks and any templates.             *)
(***************************************************************************)
EXTENDS SemaphoreProperties, RequestsProperties, SequenceTheorems, FiniteSetTheorems, TLAPS

(***************************************************************************)
(* Types and the mutex.  mu is held exactly in the critical sections; its  *)
(* holder can rely on the queue it saw and on the waiter it popped.        *)
(***************************************************************************)
InCritical == {"recheckMax", "slowAdd", "wakeMax", "wakeAdd"}

MutexHeld == \A p \in Procs : pc[p] \in InCritical <=> mu = p

WakerReady ==
  \A p \in Procs :
    /\ pc[p] = "wakeMax" => waiters # <<>>
    /\ pc[p] = "wakeAdd" => target[p] \in Procs

MutexInv == TypeOK /\ MutexHeld /\ WakerReady

(* Index arithmetic for the next lemma.                                    *)
LEMMA SpliceArithmetic == ASSUME NEW n \in Nat, NEW i \in 1..n
  PROVE /\ (i - 1) + (n - i) = n - 1
        /\ \A j \in 1..(n - 1) : j >= i => /\ j - (i - 1) \in 1..(n - i)
                                           /\ i + (j - (i - 1)) = j + 1
  OBVIOUS

(* Removing one element of a sequence of processes leaves such a sequence, *)
(* one shorter, whose elements keep their order.                           *)
LEMMA RemovalType ==
  ASSUME NEW S, NEW s \in Seq(S), NEW i \in 1..Len(s)
  PROVE  /\ Without(s, i) \in Seq(S)
         /\ Len(Without(s, i)) = Len(s) - 1
         /\ \A j \in 1..(Len(s) - 1) :
              Without(s, i)[j] = IF j < i THEN s[j] ELSE s[j + 1]
<1> DEFINE a == SubSeq(s, 1, i - 1)
           b == SubSeq(s, i + 1, Len(s))
           t == a \o b
<1>1. Len(s) \in Nat /\ i \in 1..Len(s) /\ i - 1 \in Int /\ i + 1 \in Int /\ 1 \in Int
  OBVIOUS
<1>2. \A j \in 1..Len(s) : s[j] \in S
  OBVIOUS
<1>3. /\ a \in Seq(S) /\ Len(a) = i - 1
      /\ \A j \in 1..(i - 1) : a[j] = s[j]
  BY <1>1, <1>2, SubSeqProperties, SMT
<1>4. /\ b \in Seq(S) /\ Len(b) = Len(s) - i
      /\ \A j \in 1..(Len(s) - i) : b[j] = s[i + j]
  BY <1>1, <1>2, SubSeqProperties, SMT
<1> HIDE DEF a, b
<1>6. /\ t \in Seq(S)
      /\ Len(t) = Len(a) + Len(b)
      /\ \A j \in 1..Len(a) + Len(b) :
           t[j] = IF j <= Len(a) THEN a[j] ELSE b[j - Len(a)]
  BY <1>3, <1>4, ConcatProperties
<1> DEFINE n == Len(s)
<1> HIDE DEF t, n
<1>7. n \in Nat /\ i \in 1..n /\ Len(a) = i - 1 /\ Len(b) = n - i
  BY <1>1, <1>3, <1>4 DEF n
<1>8. Len(t) = n - 1
  BY <1>6, <1>7, SpliceArithmetic
<1>9. ASSUME NEW j \in 1..(n - 1)
      PROVE  t[j] = IF j < i THEN s[j] ELSE s[j + 1]
  <2>1. t[j] = IF j <= i - 1 THEN a[j] ELSE b[j - (i - 1)]
    BY <1>6, <1>7, <1>8
  <2>2. CASE j < i
    BY <1>3, <1>7, <2>1, <2>2
  <2>3. CASE j >= i
    <3>1. /\ j - (i - 1) \in 1..(n - i) /\ i + (j - (i - 1)) = j + 1
      BY <1>7, <2>3, SpliceArithmetic
    <3>2. b[j - (i - 1)] = s[j + 1]
      BY <1>4, <3>1 DEF n
    <3>3. QED
      BY <1>7, <2>1, <2>3, <3>2
  <2>4. QED
    BY <1>7, <2>2, <2>3
<1>10. QED
  BY <1>6, <1>8, <1>9 DEF t, a, b, n, Without

(* What the queue's other operations return. *)
LEMMA QueueType ==
  ASSUME NEW s \in Seq(Procs), NEW p \in Procs
  PROVE  /\ Append(s, p) \in Seq(Procs)
         /\ s # <<>> => Head(s) \in Procs /\ Tail(s) \in Seq(Procs)
BY HeadTailProperties

LEMMA MutexInit == Init => MutexInv
BY SemaphoreAssumption DEF Init, MutexInv, TypeOK, MutexHeld, WakerReady, InCritical, Labels

LEMMA MutexNext == MutexInv /\ [Next]_vars => MutexInv'
<1> SUFFICES ASSUME MutexInv, [Next]_vars PROVE MutexInv'
  OBVIOUS
<1> USE DEF MutexInv, InCritical, Goto
<1>0. /\ {"idle", "fastInUse", "fastMax", "fastCAS", "acqLock"} \subseteq Labels
      /\ {"recheckMax", "slowAdd", "waiting", "cancelLock"} \subseteq Labels
      /\ {"giveBack", "holding", "wakeLock", "wakeMax", "wakeAdd"} \subseteq Labels
  BY DEF Labels
<1>1. ASSUME NEW p \in Procs, NEW n \in Weights, StartAcquire(p, n) PROVE MutexInv'
  <2>1. TypeOK'
    BY SemaphoreAssumption, <1>0, <1>1 DEF StartAcquire, TypeOK
  <2>2. MutexHeld'
    BY SemaphoreAssumption, <1>1 DEF StartAcquire, TypeOK, MutexHeld
  <2>3. WakerReady'
    BY <1>1 DEF StartAcquire, TypeOK, MutexHeld, WakerReady
  <2>4. QED
    BY <2>1, <2>2, <2>3
<1>2. ASSUME NEW p \in Procs, NEW n \in Capacities, SetMaxConc(p, n) PROVE MutexInv'
  <2>1. TypeOK'
    BY SemaphoreAssumption, <1>0, <1>2 DEF SetMaxConc, TypeOK
  <2>2. MutexHeld'
    BY SemaphoreAssumption, <1>2 DEF SetMaxConc, TypeOK, MutexHeld
  <2>3. WakerReady'
    BY <1>2 DEF SetMaxConc, TypeOK, MutexHeld, WakerReady
  <2>4. QED
    BY <2>1, <2>2, <2>3
<1>3. ASSUME NEW p \in Procs, Cancel(p) PROVE MutexInv'
  <2>1. TypeOK'
    BY <1>0, <1>3 DEF Cancel, TypeOK
  <2>2. MutexHeld'
    BY SemaphoreAssumption, <1>3 DEF Cancel, TypeOK, MutexHeld
  <2>3. WakerReady'
    BY <1>3 DEF Cancel, TypeOK, MutexHeld, WakerReady
  <2>4. QED
    BY <2>1, <2>2, <2>3
<1>4. ASSUME NEW p \in Procs, AcquireLock(p) PROVE MutexInv'
  <2>1. TypeOK'
    BY <1>0, <1>4 DEF AcquireLock, TypeOK
  <2>2. MutexHeld'
    BY SemaphoreAssumption, <1>4 DEF AcquireLock, TypeOK, MutexHeld
  <2>3. WakerReady'
    BY <1>4 DEF AcquireLock, TypeOK, MutexHeld, WakerReady
  <2>4. QED
    BY <2>1, <2>2, <2>3
<1>5. ASSUME NEW p \in Procs, LeaveQueue(p) PROVE MutexInv'
  <2>1. waiters' \in Seq(Procs)
    BY <1>5, RemovalType DEF LeaveQueue, TypeOK
  <2>2. /\ pc[p] = "cancelLock" /\ mu = NoProc
        /\ pc' = [pc EXCEPT ![p] = "idle"] \/ pc' = [pc EXCEPT ![p] = "giveBack"]
        /\ need' = need \/ need' = [need EXCEPT ![p] = 0]
        /\ signalled' \subseteq signalled /\ cancelled' \subseteq cancelled
        /\ UNCHANGED <<inUse, maxConc, mu, cur, target>>
    BY <1>5 DEF LeaveQueue, Abandoned
  <2>3. TypeOK'
    <3>1. need' \in [Procs -> 0..MaxWeight]
      <4>1. 0 \in 0..MaxWeight
        BY SemaphoreAssumption
      <4>2. QED
        BY <2>2, <4>1 DEF TypeOK
    <3>2. QED
      BY <1>0, <2>1, <2>2, <3>1 DEF TypeOK
  <2>4. \A q \in Procs : pc'[q] \notin InCritical /\ mu' # q
    <3>1. \A q \in Procs : pc[q] \notin InCritical /\ mu' # q
      BY SemaphoreAssumption, <2>2 DEF MutexHeld
    <3>2. QED
      BY <2>2, <3>1 DEF TypeOK
  <2>5. MutexHeld' /\ WakerReady'
    BY <2>4 DEF MutexHeld, WakerReady
  <2>6. QED
    BY <2>3, <2>5
<1>6. ASSUME NEW p \in Procs, WakeLock(p) PROVE MutexInv'
  <2>1. TypeOK'
    <3>1. pc' \in [Procs -> Labels]
      BY <1>0, <1>6 DEF WakeLock, TypeOK, WakerReady
    <3>2. mu' \in Procs \cup {NoProc}
      BY <1>6 DEF WakeLock, TypeOK, WakerReady
    <3>3. cur' \in [Procs -> Int]
      BY <1>6 DEF WakeLock, TypeOK, WakerReady
    <3>4. QED
      BY <1>6, <3>1, <3>2, <3>3 DEF WakeLock, TypeOK, WakerReady
  <2>2. MutexHeld'
    BY SemaphoreAssumption, <1>6 DEF WakeLock, TypeOK, MutexHeld
  <2>3. WakerReady'
    BY <1>6 DEF WakeLock, TypeOK, MutexHeld, WakerReady
  <2>4. QED
    BY <2>1, <2>2, <2>3
<1>7. ASSUME NEW p \in Procs, FastLoadInUse(p) PROVE MutexInv'
  <2>1. TypeOK'
    BY <1>0, <1>7 DEF FastLoadInUse, TypeOK
  <2>2. MutexHeld'
    BY SemaphoreAssumption, <1>7 DEF FastLoadInUse, TypeOK, MutexHeld
  <2>3. WakerReady'
    BY <1>7 DEF FastLoadInUse, TypeOK, MutexHeld, WakerReady
  <2>4. QED
    BY <2>1, <2>2, <2>3
<1>8. ASSUME NEW p \in Procs, FastLoadMax(p) PROVE MutexInv'
  <2>1. TypeOK'
    <3>1. pc' \in [Procs -> Labels]
      BY <1>0, <1>8 DEF FastLoadMax, TypeOK
    <3>2. cur' \in [Procs -> Int]
      BY <1>8 DEF FastLoadMax, TypeOK
    <3>3. QED
      BY <1>8, <3>1, <3>2 DEF FastLoadMax, TypeOK
  <2>2. MutexHeld'
    BY SemaphoreAssumption, <1>8 DEF FastLoadMax, TypeOK, MutexHeld
  <2>3. WakerReady'
    BY <1>8 DEF FastLoadMax, TypeOK, MutexHeld, WakerReady
  <2>4. QED
    BY <2>1, <2>2, <2>3
<1>9. ASSUME NEW p \in Procs, FastCAS(p) PROVE MutexInv'
  <2>1. TypeOK'
    <3>1. pc' \in [Procs -> Labels]
      BY <1>0, <1>9 DEF FastCAS, Acquired, TypeOK
    <3>2. cur' \in [Procs -> Int]
      BY <1>9 DEF FastCAS, Acquired, TypeOK
    <3>3. inUse' \in Int
      BY SemaphoreAssumption, <1>9 DEF FastCAS, Acquired, TypeOK
    <3>4. cancelled' \subseteq Cancellable
      BY <1>9 DEF FastCAS, Acquired, TypeOK
    <3>5. QED
      BY <1>9, <3>1, <3>2, <3>3, <3>4 DEF FastCAS, Acquired, TypeOK
  <2>2. MutexHeld'
    BY SemaphoreAssumption, <1>9 DEF FastCAS, Acquired, TypeOK, MutexHeld
  <2>3. WakerReady'
    BY <1>9 DEF FastCAS, Acquired, TypeOK, MutexHeld, WakerReady
  <2>4. QED
    BY <2>1, <2>2, <2>3
<1>10. ASSUME NEW p \in Procs, RecheckMax(p) PROVE MutexInv'
  <2>1. TypeOK'
    <3>1. pc' \in [Procs -> Labels]
      BY <1>0, <1>10 DEF RecheckMax, TypeOK
    <3>2. cur' \in [Procs -> Int]
      BY <1>10 DEF RecheckMax, TypeOK
    <3>3. mu' \in Procs \cup {NoProc}
      BY <1>10 DEF RecheckMax, TypeOK
    <3>4. waiters' \in Seq(Procs)
      BY <1>10, QueueType, ZenonT(30) DEF RecheckMax, TypeOK
    <3>5. QED
      BY <1>10, <3>1, <3>2, <3>3, <3>4 DEF RecheckMax, TypeOK
  <2>2. MutexHeld'
    BY SemaphoreAssumption, <1>10 DEF RecheckMax, TypeOK, MutexHeld
  <2>3. WakerReady'
    BY <1>10 DEF RecheckMax, TypeOK, MutexHeld, WakerReady
  <2>4. QED
    BY <2>1, <2>2, <2>3
<1>11. ASSUME NEW p \in Procs, SlowAdd(p) PROVE MutexInv'
  <2>1. TypeOK'
    <3>1. pc' \in [Procs -> Labels]
      BY <1>0, <1>11 DEF SlowAdd, Acquired, TypeOK
    <3>2. inUse' \in Int
      BY SemaphoreAssumption, <1>11 DEF SlowAdd, Acquired, TypeOK
    <3>3. mu' \in Procs \cup {NoProc}
      BY <1>11 DEF SlowAdd, Acquired, TypeOK
    <3>4. cancelled' \subseteq Cancellable
      BY <1>11 DEF SlowAdd, Acquired, TypeOK
    <3>5. QED
      BY <1>11, <3>1, <3>2, <3>3, <3>4 DEF SlowAdd, Acquired, TypeOK
  <2>2. MutexHeld'
    BY SemaphoreAssumption, <1>11, ZenonT(30) DEF SlowAdd, Acquired, TypeOK, MutexHeld
  <2>3. WakerReady'
    BY <1>11 DEF SlowAdd, Acquired, TypeOK, MutexHeld, WakerReady
  <2>4. QED
    BY <2>1, <2>2, <2>3
<1>12. ASSUME NEW p \in Procs, ReceiveSignal(p) PROVE MutexInv'
  <2>1. TypeOK'
    BY <1>0, <1>12 DEF ReceiveSignal, Acquired, TypeOK
  <2>2. MutexHeld'
    BY SemaphoreAssumption, <1>12 DEF ReceiveSignal, Acquired, TypeOK, MutexHeld
  <2>3. WakerReady'
    BY <1>12 DEF ReceiveSignal, Acquired, TypeOK, MutexHeld, WakerReady
  <2>4. QED
    BY <2>1, <2>2, <2>3
<1>13. ASSUME NEW p \in Procs, ReceiveDone(p) PROVE MutexInv'
  <2>1. TypeOK'
    BY <1>0, <1>13 DEF ReceiveDone, TypeOK
  <2>2. MutexHeld'
    BY SemaphoreAssumption, <1>13 DEF ReceiveDone, TypeOK, MutexHeld
  <2>3. WakerReady'
    BY <1>13 DEF ReceiveDone, TypeOK, MutexHeld, WakerReady
  <2>4. QED
    BY <2>1, <2>2, <2>3
<1>14. ASSUME NEW p \in Procs, GiveBack(p) PROVE MutexInv'
  <2>1. TypeOK'
    BY SemaphoreAssumption, <1>0, <1>14 DEF GiveBack, Abandoned, TypeOK
  <2>2. MutexHeld'
    BY SemaphoreAssumption, <1>14 DEF GiveBack, Abandoned, TypeOK, MutexHeld
  <2>3. WakerReady'
    BY <1>14 DEF GiveBack, Abandoned, TypeOK, MutexHeld, WakerReady
  <2>4. QED
    BY <2>1, <2>2, <2>3
<1>15. ASSUME NEW p \in Procs, Release(p) PROVE MutexInv'
  <2>1. TypeOK'
    BY SemaphoreAssumption, <1>0, <1>15 DEF Release, TypeOK
  <2>2. MutexHeld'
    BY SemaphoreAssumption, <1>15 DEF Release, TypeOK, MutexHeld
  <2>3. WakerReady'
    BY <1>15 DEF Release, TypeOK, MutexHeld, WakerReady
  <2>4. QED
    BY <2>1, <2>2, <2>3
<1>16. ASSUME NEW p \in Procs, WakeMax(p) PROVE MutexInv'
  <2>1. TypeOK'
    <3>1. pc' \in [Procs -> Labels]
      BY <1>0, <1>16 DEF WakeMax, TypeOK, WakerReady
    <3>2. cur' \in [Procs -> Int]
      BY <1>16 DEF WakeMax, TypeOK, WakerReady
    <3>3. mu' \in Procs \cup {NoProc}
      BY <1>16 DEF WakeMax, TypeOK, WakerReady
    <3>4. waiters' \in Seq(Procs)
      BY <1>16, QueueType, ZenonT(30) DEF WakeMax, TypeOK, WakerReady
    <3>5. target' \in [Procs -> Procs \cup {NoProc}]
      BY <1>16, QueueType, ZenonT(30) DEF WakeMax, TypeOK, WakerReady
    <3>6. QED
      BY <1>16, <3>1, <3>2, <3>3, <3>4, <3>5 DEF WakeMax, TypeOK, WakerReady
  <2>2. MutexHeld'
    <3>1. pc[p] = "wakeMax" /\ mu = p
      BY <1>16 DEF WakeMax, MutexHeld
    <3>2. \A q \in Procs \ {p} : pc'[q] = pc[q] /\ pc[q] \notin InCritical
      BY <1>16, <3>1 DEF WakeMax, TypeOK, MutexHeld
    <3>3. \/ pc'[p] = "idle" /\ mu' = NoProc
          \/ pc'[p] = "wakeAdd" /\ mu' = p
      BY <1>16, <3>1 DEF WakeMax, TypeOK
    <3>4. QED
      BY SemaphoreAssumption, <3>1, <3>2, <3>3 DEF MutexHeld
  <2>3. WakerReady'
    BY <1>16 DEF WakeMax, TypeOK, MutexHeld, WakerReady
  <2>4. QED
    BY <2>1, <2>2, <2>3
<1>17. ASSUME NEW p \in Procs, WakeAdd(p) PROVE MutexInv'
  <2>1. TypeOK'
    BY SemaphoreAssumption, <1>0, <1>17 DEF WakeAdd, TypeOK, WakerReady
  <2>2. MutexHeld'
    BY SemaphoreAssumption, <1>17 DEF WakeAdd, TypeOK, MutexHeld
  <2>3. WakerReady'
    BY <1>17 DEF WakeAdd, TypeOK, MutexHeld, WakerReady
  <2>4. QED
    BY <2>1, <2>2, <2>3
<1>18. CASE UNCHANGED vars
  BY <1>18 DEF vars, TypeOK, MutexHeld, WakerReady
<1>19. QED
  BY <1>1, <1>2, <1>3, <1>4, <1>5, <1>6, <1>7, <1>8, <1>9, <1>10, <1>11,
     <1>12, <1>13, <1>14, <1>15, <1>16, <1>17, <1>18
     DEF Next, LockStep, PlainStep

(* Every step keeps the variables in their types (AcquireN, ReleaseN and   *)
(* setMaxConc, semaphore.go 89-217).                                       *)
THEOREM TypeCorrect == Spec => []TypeOK
<1>1. MutexInv => TypeOK
  BY DEF MutexInv
<1>2. QED
  BY <1>1, MutexInit, MutexNext, PTL DEF Spec

(***************************************************************************)
(* The overshoot.  OvershootBounded is not inductive: the check made under *)
(* mu and the addition are apart, and what keeps the damage to one request *)
(* is that between them only the fast path can raise inUse, which its      *)
(* compare-and-swap keeps below the capacity it read.                      *)
(***************************************************************************)
CheckStillGood ==
  \A p \in Procs :
    /\ pc[p] = "fastCAS" => cur[p] + need[p] <= MaxCap
    /\ pc[p] \in {"recheckMax", "wakeMax"} /\ cur[p] <= MaxCap => inUse <= MaxCap
    /\ pc[p] \in {"slowAdd", "wakeAdd"} => inUse <= MaxCap

OvershootInv == CheckStillGood /\ OvershootBounded

LEMMA OvershootInit == Init => OvershootInv
BY SemaphoreAssumption DEF Init, OvershootInv, CheckStillGood, OvershootBounded

LEMMA OvershootNext == MutexInv /\ OvershootInv /\ [Next]_vars => OvershootInv'
<1> SUFFICES ASSUME MutexInv, OvershootInv, [Next]_vars PROVE OvershootInv'
  OBVIOUS
<1> USE DEF MutexInv, InCritical, Goto, OvershootInv, CheckStillGood, OvershootBounded
<1>1. ASSUME NEW p \in Procs, NEW n \in Weights, StartAcquire(p, n) PROVE OvershootInv'
  BY SemaphoreAssumption, <1>1 DEF StartAcquire, TypeOK, MutexHeld, WakerReady
<1>2. ASSUME NEW p \in Procs, NEW n \in Capacities, SetMaxConc(p, n) PROVE OvershootInv'
  BY SemaphoreAssumption, <1>2 DEF SetMaxConc, TypeOK, MutexHeld, WakerReady
<1>3. ASSUME NEW p \in Procs, Cancel(p) PROVE OvershootInv'
  BY SemaphoreAssumption, <1>3 DEF Cancel, TypeOK, MutexHeld, WakerReady
<1>4. ASSUME NEW p \in Procs, AcquireLock(p) PROVE OvershootInv'
  BY SemaphoreAssumption, <1>4 DEF AcquireLock, TypeOK, MutexHeld, WakerReady
<1>5. ASSUME NEW p \in Procs, LeaveQueue(p) PROVE OvershootInv'
  BY SemaphoreAssumption, <1>5 DEF LeaveQueue, Abandoned, TypeOK, MutexHeld, WakerReady
<1>6. ASSUME NEW p \in Procs, WakeLock(p) PROVE OvershootInv'
  BY SemaphoreAssumption, <1>6 DEF WakeLock, TypeOK, MutexHeld, WakerReady
<1>7. ASSUME NEW p \in Procs, FastLoadInUse(p) PROVE OvershootInv'
  BY SemaphoreAssumption, <1>7 DEF FastLoadInUse, TypeOK, MutexHeld, WakerReady
<1>8. ASSUME NEW p \in Procs, FastLoadMax(p) PROVE OvershootInv'
  BY SemaphoreAssumption, <1>8 DEF FastLoadMax, TypeOK, MutexHeld, WakerReady
<1>9. ASSUME NEW p \in Procs, FastCAS(p) PROVE OvershootInv'
  BY SemaphoreAssumption, <1>9 DEF FastCAS, Acquired, TypeOK, MutexHeld, WakerReady
<1>10. ASSUME NEW p \in Procs, RecheckMax(p) PROVE OvershootInv'
  BY SemaphoreAssumption, <1>10 DEF RecheckMax, TypeOK, MutexHeld, WakerReady
<1>11. ASSUME NEW p \in Procs, SlowAdd(p) PROVE OvershootInv'
  <2>1. /\ pc[p] = "slowAdd" /\ inUse' = inUse + need[p] /\ cur' = cur /\ need' = need
        /\ pc' = [pc EXCEPT ![p] = "giveBack"] \/ pc' = [pc EXCEPT ![p] = "holding"]
    BY <1>11 DEF SlowAdd, Acquired
  <2>2. inUse <= MaxCap /\ need[p] \in 0..MaxWeight /\ inUse \in Int
    BY <2>1 DEF TypeOK
  <2>3. \A q \in Procs \ {p} : pc'[q] \notin InCritical
    BY SemaphoreAssumption, <2>1 DEF TypeOK, MutexHeld
  <2>4. \A q \in Procs : pc'[q] = "fastCAS" => cur'[q] + need'[q] <= MaxCap
    BY <2>1 DEF TypeOK
  <2>5. pc'[p] \notin InCritical
    BY <2>1 DEF TypeOK
  <2>6. OvershootBounded'
    BY SemaphoreAssumption, <2>1, <2>2
  <2>7. QED
    BY <2>3, <2>4, <2>5, <2>6
<1>12. ASSUME NEW p \in Procs, ReceiveSignal(p) PROVE OvershootInv'
  BY SemaphoreAssumption, <1>12 DEF ReceiveSignal, Acquired, TypeOK, MutexHeld, WakerReady
<1>13. ASSUME NEW p \in Procs, ReceiveDone(p) PROVE OvershootInv'
  BY SemaphoreAssumption, <1>13 DEF ReceiveDone, TypeOK, MutexHeld, WakerReady
<1>14. ASSUME NEW p \in Procs, GiveBack(p) PROVE OvershootInv'
  BY SemaphoreAssumption, <1>14 DEF GiveBack, Abandoned, TypeOK, MutexHeld, WakerReady
<1>15. ASSUME NEW p \in Procs, Release(p) PROVE OvershootInv'
  BY SemaphoreAssumption, <1>15 DEF Release, TypeOK, MutexHeld, WakerReady
<1>16. ASSUME NEW p \in Procs, WakeMax(p) PROVE OvershootInv'
  BY SemaphoreAssumption, <1>16, QueueType, SMTT(30) DEF WakeMax, TypeOK, MutexHeld, WakerReady
<1>17. ASSUME NEW p \in Procs, WakeAdd(p) PROVE OvershootInv'
  BY SemaphoreAssumption, <1>17 DEF WakeAdd, TypeOK, MutexHeld, WakerReady
<1>18. CASE UNCHANGED vars
  BY <1>18 DEF vars
<1>19. QED
  BY <1>1, <1>2, <1>3, <1>4, <1>5, <1>6, <1>7, <1>8, <1>9, <1>10, <1>11,
     <1>12, <1>13, <1>14, <1>15, <1>16, <1>17, <1>18
     DEF Next, LockStep, PlainStep

(* However many goroutines race, inUse exceeds the largest capacity ever   *)
(* set by less than one request more (semaphore.go 92-116, 174-183).       *)
THEOREM OvershootIsBounded == Spec => []OvershootBounded
<1>1. OvershootInv => OvershootBounded
  BY DEF OvershootInv
<1>2. QED
  BY <1>1, MutexInit, MutexNext, OvershootInit, OvershootNext, PTL DEF Spec

(***************************************************************************)
(* The queue.  Three facts about what an operation does to the members of  *)
(* a queue without duplicates, then the places of a blocked process.       *)
(***************************************************************************)
Member(r, s) == \E i \in 1..Len(s) : s[i] = r

Distinct(s) == \A i, j \in 1..Len(s) : s[i] = s[j] => i = j

LEMMA AppendMembers ==
  ASSUME NEW s \in Seq(Procs), NEW p \in Procs, Distinct(s), ~Member(p, s)
  PROVE  /\ Distinct(Append(s, p))
         /\ \A r : Member(r, Append(s, p)) <=> Member(r, s) \/ r = p
<1> DEFINE t == Append(s, p)
<1>1. /\ Len(t) = Len(s) + 1 /\ Len(s) \in Nat
      /\ \A i \in 1..Len(t) : t[i] = IF i <= Len(s) THEN s[i] ELSE p
  OBVIOUS
<1>2. \A i \in 1..Len(t) : i \in 1..Len(s) \/ i = Len(s) + 1
  BY <1>1
<1>3. 1..Len(s) \subseteq 1..Len(t) /\ Len(s) + 1 \in 1..Len(t)
  BY <1>1
<1> HIDE DEF t
<1>4. Distinct(t)
  BY <1>1, <1>2 DEF Distinct, Member
<1>5. \A r : Member(r, t) <=> Member(r, s) \/ r = p
  BY <1>1, <1>2, <1>3 DEF Member
<1>6. QED
  BY <1>4, <1>5 DEF t

LEMMA TailMembers ==
  ASSUME NEW s \in Seq(Procs), s # <<>>, Distinct(s)
  PROVE  /\ Distinct(Tail(s))
         /\ Member(Head(s), s)
         /\ \A r : Member(r, Tail(s)) <=> Member(r, s) /\ r # Head(s)
<1> DEFINE t == Tail(s)
<1>1. /\ Len(s) \in Nat \ {0} /\ Len(t) = Len(s) - 1 /\ Head(s) = s[1]
      /\ \A i \in 1..Len(t) : t[i] = s[i + 1]
  BY HeadTailProperties
<1>2. \A i \in 1..Len(t) : i + 1 \in 1..Len(s) /\ i + 1 # 1
  BY <1>1
<1>3. \A i \in 1..Len(s) : i = 1 \/ (i - 1 \in 1..Len(t) /\ (i - 1) + 1 = i)
  BY <1>1
<1>4. 1 \in 1..Len(s)
  BY <1>1
<1> HIDE DEF t
<1>5. Distinct(t)
  <2> SUFFICES ASSUME NEW i \in 1..Len(t), NEW j \in 1..Len(t), t[i] = t[j]
               PROVE  i = j
    BY DEF Distinct
  <2>1. i + 1 = j + 1
    BY <1>1, <1>2 DEF Distinct
  <2>2. QED
    BY <2>1
<1>6. Member(Head(s), s)
  BY <1>1, <1>4 DEF Member
<1>7. \A r : Member(r, t) => Member(r, s) /\ r # Head(s)
  BY <1>1, <1>2, <1>4 DEF Member, Distinct
<1>8. \A r : Member(r, s) /\ r # Head(s) => Member(r, t)
  <2> SUFFICES ASSUME NEW i \in 1..Len(s), s[i] # s[1]
               PROVE  Member(s[i], t)
    BY <1>1 DEF Member
  <2>1. i - 1 \in 1..Len(t) /\ t[i - 1] = s[i]
    BY <1>1, <1>3
  <2>2. QED
    BY <2>1 DEF Member
<1>9. QED
  BY <1>5, <1>6, <1>7, <1>8 DEF t

LEMMA WithoutMembers ==
  ASSUME NEW s \in Seq(Procs), NEW k \in 1..Len(s), Distinct(s)
  PROVE  /\ Distinct(Without(s, k))
         /\ \A r : Member(r, Without(s, k)) <=> Member(r, s) /\ r # s[k]
<1> DEFINE t == Without(s, k)
<1>1. /\ Len(s) \in Nat /\ k \in Nat /\ Len(t) = Len(s) - 1
      /\ \A j \in 1..Len(t) : t[j] = IF j < k THEN s[j] ELSE s[j + 1]
  BY RemovalType
<1> HIDE DEF t
<1>2. \A i \in 1..Len(t) : i \in 1..Len(s) /\ i + 1 \in 1..Len(s)
  BY <1>1
<1>3. \A i \in 1..Len(s) :
        \/ i < k /\ i \in 1..Len(t)
        \/ i = k
        \/ i > k /\ i - 1 \in 1..Len(t) /\ ~(i - 1 < k) /\ (i - 1) + 1 = i
  BY <1>1
<1>4. Distinct(t)
  <2> SUFFICES ASSUME NEW i \in 1..Len(t), NEW j \in 1..Len(t), t[i] = t[j]
               PROVE  i = j
    BY DEF Distinct
  <2> DEFINE f(x) == IF x < k THEN x ELSE x + 1
  <2>1. s[f(i)] = s[f(j)] /\ f(i) \in 1..Len(s) /\ f(j) \in 1..Len(s)
    BY <1>1, <1>2
  <2>2. f(i) = f(j)
    BY <2>1 DEF Distinct
  <2>3. i \in Nat /\ j \in Nat
    BY <1>1
  <2>4. QED
    BY <1>1, <2>2, <2>3
<1>5. \A r : Member(r, t) => Member(r, s) /\ r # s[k]
  <2> SUFFICES ASSUME NEW i \in 1..Len(t)
               PROVE  Member(t[i], s) /\ t[i] # s[k]
    BY DEF Member
  <2>1. CASE i < k
    BY <1>1, <1>2, <2>1 DEF Member, Distinct
  <2>2. CASE ~(i < k)
    <3>1. i + 1 # k /\ i + 1 \in 1..Len(s) /\ t[i] = s[i + 1]
      BY <1>1, <1>2, <2>2
    <3>2. QED
      BY <3>1 DEF Member, Distinct
  <2>3. QED
    BY <2>1, <2>2
<1>6. \A r : Member(r, s) /\ r # s[k] => Member(r, t)
  <2> SUFFICES ASSUME NEW i \in 1..Len(s), s[i] # s[k]
               PROVE  Member(s[i], t)
    BY DEF Member
  <2>1. CASE i < k
    BY <1>1, <1>3, <2>1 DEF Member
  <2>2. CASE i > k
    <3>1. i - 1 \in 1..Len(t) /\ t[i - 1] = s[i]
      BY <1>1, <1>3, <2>2
    <3>2. QED
      BY <3>1 DEF Member
  <2>3. QED
    BY <1>1, <2>1, <2>2
<1>7. QED
  BY <1>4, <1>5, <1>6 DEF t

(* NobodyForgotten in terms of Member and Distinct. *)
QueueInv ==
  /\ Distinct(waiters)
  /\ \A p \in Procs :
       /\ Blocked(p) <=> Member(p, waiters) \/ Popped(p) \/ p \in signalled
       /\ ~(Member(p, waiters) /\ Popped(p))
       /\ ~(Member(p, waiters) /\ p \in signalled)
       /\ ~(Popped(p) /\ p \in signalled)

LEMMA QueueInvMeaning == QueueInv <=> NobodyForgotten
BY DEF QueueInv, NobodyForgotten, Distinct, Member, Waits

LEMMA QueueInit == Init => QueueInv
BY DEF Init, QueueInv, Distinct, Member, Blocked, Popped

(* A step that touches neither the queue, the signals nor the popped       *)
(* waiter, and neither blocks nor unblocks its process.                    *)
LEMMA QueueUndisturbed ==
  ASSUME TypeOK, QueueInv, NEW p \in Procs, NEW l,
         pc' = [pc EXCEPT ![p] = l],
         pc[p] # "wakeAdd", l # "wakeAdd",
         Blocked(p) <=> l \in {"waiting", "cancelLock"},
         UNCHANGED <<waiters, target, signalled>>
  PROVE  QueueInv'
<1>1. \A q \in Procs : Blocked(q)' <=> Blocked(q)
  BY DEF Blocked, TypeOK
<1>2. \A q \in Procs : Popped(q)' <=> Popped(q)
  BY DEF Popped, TypeOK
<1>3. QED
  BY <1>1, <1>2 DEF QueueInv

LEMMA QueueNext == MutexInv /\ QueueInv /\ [Next]_vars => QueueInv'
<1> SUFFICES ASSUME MutexInv, QueueInv, [Next]_vars PROVE QueueInv'
  OBVIOUS
<1> USE DEF MutexInv, InCritical, Goto
<1>1. ASSUME NEW p \in Procs, NEW n \in Weights, StartAcquire(p, n) PROVE QueueInv'
  BY <1>1, QueueUndisturbed DEF StartAcquire, Blocked
<1>2. ASSUME NEW p \in Procs, NEW n \in Capacities, SetMaxConc(p, n) PROVE QueueInv'
  BY <1>2, QueueUndisturbed DEF SetMaxConc, Blocked
<1>3. ASSUME NEW p \in Procs, Cancel(p) PROVE QueueInv'
  BY <1>3 DEF Cancel, QueueInv, Blocked, Popped
<1>4. ASSUME NEW p \in Procs, AcquireLock(p) PROVE QueueInv'
  BY <1>4, QueueUndisturbed DEF AcquireLock, Blocked
<1>5. ASSUME NEW p \in Procs, LeaveQueue(p) PROVE QueueInv'
  <2>1. /\ pc[p] = "cancelLock" /\ mu = NoProc /\ target' = target
        /\ \A q \in Procs \ {p} : pc'[q] = pc[q]
        /\ pc'[p] \in {"idle", "giveBack"}
    BY <1>5 DEF LeaveQueue, Abandoned, TypeOK
  <2>2. \A q \in Procs : ~Popped(q) /\ ~Popped(q)'
    BY SemaphoreAssumption, <2>1 DEF MutexHeld, Popped
  <2>3. \A q \in Procs \ {p} : Blocked(q)' <=> Blocked(q)
    BY <2>1 DEF Blocked
  <2>4. ~Blocked(p)' /\ Blocked(p)
    BY <2>1 DEF Blocked
  <2>5. CASE Member(p, waiters)
    <3>1. PICK i \in 1..Len(waiters) :
                waiters[i] = p /\ waiters' = Without(waiters, i)
      BY <1>5, <2>5 DEF LeaveQueue, Waits, Member
    <3>2. /\ Distinct(waiters')
          /\ \A r : Member(r, waiters') <=> Member(r, waiters) /\ r # p
      BY <3>1, WithoutMembers DEF QueueInv, TypeOK
    <3>3. signalled' = signalled
      BY <1>5, <2>5 DEF LeaveQueue, Waits, Member
    <3>4. QED
      BY <2>2, <2>3, <2>4, <2>5, <3>2, <3>3 DEF QueueInv
  <2>6. CASE ~Member(p, waiters)
    <3>1. waiters' = waiters /\ signalled' = signalled \ {p}
      BY <1>5, <2>6 DEF LeaveQueue, Waits, Member
    <3>2. QED
      BY <2>2, <2>3, <2>4, <2>6, <3>1 DEF QueueInv
  <2>7. QED
    BY <2>5, <2>6
<1>6. ASSUME NEW p \in Procs, WakeLock(p) PROVE QueueInv'
  BY <1>6, QueueUndisturbed DEF WakeLock, Blocked
<1>7. ASSUME NEW p \in Procs, FastLoadInUse(p) PROVE QueueInv'
  BY <1>7, QueueUndisturbed DEF FastLoadInUse, Blocked
<1>8. ASSUME NEW p \in Procs, FastLoadMax(p) PROVE QueueInv'
  BY <1>8, QueueUndisturbed DEF FastLoadMax, Blocked
<1>9. ASSUME NEW p \in Procs, FastCAS(p) PROVE QueueInv'
  BY <1>9, QueueUndisturbed DEF FastCAS, Acquired, Blocked
<1>10. ASSUME NEW p \in Procs, RecheckMax(p) PROVE QueueInv'
  <2>1. CASE cur[p] + need[p] <= maxConc
    BY <1>10, <2>1, QueueUndisturbed DEF RecheckMax, Blocked
  <2>2. CASE ~(cur[p] + need[p] <= maxConc)
    <3>1. /\ pc[p] = "recheckMax" /\ pc' = [pc EXCEPT ![p] = "waiting"]
          /\ waiters' = Append(waiters, p)
          /\ UNCHANGED <<target, signalled>>
      BY <1>10, <2>2 DEF RecheckMax
    <3>2. ~Blocked(p) /\ Blocked(p)'
      BY <3>1 DEF Blocked, TypeOK
    <3>3. /\ Distinct(waiters')
          /\ \A r : Member(r, waiters') <=> Member(r, waiters) \/ r = p
      BY <3>1, <3>2, AppendMembers DEF QueueInv, TypeOK
    <3>4. \A q \in Procs \ {p} : Blocked(q)' <=> Blocked(q)
      BY <3>1 DEF Blocked, TypeOK
    <3>5. \A q \in Procs : Popped(q)' <=> Popped(q)
      BY <3>1 DEF Popped, TypeOK
    <3>6. QED
      BY <3>1, <3>2, <3>3, <3>4, <3>5 DEF QueueInv
  <2>3. QED
    BY <2>1, <2>2
<1>11. ASSUME NEW p \in Procs, SlowAdd(p) PROVE QueueInv'
  BY <1>11, QueueUndisturbed DEF SlowAdd, Acquired, Blocked
<1>12. ASSUME NEW p \in Procs, ReceiveSignal(p) PROVE QueueInv'
  <2>1. /\ pc[p] = "waiting" /\ pc' = [pc EXCEPT ![p] = "holding"]
        /\ p \in signalled /\ signalled' = signalled \ {p}
        /\ UNCHANGED <<waiters, target>>
    BY <1>12 DEF ReceiveSignal, Acquired
  <2>2. \A q \in Procs \ {p} : Blocked(q)' <=> Blocked(q)
    BY <2>1 DEF Blocked, TypeOK
  <2>3. ~Blocked(p)'
    BY <2>1 DEF Blocked, TypeOK
  <2>4. \A q \in Procs : Popped(q)' <=> Popped(q)
    BY <2>1 DEF Popped, TypeOK
  <2>5. QED
    BY <2>1, <2>2, <2>3, <2>4 DEF QueueInv
<1>13. ASSUME NEW p \in Procs, ReceiveDone(p) PROVE QueueInv'
  BY <1>13, QueueUndisturbed DEF ReceiveDone, Blocked
<1>14. ASSUME NEW p \in Procs, GiveBack(p) PROVE QueueInv'
  BY <1>14, QueueUndisturbed DEF GiveBack, Abandoned, Blocked
<1>15. ASSUME NEW p \in Procs, Release(p) PROVE QueueInv'
  BY <1>15, QueueUndisturbed DEF Release, Blocked
<1>16. ASSUME NEW p \in Procs, WakeMax(p) PROVE QueueInv'
  <2>1. CASE cur[p] + need[Head(waiters)] > maxConc
    BY <1>16, <2>1, QueueUndisturbed DEF WakeMax, Blocked
  <2>2. CASE ~(cur[p] + need[Head(waiters)] > maxConc)
    <3>1. /\ pc[p] = "wakeMax" /\ pc' = [pc EXCEPT ![p] = "wakeAdd"]
          /\ target' = [target EXCEPT ![p] = Head(waiters)]
          /\ waiters' = Tail(waiters) /\ waiters # <<>>
          /\ UNCHANGED signalled
      BY <1>16, <2>2 DEF WakeMax, WakerReady
    <3>2. /\ Distinct(waiters')
          /\ Member(Head(waiters), waiters)
          /\ \A r : Member(r, waiters') <=> Member(r, waiters) /\ r # Head(waiters)
      BY <3>1, TailMembers DEF QueueInv, TypeOK
    <3>3. \A q \in Procs : Blocked(q)' <=> Blocked(q)
      BY <3>1 DEF Blocked, TypeOK
    <3>4. \A q \in Procs : ~Popped(q)
      BY SemaphoreAssumption, <3>1 DEF MutexHeld, Popped
    <3>5. \A q \in Procs : Popped(q)' <=> q = Head(waiters)
      BY SemaphoreAssumption, <3>1, <3>4 DEF Popped, TypeOK
    <3>6. QED
      BY <3>1, <3>2, <3>3, <3>4, <3>5 DEF QueueInv
  <2>3. QED
    BY <2>1, <2>2
<1>17. ASSUME NEW p \in Procs, WakeAdd(p) PROVE QueueInv'
  <2>1. /\ pc[p] = "wakeAdd" /\ pc' = [pc EXCEPT ![p] = "wakeLock"]
        /\ signalled' = signalled \cup {target[p]}
        /\ UNCHANGED waiters
        /\ target' = [target EXCEPT ![p] = NoProc]
    BY <1>17 DEF WakeAdd
  <2>2. \A q \in Procs : pc[q] = "wakeAdd" => q = p
    BY SemaphoreAssumption, <2>1 DEF MutexHeld
  <2>3. \A q \in Procs : Popped(q) <=> q = target[p]
    BY <2>1, <2>2 DEF Popped
  <2>4. \A q \in Procs : ~Popped(q)'
    BY <2>1, <2>2 DEF Popped, TypeOK
  <2>5. \A q \in Procs : Blocked(q)' <=> Blocked(q)
    BY <2>1 DEF Blocked, TypeOK
  <2>6. QED
    BY <2>1, <2>3, <2>4, <2>5 DEF QueueInv
<1>18. CASE UNCHANGED vars
  BY <1>18 DEF vars, QueueInv, Blocked, Popped
<1>19. QED
  BY <1>1, <1>2, <1>3, <1>4, <1>5, <1>6, <1>7, <1>8, <1>9, <1>10, <1>11,
     <1>12, <1>13, <1>14, <1>15, <1>16, <1>17, <1>18
     DEF Next, LockStep, PlainStep

(* A blocked goroutine is in exactly one of the queue, the hands of its    *)
(* waker and the set of signalled waiters (semaphore.go 128-150, 175-187). *)
THEOREM NobodyIsForgotten == Spec => []NobodyForgotten
BY MutexInit, MutexNext, QueueInit, QueueNext, QueueInvMeaning, PTL DEF Spec

(***************************************************************************)
(* Wake-ups, when no context is cancelled.  A process under mu may decide  *)
(* by a value of inUse that is too high only if the process that lowered   *)
(* it since then is itself about to take mu and look at the queue.         *)
(***************************************************************************)
NobodyCancels == \A p \in Procs : pc[p] \notin {"cancelLock", "giveBack"}

StaleIsCovered ==
  \A p \in Procs :
    pc[p] \in {"recheckMax", "wakeMax"} /\ inUse < cur[p]
      => \E q \in Procs : pc[q] = "wakeLock"

WakeupInv == NobodyCancels /\ StaleIsCovered /\ NoLostWakeup

LEMMA WakeupInit == Init => WakeupInv
BY DEF Init, WakeupInv, NobodyCancels, StaleIsCovered, NoLostWakeup

(* A step that frees nothing, raises no capacity and stops no waker.       *)
LEMMA WakeupUndisturbed ==
  ASSUME TypeOK, QueueInv, WakeupInv, NEW p \in Procs,
         \A q \in Procs \ {p} : pc'[q] = pc[q],
         pc[p] \notin Waking, pc'[p] \notin {"cancelLock", "giveBack"},
         inUse' \in Int, inUse' >= inUse,
         \A q \in Procs \ {p} : cur'[q] = cur[q] /\ need'[q] = need[q],
         Blocked(p) => need'[p] = need[p],
         pc'[p] \in {"recheckMax", "wakeMax"} => ~(inUse' < cur'[p]),
         UNCHANGED <<waiters, maxConc>>
  PROVE  WakeupInv'
<1>1. NobodyCancels'
  BY DEF WakeupInv, NobodyCancels, TypeOK
<1>2. ASSUME NEW q \in Procs, pc[q] \in Waking
      PROVE  pc'[q] = pc[q]
  BY <1>2 DEF TypeOK
<1>3. StaleIsCovered'
  <2> SUFFICES ASSUME NEW r \in Procs, pc'[r] \in {"recheckMax", "wakeMax"},
                      inUse' < cur'[r]
               PROVE  \E q \in Procs : pc'[q] = "wakeLock"
    BY DEF StaleIsCovered
  <2>1. r # p
    BY DEF TypeOK
  <2>2. \E q \in Procs : pc[q] = "wakeLock"
    BY <2>1 DEF WakeupInv, StaleIsCovered, TypeOK
  <2>3. QED
    BY <1>2, <2>2 DEF Waking
<1>4. NoLostWakeup'
  <2> SUFFICES ASSUME waiters # <<>>, inUse' + need'[Head(waiters)] <= maxConc
               PROVE  \E q \in Procs : pc'[q] \in Waking
    BY DEF NoLostWakeup
  <2>1. Head(waiters) \in Procs /\ Member(Head(waiters), waiters)
    BY QueueType, TailMembers DEF TypeOK, QueueInv
  <2>2. need'[Head(waiters)] = need[Head(waiters)]
    BY <2>1 DEF QueueInv
  <2>3. need[Head(waiters)] \in Int
    BY <2>1, SemaphoreAssumption DEF TypeOK
  <2>4. inUse + need[Head(waiters)] <= maxConc
    BY <2>2, <2>3, SemaphoreAssumption DEF TypeOK
  <2>5. QED
    BY <1>2, <2>4 DEF WakeupInv, NoLostWakeup
<1>5. QED
  BY <1>1, <1>3, <1>4 DEF WakeupInv

LEMMA WakeupNext ==
  ASSUME Cancellable = {}
  PROVE  MutexInv /\ QueueInv /\ WakeupInv /\ [Next]_vars => WakeupInv'
<1> SUFFICES ASSUME MutexInv, QueueInv, WakeupInv, [Next]_vars PROVE WakeupInv'
  OBVIOUS
<1> USE DEF MutexInv, InCritical, Goto
<1>0. cancelled = {} /\ NobodyCancels
  BY DEF TypeOK, WakeupInv
<1>1. ASSUME NEW p \in Procs, NEW n \in Weights, StartAcquire(p, n) PROVE WakeupInv'
  <2>1. /\ \A q \in Procs \ {p} : pc'[q] = pc[q]
        /\ pc[p] \notin Waking /\ pc'[p] \notin {"cancelLock", "giveBack"}
        /\ pc'[p] \in {"recheckMax", "wakeMax"} => ~(inUse' < cur'[p])
    BY <1>0, <1>1 DEF StartAcquire, Waking, TypeOK
  <2>2. /\ inUse' \in Int /\ inUse' >= inUse
        /\ \A q \in Procs \ {p} : cur'[q] = cur[q] /\ need'[q] = need[q]
        /\ Blocked(p) => need'[p] = need[p]
        /\ UNCHANGED <<waiters, maxConc>>
    BY SemaphoreAssumption, <1>1 DEF StartAcquire, Blocked, TypeOK
  <2>3. QED
    BY <2>1, <2>2, WakeupUndisturbed
<1>2. ASSUME NEW p \in Procs, NEW n \in Capacities, SetMaxConc(p, n) PROVE WakeupInv'
  <2>1. pc' = [pc EXCEPT ![p] = "wakeLock"]
    BY <1>2 DEF SetMaxConc
  <2>2. pc'[p] = "wakeLock"
    BY <2>1 DEF TypeOK
  <2>3. NobodyCancels'
    BY <1>0, <2>1 DEF NobodyCancels, TypeOK
  <2>4. QED
    BY <2>2, <2>3 DEF WakeupInv, StaleIsCovered, NoLostWakeup, Waking
<1>3. ASSUME NEW p \in Procs, Cancel(p) PROVE WakeupInv'
  BY <1>3 DEF Cancel
<1>4. ASSUME NEW p \in Procs, AcquireLock(p) PROVE WakeupInv'
  <2>1. /\ \A q \in Procs \ {p} : pc'[q] = pc[q]
        /\ pc[p] \notin Waking /\ pc'[p] \notin {"cancelLock", "giveBack"}
        /\ pc'[p] \in {"recheckMax", "wakeMax"} => ~(inUse' < cur'[p])
    BY <1>0, <1>4 DEF AcquireLock, Waking, TypeOK
  <2>2. /\ inUse' \in Int /\ inUse' >= inUse
        /\ \A q \in Procs \ {p} : cur'[q] = cur[q] /\ need'[q] = need[q]
        /\ Blocked(p) => need'[p] = need[p]
        /\ UNCHANGED <<waiters, maxConc>>
    BY SemaphoreAssumption, <1>4 DEF AcquireLock, Blocked, TypeOK
  <2>3. QED
    BY <2>1, <2>2, WakeupUndisturbed
<1>5. ASSUME NEW p \in Procs, LeaveQueue(p) PROVE WakeupInv'
  BY <1>0, <1>5 DEF LeaveQueue, NobodyCancels
<1>6. ASSUME NEW p \in Procs, WakeLock(p) PROVE WakeupInv'
  <2>1. /\ pc[p] = "wakeLock" /\ mu = NoProc /\ waiters' = waiters
        /\ inUse' = inUse
    BY <1>6 DEF WakeLock
  <2>2. \A q \in Procs : pc[q] \notin InCritical
    BY SemaphoreAssumption, <2>1 DEF MutexHeld
  <2>3. CASE waiters = <<>>
    <3>1. pc' = [pc EXCEPT ![p] = "idle"]
      BY <1>6, <2>3 DEF WakeLock
    <3>2. NobodyCancels'
      BY <1>0, <3>1 DEF NobodyCancels, TypeOK
    <3>3. StaleIsCovered'
      BY <2>2, <3>1 DEF StaleIsCovered, TypeOK
    <3>4. NoLostWakeup'
      BY <2>1, <2>3 DEF NoLostWakeup
    <3>5. QED
      BY <3>2, <3>3, <3>4 DEF WakeupInv
  <2>4. CASE waiters # <<>>
    <3>1. /\ pc' = [pc EXCEPT ![p] = "wakeMax"]
          /\ cur' = [cur EXCEPT ![p] = inUse]
      BY <1>6, <2>4 DEF WakeLock
    <3>2. NobodyCancels'
      BY <1>0, <3>1 DEF NobodyCancels, TypeOK
    <3>3. StaleIsCovered'
      BY <2>1, <2>2, <3>1 DEF StaleIsCovered, TypeOK
    <3>4. NoLostWakeup'
      BY <3>1 DEF NoLostWakeup, Waking, TypeOK
    <3>5. QED
      BY <3>2, <3>3, <3>4 DEF WakeupInv
  <2>5. QED
    BY <2>3, <2>4
<1>7. ASSUME NEW p \in Procs, FastLoadInUse(p) PROVE WakeupInv'
  <2>1. /\ \A q \in Procs \ {p} : pc'[q] = pc[q]
        /\ pc[p] \notin Waking /\ pc'[p] \notin {"cancelLock", "giveBack"}
        /\ pc'[p] \in {"recheckMax", "wakeMax"} => ~(inUse' < cur'[p])
    BY <1>0, <1>7 DEF FastLoadInUse, Waking, TypeOK
  <2>2. /\ inUse' \in Int /\ inUse' >= inUse
        /\ \A q \in Procs \ {p} : cur'[q] = cur[q] /\ need'[q] = need[q]
        /\ Blocked(p) => need'[p] = need[p]
        /\ UNCHANGED <<waiters, maxConc>>
    BY SemaphoreAssumption, <1>7 DEF FastLoadInUse, Blocked, TypeOK
  <2>3. QED
    BY <2>1, <2>2, WakeupUndisturbed
<1>8. ASSUME NEW p \in Procs, FastLoadMax(p) PROVE WakeupInv'
  <2>1. /\ \A q \in Procs \ {p} : pc'[q] = pc[q]
        /\ pc[p] \notin Waking /\ pc'[p] \notin {"cancelLock", "giveBack"}
        /\ pc'[p] \in {"recheckMax", "wakeMax"} => ~(inUse' < cur'[p])
    BY <1>0, <1>8 DEF FastLoadMax, Waking, TypeOK
  <2>2. /\ inUse' \in Int /\ inUse' >= inUse
        /\ \A q \in Procs \ {p} : cur'[q] = cur[q] /\ need'[q] = need[q]
        /\ Blocked(p) => need'[p] = need[p]
        /\ UNCHANGED <<waiters, maxConc>>
    BY SemaphoreAssumption, <1>8 DEF FastLoadMax, Blocked, TypeOK
  <2>3. QED
    BY <2>1, <2>2, WakeupUndisturbed
<1>9. ASSUME NEW p \in Procs, FastCAS(p) PROVE WakeupInv'
  <2>1. /\ \A q \in Procs \ {p} : pc'[q] = pc[q]
        /\ pc[p] \notin Waking /\ pc'[p] \notin {"cancelLock", "giveBack"}
        /\ pc'[p] \in {"recheckMax", "wakeMax"} => ~(inUse' < cur'[p])
    BY <1>0, <1>9 DEF FastCAS, Acquired, Waking, TypeOK
  <2>2. /\ inUse' \in Int /\ inUse' >= inUse
        /\ \A q \in Procs \ {p} : cur'[q] = cur[q] /\ need'[q] = need[q]
        /\ Blocked(p) => need'[p] = need[p]
        /\ UNCHANGED <<waiters, maxConc>>
    BY SemaphoreAssumption, <1>9 DEF FastCAS, Acquired, Blocked, TypeOK
  <2>3. QED
    BY <2>1, <2>2, WakeupUndisturbed
<1>10. ASSUME NEW p \in Procs, RecheckMax(p) PROVE WakeupInv'
  <2>1. CASE cur[p] + need[p] <= maxConc
    <3>1. /\ pc[p] = "recheckMax" /\ pc' = [pc EXCEPT ![p] = "slowAdd"]
          /\ cur' = [cur EXCEPT ![p] = 0]
          /\ UNCHANGED <<inUse, maxConc, waiters, need>>
      BY <1>10, <2>1 DEF RecheckMax
    <3>2. /\ \A q \in Procs \ {p} : pc'[q] = pc[q] /\ cur'[q] = cur[q]
          /\ pc'[p] = "slowAdd" /\ inUse \in Int /\ inUse >= inUse
      BY <3>1 DEF TypeOK
    <3>3. QED
      BY <3>1, <3>2, WakeupUndisturbed DEF Waking
  <2>2. CASE ~(cur[p] + need[p] <= maxConc)
    <3>1. /\ pc[p] = "recheckMax" /\ pc' = [pc EXCEPT ![p] = "waiting"]
          /\ waiters' = Append(waiters, p)
          /\ UNCHANGED <<inUse, maxConc, need>>
      BY <1>10, <2>2 DEF RecheckMax
    <3>2. NobodyCancels'
      BY <1>0, <3>1 DEF NobodyCancels, TypeOK
    <3>3. \A q \in Procs \ {p} : pc[q] \notin InCritical /\ pc'[q] = pc[q]
      BY SemaphoreAssumption, <3>1 DEF MutexHeld, TypeOK
    <3>4. StaleIsCovered'
      BY <3>1, <3>3 DEF StaleIsCovered, TypeOK
    <3>5. NoLostWakeup'
      <4>1. CASE waiters = <<>>
        <5>1. Head(waiters') = p
          BY <3>1, <4>1
        <5>2. CASE inUse < cur[p]
          <6>1. \E q \in Procs : pc[q] = "wakeLock"
            BY <3>1, <5>2 DEF WakeupInv, StaleIsCovered
          <6>2. QED
            BY <3>1, <3>3, <6>1 DEF NoLostWakeup, Waking
        <5>3. CASE ~(inUse < cur[p])
          <6>1. ~(inUse + need[p] <= maxConc)
            BY SemaphoreAssumption, <2>2, <5>3 DEF TypeOK
          <6>2. QED
            BY <3>1, <5>1, <6>1 DEF NoLostWakeup
        <5>4. QED
          BY <5>2, <5>3
      <4>2. CASE waiters # <<>>
        <5>1. Head(waiters') = Head(waiters)
          BY <3>1, <4>2 DEF TypeOK
        <5>2. QED
          BY <3>1, <3>3, <4>2, <5>1 DEF WakeupInv, NoLostWakeup, Waking
      <4>3. QED
        BY <4>1, <4>2
    <3>6. QED
      BY <3>2, <3>4, <3>5 DEF WakeupInv
  <2>3. QED
    BY <2>1, <2>2
<1>11. ASSUME NEW p \in Procs, SlowAdd(p) PROVE WakeupInv'
  <2>1. /\ \A q \in Procs \ {p} : pc'[q] = pc[q]
        /\ pc[p] \notin Waking /\ pc'[p] \notin {"cancelLock", "giveBack"}
        /\ pc'[p] \in {"recheckMax", "wakeMax"} => ~(inUse' < cur'[p])
    BY <1>0, <1>11 DEF SlowAdd, Acquired, Waking, TypeOK
  <2>2. /\ inUse' \in Int /\ inUse' >= inUse
        /\ \A q \in Procs \ {p} : cur'[q] = cur[q] /\ need'[q] = need[q]
        /\ Blocked(p) => need'[p] = need[p]
        /\ UNCHANGED <<waiters, maxConc>>
    BY SemaphoreAssumption, <1>11 DEF SlowAdd, Acquired, Blocked, TypeOK
  <2>3. QED
    BY <2>1, <2>2, WakeupUndisturbed
<1>12. ASSUME NEW p \in Procs, ReceiveSignal(p) PROVE WakeupInv'
  <2>1. /\ \A q \in Procs \ {p} : pc'[q] = pc[q]
        /\ pc[p] \notin Waking /\ pc'[p] \notin {"cancelLock", "giveBack"}
        /\ pc'[p] \in {"recheckMax", "wakeMax"} => ~(inUse' < cur'[p])
    BY <1>0, <1>12 DEF ReceiveSignal, Acquired, Waking, TypeOK
  <2>2. /\ inUse' \in Int /\ inUse' >= inUse
        /\ \A q \in Procs \ {p} : cur'[q] = cur[q] /\ need'[q] = need[q]
        /\ Blocked(p) => need'[p] = need[p]
        /\ UNCHANGED <<waiters, maxConc>>
    BY SemaphoreAssumption, <1>12 DEF ReceiveSignal, Acquired, Blocked, TypeOK
  <2>3. QED
    BY <2>1, <2>2, WakeupUndisturbed
<1>13. ASSUME NEW p \in Procs, ReceiveDone(p) PROVE WakeupInv'
  BY <1>0, <1>13 DEF ReceiveDone
<1>14. ASSUME NEW p \in Procs, GiveBack(p) PROVE WakeupInv'
  BY <1>0, <1>14 DEF GiveBack, NobodyCancels
<1>15. ASSUME NEW p \in Procs, Release(p) PROVE WakeupInv'
  <2>1. pc' = [pc EXCEPT ![p] = "wakeLock"]
    BY <1>15 DEF Release
  <2>2. pc'[p] = "wakeLock"
    BY <2>1 DEF TypeOK
  <2>3. NobodyCancels'
    BY <1>0, <2>1 DEF NobodyCancels, TypeOK
  <2>4. QED
    BY <2>2, <2>3 DEF WakeupInv, StaleIsCovered, NoLostWakeup, Waking
<1>16. ASSUME NEW p \in Procs, WakeMax(p) PROVE WakeupInv'
  <2>1. /\ pc[p] = "wakeMax" /\ UNCHANGED <<inUse, maxConc, need>>
        /\ \A q \in Procs \ {p} : pc'[q] = pc[q]
        /\ pc'[p] \in {"idle", "wakeAdd"}
    BY <1>16 DEF WakeMax, TypeOK
  <2>2. \A q \in Procs \ {p} : pc[q] \notin InCritical
    BY SemaphoreAssumption, <2>1 DEF MutexHeld
  <2>3. NobodyCancels'
    BY <1>0, <2>1 DEF NobodyCancels
  <2>4. StaleIsCovered'
    BY <2>1, <2>2 DEF StaleIsCovered
  <2>5. CASE cur[p] + need[Head(waiters)] > maxConc
    <3>1. waiters' = waiters /\ waiters # <<>>
      BY <1>16, <2>5 DEF WakeMax, WakerReady
    <3>2. CASE inUse < cur[p]
      <4>1. \E q \in Procs : pc[q] = "wakeLock"
        BY <2>1, <3>2 DEF WakeupInv, StaleIsCovered
      <4>2. NoLostWakeup'
        BY <2>1, <4>1 DEF NoLostWakeup, Waking
      <4>3. QED
        BY <2>3, <2>4, <4>2 DEF WakeupInv
    <3>3. CASE ~(inUse < cur[p])
      <4>1. need[Head(waiters)] \in Int
        BY SemaphoreAssumption, <3>1, QueueType DEF TypeOK
      <4>2. ~(inUse + need[Head(waiters)] <= maxConc)
        BY SemaphoreAssumption, <2>5, <3>3, <4>1 DEF TypeOK
      <4>3. NoLostWakeup'
        BY <2>1, <3>1, <4>2 DEF NoLostWakeup
      <4>4. QED
        BY <2>3, <2>4, <4>3 DEF WakeupInv
    <3>4. QED
      BY <3>2, <3>3
  <2>6. CASE ~(cur[p] + need[Head(waiters)] > maxConc)
    <3>1. pc'[p] = "wakeAdd"
      BY <1>16, <2>6 DEF WakeMax, TypeOK
    <3>2. NoLostWakeup'
      BY <3>1 DEF NoLostWakeup, Waking
    <3>3. QED
      BY <2>3, <2>4, <3>2 DEF WakeupInv
  <2>7. QED
    BY <2>5, <2>6
<1>17. ASSUME NEW p \in Procs, WakeAdd(p) PROVE WakeupInv'
  <2>1. pc' = [pc EXCEPT ![p] = "wakeLock"]
    BY <1>17 DEF WakeAdd
  <2>2. pc'[p] = "wakeLock"
    BY <2>1 DEF TypeOK
  <2>3. NobodyCancels'
    BY <1>0, <2>1 DEF NobodyCancels, TypeOK
  <2>4. QED
    BY <2>2, <2>3 DEF WakeupInv, StaleIsCovered, NoLostWakeup, Waking
<1>18. CASE UNCHANGED vars
  BY <1>18 DEF vars, WakeupInv, NobodyCancels, StaleIsCovered, NoLostWakeup
<1>19. QED
  BY <1>1, <1>2, <1>3, <1>4, <1>5, <1>6, <1>7, <1>8, <1>9, <1>10, <1>11,
     <1>12, <1>13, <1>14, <1>15, <1>16, <1>17, <1>18
     DEF Next, LockStep, PlainStep

(* Without cancellation no wake-up is lost: whenever the head of the queue *)
(* fits, somebody is on the way to look (semaphore.go 111-130, 171-189).   *)
THEOREM NoWakeupIsLost ==
  ASSUME Cancellable = {}
  PROVE  Spec => []NoLostWakeup
<1>1. WakeupInv => NoLostWakeup
  BY DEF WakeupInv
<1>2. MutexInv /\ QueueInv /\ WakeupInv /\ [Next]_vars => WakeupInv'
  BY WakeupNext
<1>3. QED
  BY <1>1, <1>2, MutexInit, MutexNext, QueueInit, QueueNext, WakeupInit, PTL
     DEF Spec

(***************************************************************************)
(* The accounts.  Every change of inUse adds or removes the block of slots *)
(* of one process, and every other step leaves the charged slots alone.    *)
(***************************************************************************)
Block(p, n) == {p} \X (1..n)

LEMMA BlockSize ==
  ASSUME NEW p, NEW n \in Nat
  PROVE  IsFiniteSet(Block(p, n)) /\ Cardinality(Block(p, n)) = n
<1>1. IsFiniteSet({p}) /\ Cardinality({p}) = 1
  BY FS_Singleton
<1>2. IsFiniteSet(1..n) /\ Cardinality(1..n) = n
  BY FS_Interval
<1>3. /\ IsFiniteSet(Block(p, n))
      /\ Cardinality(Block(p, n)) = Cardinality({p}) * Cardinality(1..n)
  BY <1>1, <1>2, FS_Product, Zenon DEF Block
<1>4. QED
  BY <1>1, <1>2, <1>3

LEMMA ChargedFinite == IsFiniteSet(ChargedSlots)
<1>1. IsFiniteSet(Procs) /\ IsFiniteSet(1..MaxWeight)
  BY SemaphoreAssumption, FS_Interval
<1>2. IsFiniteSet(Procs \X (1..MaxWeight))
  BY <1>1, FS_Product
<1>3. QED
  BY <1>2, FS_Subset DEF ChargedSlots

LEMMA AddBlock ==
  ASSUME NEW S, IsFiniteSet(S), NEW p, NEW n \in Nat, S \cap Block(p, n) = {}
  PROVE  Cardinality(S \cup Block(p, n)) = Cardinality(S) + n
<1>1. IsFiniteSet(Block(p, n)) /\ Cardinality(Block(p, n)) = n
  BY BlockSize
<1>2. Cardinality(S) \in Nat /\ Cardinality({}) = 0
  BY FS_CardinalityType, FS_EmptySet
<1>3. Cardinality(S \cup Block(p, n))
        = Cardinality(S) + Cardinality(Block(p, n)) - Cardinality(S \cap Block(p, n))
  BY <1>1, FS_Union, Zenon
<1>4. Cardinality(S \cap Block(p, n)) = 0
  BY <1>2
<1>5. QED
  BY <1>1, <1>2, <1>3, <1>4

LEMMA RemoveBlock ==
  ASSUME NEW S, IsFiniteSet(S), NEW p, NEW n \in Nat, Block(p, n) \subseteq S
  PROVE  Cardinality(S \ Block(p, n)) = Cardinality(S) - n
<1>1. IsFiniteSet(Block(p, n)) /\ Cardinality(Block(p, n)) = n
  BY BlockSize
<1>2. S \cap Block(p, n) = Block(p, n)
  OBVIOUS
<1>3. Cardinality(S \ Block(p, n)) = Cardinality(S) - Cardinality(S \cap Block(p, n))
  BY FS_Difference
<1>4. QED
  BY <1>1, <1>2, <1>3

LEMMA AccountsInit == Init => SlotsAccounted
<1> SUFFICES ASSUME Init PROVE SlotsAccounted
  OBVIOUS
<1>1. ChargedSlots = {}
  BY DEF Init, ChargedSlots, Charged
<1>2. QED
  BY <1>1, FS_EmptySet DEF Init, SlotsAccounted

(* No process starts or stops to answer for slots. *)
LEMMA AccountsUndisturbed ==
  ASSUME SlotsAccounted, inUse' = inUse,
         \A q \in Procs : Charged(q)' <=> Charged(q),
         \A q \in Procs : Charged(q) => need'[q] = need[q]
  PROVE  SlotsAccounted'
<1>1. ChargedSlots' = ChargedSlots
  BY DEF ChargedSlots
<1>2. QED
  BY <1>1 DEF SlotsAccounted

(* Process p starts to answer for its need[p] slots. *)
LEMMA AccountsCharge ==
  ASSUME TypeOK, SlotsAccounted, NEW p \in Procs, ~Charged(p), Charged(p)',
         inUse' = inUse + need[p], need' = need,
         \A q \in Procs \ {p} : Charged(q)' <=> Charged(q)
  PROVE  SlotsAccounted'
<1>1. need[p] \in Nat /\ 1..need[p] \subseteq 1..MaxWeight
  BY SemaphoreAssumption DEF TypeOK
<1>2. ChargedSlots \cap Block(p, need[p]) = {}
  BY DEF ChargedSlots, Block
<1>3. ChargedSlots' = ChargedSlots \cup Block(p, need[p])
  <2>1. \A x : x \in ChargedSlots' => x \in ChargedSlots \cup Block(p, need[p])
    BY SemaphoreAssumption DEF ChargedSlots, Block, TypeOK
  <2>2. ChargedSlots \subseteq ChargedSlots'
    BY DEF ChargedSlots
  <2>3. Block(p, need[p]) \subseteq ChargedSlots'
    BY <1>1 DEF ChargedSlots, Block
  <2>4. QED
    BY <2>1, <2>2, <2>3
<1>4. QED
  BY <1>1, <1>2, <1>3, ChargedFinite, AddBlock DEF SlotsAccounted

(* Process p gives its need[p] slots back. *)
LEMMA AccountsRelease ==
  ASSUME TypeOK, SlotsAccounted, NEW p \in Procs, Charged(p), ~Charged(p)',
         inUse' = inUse - need[p],
         \A q \in Procs \ {p} : /\ Charged(q)' <=> Charged(q)
                                /\ need'[q] = need[q]
  PROVE  SlotsAccounted'
<1>1. need[p] \in Nat /\ 1..need[p] \subseteq 1..MaxWeight
  BY SemaphoreAssumption DEF TypeOK
<1>2. Block(p, need[p]) \subseteq ChargedSlots
  BY <1>1 DEF ChargedSlots, Block
<1>3. ChargedSlots' = ChargedSlots \ Block(p, need[p])
  <2>1. \A x : x \in ChargedSlots' => x \in ChargedSlots \ Block(p, need[p])
    BY DEF ChargedSlots, Block
  <2>2. \A x : x \in ChargedSlots \ Block(p, need[p]) => x \in ChargedSlots'
    BY SemaphoreAssumption DEF ChargedSlots, Block, TypeOK
  <2>3. QED
    BY <2>1, <2>2
<1>4. QED
  BY <1>1, <1>2, <1>3, ChargedFinite, RemoveBlock DEF SlotsAccounted

LEMMA AccountsNext ==
  MutexInv /\ QueueInv /\ SlotsAccounted /\ [Next]_vars => SlotsAccounted'
<1> SUFFICES ASSUME MutexInv, QueueInv, SlotsAccounted, [Next]_vars
             PROVE  SlotsAccounted'
  OBVIOUS
<1> USE DEF MutexInv, InCritical, Goto
<1>0. \A q \in Procs : q \in signalled => Blocked(q)
  BY DEF QueueInv
<1>1. ASSUME NEW p \in Procs, NEW n \in Weights, StartAcquire(p, n) PROVE SlotsAccounted'
  <2>1. inUse' = inUse /\ \A q \in Procs : Charged(q)' <=> Charged(q)
    BY <1>0, <1>1 DEF StartAcquire, Charged, Blocked, TypeOK
  <2>2. \A q \in Procs : Charged(q) => need'[q] = need[q]
    BY <1>0, <1>1 DEF StartAcquire, Charged, Blocked, TypeOK
  <2>3. QED
    BY <2>1, <2>2, AccountsUndisturbed
<1>2. ASSUME NEW p \in Procs, NEW n \in Capacities, SetMaxConc(p, n) PROVE SlotsAccounted'
  <2>1. inUse' = inUse /\ \A q \in Procs : Charged(q)' <=> Charged(q)
    BY <1>0, <1>2 DEF SetMaxConc, Charged, Blocked, TypeOK
  <2>2. \A q \in Procs : Charged(q) => need'[q] = need[q]
    BY <1>0, <1>2 DEF SetMaxConc, Charged, Blocked, TypeOK
  <2>3. QED
    BY <2>1, <2>2, AccountsUndisturbed
<1>3. ASSUME NEW p \in Procs, Cancel(p) PROVE SlotsAccounted'
  <2>1. inUse' = inUse /\ \A q \in Procs : Charged(q)' <=> Charged(q)
    BY <1>0, <1>3 DEF Cancel, Charged, Blocked, TypeOK
  <2>2. \A q \in Procs : Charged(q) => need'[q] = need[q]
    BY <1>0, <1>3 DEF Cancel, Charged, Blocked, TypeOK
  <2>3. QED
    BY <2>1, <2>2, AccountsUndisturbed
<1>4. ASSUME NEW p \in Procs, AcquireLock(p) PROVE SlotsAccounted'
  <2>1. inUse' = inUse /\ \A q \in Procs : Charged(q)' <=> Charged(q)
    BY <1>0, <1>4 DEF AcquireLock, Charged, Blocked, TypeOK
  <2>2. \A q \in Procs : Charged(q) => need'[q] = need[q]
    BY <1>0, <1>4 DEF AcquireLock, Charged, Blocked, TypeOK
  <2>3. QED
    BY <2>1, <2>2, AccountsUndisturbed
<1>5. ASSUME NEW p \in Procs, LeaveQueue(p) PROVE SlotsAccounted'
  <2>1. /\ pc[p] = "cancelLock" /\ mu = NoProc /\ inUse' = inUse
        /\ \A q \in Procs \ {p} : pc'[q] = pc[q] /\ need'[q] = need[q]
    BY <1>5 DEF LeaveQueue, Abandoned, TypeOK
  <2>2. ~Popped(p)
    BY SemaphoreAssumption, <2>1 DEF MutexHeld, Popped
  <2>3. CASE Waits(p)
    <3>1. pc'[p] = "idle" /\ signalled' = signalled
      BY <1>5, <2>3 DEF LeaveQueue, Abandoned, TypeOK
    <3>2. p \notin signalled
      BY <2>3 DEF QueueInv, Member, Waits
    <3>3. QED
      BY <2>1, <3>1, <3>2, AccountsUndisturbed DEF Charged
  <2>4. CASE ~Waits(p)
    <3>1. pc'[p] = "giveBack" /\ signalled' = signalled \ {p} /\ need' = need
      BY <1>5, <2>4 DEF LeaveQueue, Waits, TypeOK
    <3>2. p \in signalled
      BY <2>1, <2>2, <2>4 DEF QueueInv, Member, Waits, Blocked
    <3>3. QED
      BY <2>1, <3>1, <3>2, AccountsUndisturbed DEF Charged
  <2>5. QED
    BY <2>3, <2>4
<1>6. ASSUME NEW p \in Procs, WakeLock(p) PROVE SlotsAccounted'
  <2>1. inUse' = inUse /\ \A q \in Procs : Charged(q)' <=> Charged(q)
    BY <1>0, <1>6 DEF WakeLock, Charged, Blocked, TypeOK
  <2>2. \A q \in Procs : Charged(q) => need'[q] = need[q]
    BY <1>0, <1>6 DEF WakeLock, Charged, Blocked, TypeOK
  <2>3. QED
    BY <2>1, <2>2, AccountsUndisturbed
<1>7. ASSUME NEW p \in Procs, FastLoadInUse(p) PROVE SlotsAccounted'
  <2>1. inUse' = inUse /\ \A q \in Procs : Charged(q)' <=> Charged(q)
    BY <1>0, <1>7 DEF FastLoadInUse, Charged, Blocked, TypeOK
  <2>2. \A q \in Procs : Charged(q) => need'[q] = need[q]
    BY <1>0, <1>7 DEF FastLoadInUse, Charged, Blocked, TypeOK
  <2>3. QED
    BY <2>1, <2>2, AccountsUndisturbed
<1>8. ASSUME NEW p \in Procs, FastLoadMax(p) PROVE SlotsAccounted'
  <2>1. inUse' = inUse /\ \A q \in Procs : Charged(q)' <=> Charged(q)
    BY <1>0, <1>8 DEF FastLoadMax, Charged, Blocked, TypeOK
  <2>2. \A q \in Procs : Charged(q) => need'[q] = need[q]
    BY <1>0, <1>8 DEF FastLoadMax, Charged, Blocked, TypeOK
  <2>3. QED
    BY <2>1, <2>2, AccountsUndisturbed
<1>9. ASSUME NEW p \in Procs, FastCAS(p) PROVE SlotsAccounted'
  <2>1. CASE inUse = cur[p]
    <3>1. ~Charged(p) /\ Charged(p)' /\ inUse' = inUse + need[p] /\ need' = need
      BY <1>0, <1>9, <2>1 DEF FastCAS, Acquired, Charged, Blocked, TypeOK
    <3>2. \A q \in Procs \ {p} : Charged(q)' <=> Charged(q)
      BY <1>9, <2>1 DEF FastCAS, Acquired, Charged, TypeOK
    <3>3. QED
      BY <3>1, <3>2, AccountsCharge
  <2>2. CASE inUse # cur[p]
    <3>1. inUse' = inUse /\ \A q \in Procs : Charged(q)' <=> Charged(q)
      BY <1>0, <1>9, <2>2 DEF FastCAS, Charged, Blocked, TypeOK
    <3>2. QED
      BY <1>9, <3>1, AccountsUndisturbed DEF FastCAS
  <2>3. QED
    BY <2>1, <2>2
<1>10. ASSUME NEW p \in Procs, RecheckMax(p) PROVE SlotsAccounted'
  <2>1. inUse' = inUse /\ \A q \in Procs : Charged(q)' <=> Charged(q)
    BY <1>0, <1>10 DEF RecheckMax, Charged, Blocked, TypeOK
  <2>2. \A q \in Procs : Charged(q) => need'[q] = need[q]
    BY <1>0, <1>10 DEF RecheckMax, Charged, Blocked, TypeOK
  <2>3. QED
    BY <2>1, <2>2, AccountsUndisturbed
<1>11. ASSUME NEW p \in Procs, SlowAdd(p) PROVE SlotsAccounted'
  <2>1. ~Charged(p) /\ Charged(p)' /\ inUse' = inUse + need[p] /\ need' = need
    BY <1>0, <1>11 DEF SlowAdd, Acquired, Charged, Blocked, TypeOK
  <2>2. \A q \in Procs \ {p} : Charged(q)' <=> Charged(q)
    BY <1>11 DEF SlowAdd, Acquired, Charged, TypeOK
  <2>3. QED
    BY <2>1, <2>2, AccountsCharge
<1>12. ASSUME NEW p \in Procs, ReceiveSignal(p) PROVE SlotsAccounted'
  <2>1. inUse' = inUse /\ \A q \in Procs : Charged(q)' <=> Charged(q)
    BY <1>0, <1>12 DEF ReceiveSignal, Acquired, Charged, Blocked, TypeOK
  <2>2. \A q \in Procs : Charged(q) => need'[q] = need[q]
    BY <1>0, <1>12 DEF ReceiveSignal, Acquired, Charged, Blocked, TypeOK
  <2>3. QED
    BY <2>1, <2>2, AccountsUndisturbed
<1>13. ASSUME NEW p \in Procs, ReceiveDone(p) PROVE SlotsAccounted'
  <2>1. inUse' = inUse /\ \A q \in Procs : Charged(q)' <=> Charged(q)
    BY <1>0, <1>13 DEF ReceiveDone, Charged, Blocked, TypeOK
  <2>2. \A q \in Procs : Charged(q) => need'[q] = need[q]
    BY <1>0, <1>13 DEF ReceiveDone, Charged, Blocked, TypeOK
  <2>3. QED
    BY <2>1, <2>2, AccountsUndisturbed
<1>14. ASSUME NEW p \in Procs, GiveBack(p) PROVE SlotsAccounted'
  <2>1. Charged(p) /\ ~Charged(p)' /\ inUse' = inUse - need[p]
    BY <1>0, <1>14 DEF GiveBack, Abandoned, Charged, Blocked, TypeOK
  <2>2. \A q \in Procs \ {p} : (Charged(q)' <=> Charged(q)) /\ need'[q] = need[q]
    BY <1>14 DEF GiveBack, Abandoned, Charged, TypeOK
  <2>3. QED
    BY <2>1, <2>2, AccountsRelease
<1>15. ASSUME NEW p \in Procs, Release(p) PROVE SlotsAccounted'
  <2>1. Charged(p) /\ ~Charged(p)' /\ inUse' = inUse - need[p]
    BY <1>0, <1>15 DEF Release, Charged, Blocked, TypeOK
  <2>2. \A q \in Procs \ {p} : (Charged(q)' <=> Charged(q)) /\ need'[q] = need[q]
    BY <1>15 DEF Release, Charged, TypeOK
  <2>3. QED
    BY <2>1, <2>2, AccountsRelease
<1>16. ASSUME NEW p \in Procs, WakeMax(p) PROVE SlotsAccounted'
  <2>1. inUse' = inUse /\ \A q \in Procs : Charged(q)' <=> Charged(q)
    BY <1>0, <1>16 DEF WakeMax, Charged, Blocked, TypeOK
  <2>2. \A q \in Procs : Charged(q) => need'[q] = need[q]
    BY <1>0, <1>16 DEF WakeMax, Charged, Blocked, TypeOK
  <2>3. QED
    BY <2>1, <2>2, AccountsUndisturbed
<1>17. ASSUME NEW p \in Procs, WakeAdd(p) PROVE SlotsAccounted'
  <2>1. PICK t \in Procs : t = target[p]
    BY <1>17 DEF WakeAdd, WakerReady
  <2>2. /\ pc[p] = "wakeAdd" /\ pc' = [pc EXCEPT ![p] = "wakeLock"]
        /\ signalled' = signalled \cup {t}
        /\ inUse' = inUse + need[t] /\ need' = need
    BY <1>17, <2>1 DEF WakeAdd
  <2>3. Popped(t)
    BY <2>1, <2>2 DEF Popped
  <2>4. Blocked(t) /\ t \notin signalled
    BY <2>3 DEF QueueInv
  <2>5. ~Charged(t) /\ Charged(t)'
    BY <2>2, <2>4 DEF Charged, Blocked
  <2>6. \A q \in Procs \ {t} : Charged(q)' <=> Charged(q)
    BY <2>2 DEF Charged, TypeOK
  <2>7. QED
    BY <2>2, <2>5, <2>6, AccountsCharge
<1>18. CASE UNCHANGED vars
  BY <1>18 DEF vars, SlotsAccounted, ChargedSlots, Charged
<1>19. QED
  BY <1>1, <1>2, <1>3, <1>4, <1>5, <1>6, <1>7, <1>8, <1>9, <1>10, <1>11,
     <1>12, <1>13, <1>14, <1>15, <1>16, <1>17, <1>18
     DEF Next, LockStep, PlainStep

(* inUse always counts exactly the slots somebody answers for: none leaks, *)
(* none is given back twice, and in particular inUse is never negative     *)
(* (semaphore.go 96-183).                                                  *)
THEOREM SlotsAreAccounted == Spec => [](SlotsAccounted /\ inUse >= 0)
<1>1. SlotsAccounted => inUse >= 0
  BY ChargedFinite, FS_CardinalityType DEF SlotsAccounted
<1>2. QED
  BY <1>1, MutexInit, MutexNext, QueueInit, QueueNext, AccountsInit,
     AccountsNext, PTL DEF Spec

-----------------------------------------------------------------------------
(* The request of the caller (module Requests).  A function is one of what *)
(* it is indexed by, a slice and a view are records of their fields.  What *)
(* messages are made of does not matter here.                              *)

Fun(f, S) == f = [x \in S |-> f[x]]
IsSlice(s) == s = [own |-> s.own, len |-> s.len, msgs |-> s.msgs] /\ s.own \in BOOLEAN
IsView(v) == v = [slice |-> v.slice, cells |-> v.cells] /\ IsSlice(v.slice)
IsLeg(l) == l = [stage |-> l.stage, slice |-> l.slice, list |-> l.list] /\ IsSlice(l.slice)

AllHooks == UNION {Range(ch) : ch \in Chains}
AllTemplates == UNION {Range(l) : l \in Lists}

RequestShape ==
  /\ chain \in Chains /\ templates \in Seq(AllTemplates)
  /\ Fun(at, Calls) /\ Fun(base, Calls) /\ Fun(leg, Calls)
  /\ ran \in [Calls -> Seq(AllHooks)]
  /\ \A c \in Calls : IsSlice(base[c]) /\ Fun(leg[c], Turns)
  /\ \A c \in Calls, i \in Turns : IsLeg(leg[c][i])

(* No hook has run for a call that has not come to its hooks.              *)
HooksToCome == \A c \in Calls : at[c] \in {"new", "before"} => ran[c] = <<>>

(* As long as no dual call has edited in place, the array is as it was,    *)
(* the request of a call is this array in full or a copy, a fallback has   *)
(* made its copy before its hooks run, and what templates and hooks work   *)
(* on afterwards are copies.                                               *)
Intact ==
  /\ SubSeq(cells, 1, Len(given)) = given
  /\ \A c \in Calls :
       /\ base[c].own \/ base[c].len = Len(given)
       /\ at[c] = "before" /\ kind[c] # "dual" => base[c].own
       /\ \A i \in Turns : leg[c][i].stage \in {"inject", "hook", "ready"} => leg[c][i].slice.own

CopiesInv ==
  /\ RequestShape /\ HooksToCome
  /\ given # <<>> /\ Tamperers = {} => Intact
-----------------------------------------------------------------------------
(* Induction over the natural numbers, for sets of them.                   *)

LEMMA LeastNumber ==
  ASSUME NEW T \in SUBSET Nat, T # {}
  PROVE  \E m \in T : \A k \in T : m <= k
<1> DEFINE R == StrictSubsetOrdering(Nat)
           F == {0..m : m \in T}
<1>1. IsWellFoundedOn(R, FiniteSubsetsOf(Nat))
  BY FS_StrictSubsetOrderingWellFounded
<1>2. F \subseteq FiniteSubsetsOf(Nat) /\ F # {}
  <2>1. \A m \in T : IsFiniteSet(0..m) /\ 0..m \in SUBSET Nat
    BY FS_Interval
  <2> QED
    BY <2>1 DEF FiniteSubsetsOf
<1>3. PICK s \in F : \A t \in F : <<t, s>> \notin R
  BY <1>1, <1>2, WFMin
<1>4. PICK m \in T : s = 0..m
  BY <1>3
<1>5. ASSUME NEW k \in T, k < m PROVE FALSE
  <2>1. 0..k \subseteq 0..m /\ m \notin 0..k /\ m \in 0..m
    BY <1>5
  <2>2. <<0..k, 0..m>> \in R
    BY <2>1 DEF StrictSubsetOrdering
  <2> QED
    BY <1>3, <1>4, <2>2
<1> QED
  BY <1>5

LEMMA Induction ==
  ASSUME NEW T \in SUBSET Nat, 0 \in T, \A n \in T : n + 1 \in T
  PROVE  T = Nat
<1>1. ASSUME Nat \ T # {} PROVE FALSE
  <2>1. PICK m \in Nat \ T : \A k \in Nat \ T : m <= k
    BY <1>1, LeastNumber
  <2>2. m # 0 /\ m - 1 \in Nat /\ m - 1 \notin Nat \ T
    BY <2>1
  <2> QED
    BY <2>1, <2>2
<1> QED
  BY <1>1

LEMMA MaxIs ==
  ASSUME NEW T \in SUBSET Nat, T # {}, NEW n \in Nat, \A k \in T : k <= n
  PROVE  Max(T) \in T /\ \A k \in T : k <= Max(T)
<1> DEFINE U == {n - k : k \in T}
<1>1. U \in SUBSET Nat /\ U # {}
  <2>1. \A k \in T : n - k \in Nat
    OBVIOUS
  <2>2. \E k \in T : n - k \in U
    OBVIOUS
  <2> QED
    BY <2>1, <2>2
<1>2. PICK u \in U : \A v \in U : u <= v
  BY <1>1, LeastNumber
<1>3. PICK m \in T : u = n - m
  BY <1>2
<1>4. \A k \in T : m >= k
  BY <1>2, <1>3
<1> QED
  BY <1>4 DEF Max

LEMMA MaxUpTo ==
  ASSUME NEW n \in Nat, NEW s \in SUBSET (1..n), s # {}
  PROVE  Max(s) \in s /\ \A k \in s : k <= Max(s)
<1>1. s \in SUBSET Nat /\ \A k \in s : k <= n
  OBVIOUS
<1> QED
  BY <1>1, MaxIs

-----------------------------------------------------------------------------
(* Folds: what the hooks and the templates of a call do to a view.         *)

Do(hooks, p, w, x) ==
  IF hooks THEN RunHook(w, x)
  ELSE IF Matches(x, p) THEN InjectOne(w, x) ELSE w

Folds(g, hooks, p, v, q, n) ==
  g = [s \in SUBSET (1..n) |-> IF s = {} THEN v ELSE Do(hooks, p, g[s \ {Max(s)}], q[Max(s)])]

LEMMA FoldExists ==
  ASSUME NEW hooks, NEW p, NEW v, NEW q, NEW n \in Nat
  PROVE  \E g : Folds(g, hooks, p, v, q, n)
<1> DEFINE T == {m \in Nat : \E g : Folds(g, hooks, p, v, q, m)}
<1>1. 0 \in T
  <2> DEFINE g == [s \in SUBSET (1..0) |-> v]
  <2>1. SUBSET (1..0) = {{}}
    OBVIOUS
  <2>2. Folds(g, hooks, p, v, q, 0)
    BY <2>1 DEF Folds
  <2> QED
    BY <2>2
<1>2. ASSUME NEW m \in T PROVE m + 1 \in T
  <2>1. m \in Nat
    OBVIOUS
  <2>2. PICK g : Folds(g, hooks, p, v, q, m)
    OBVIOUS
  <2> DEFINE h == [s \in SUBSET (1..(m + 1)) |->
                     IF m + 1 \in s THEN Do(hooks, p, g[s \ {m + 1}], q[m + 1]) ELSE g[s]]
  <2>3. ASSUME NEW s \in SUBSET (1..(m + 1))
        PROVE  h[s] = IF s = {} THEN v ELSE Do(hooks, p, h[s \ {Max(s)}], q[Max(s)])
    <3>1. CASE m + 1 \in s
      <4>1. Max(s) = m + 1
        <5>1. m + 1 \in Nat /\ s # {}
          BY <2>1, <3>1
        <5>2. Max(s) \in s /\ \A k \in s : k <= Max(s)
          BY <5>1, MaxUpTo
        <5>3. Max(s) \in 1..(m + 1) /\ m + 1 <= Max(s)
          BY <3>1, <5>2
        <5> QED
          BY <2>1, <5>3
      <4>2. s \ {m + 1} \in SUBSET (1..(m + 1)) /\ m + 1 \notin s \ {m + 1}
        OBVIOUS
      <4>3. h[s \ {m + 1}] = g[s \ {m + 1}]
        BY <4>2
      <4> QED
        BY <3>1, <4>1, <4>3
    <3>2. CASE m + 1 \notin s
      <4>1. s \in SUBSET (1..m)
        BY <2>1, <3>2
      <4>2. s # {} => s \ {Max(s)} \in SUBSET (1..(m + 1)) /\ m + 1 \notin s \ {Max(s)}
        BY <3>2
      <4>3. h[s] = g[s] /\ (s # {} => h[s \ {Max(s)}] = g[s \ {Max(s)}])
        BY <3>2, <4>2
      <4>4. g[s] = IF s = {} THEN v ELSE Do(hooks, p, g[s \ {Max(s)}], q[Max(s)])
        BY <2>2, <4>1 DEF Folds
      <4> QED
        BY <4>3, <4>4
    <3> QED
      BY <3>1, <3>2
  <2>4. Folds(h, hooks, p, v, q, m + 1)
    BY <2>3 DEF Folds
  <2> QED
    BY <2>1, <2>4
<1> HIDE DEF T
<1>3. T = Nat
  BY <1>1, <1>2, Induction DEF T
<1> QED
  BY <1>3 DEF T

\* The views between one hook or template and the next.
Runs(f, hooks, p, v, q, n) ==
  f[0] = v /\ \A i \in 1..n : f[i] = Do(hooks, p, f[i - 1], q[i])

LEMMA FoldRuns ==
  ASSUME NEW hooks, NEW p, NEW v, NEW q, NEW n \in Nat, NEW g, Folds(g, hooks, p, v, q, n)
  PROVE  Runs([i \in 0..n |-> g[1..i]], hooks, p, v, q, n)
<1>1. g[1..0] = v
  BY DEF Folds
<1>2. ASSUME NEW i \in 1..n
      PROVE  g[1..i] = Do(hooks, p, g[1..(i - 1)], q[i])
  <2>1. i \in Nat /\ 1..i \in SUBSET (1..n) /\ i \in 1..i
    OBVIOUS
  <2>2. Max(1..i) = i
    <3>1. Max(1..i) \in 1..i /\ i <= Max(1..i)
      BY <2>1, MaxUpTo
    <3> QED
      BY <2>1, <3>1
  <2>3. (1..i) \ {i} = 1..(i - 1)
    OBVIOUS
  <2> QED
    BY <2>1, <2>2, <2>3 DEF Folds
<1>3. 0 \in 0..n /\ \A i \in 1..n : i \in 0..n /\ i - 1 \in 0..n
  OBVIOUS
<1> QED
  BY <1>1, <1>2, <1>3 DEF Runs

\* What a fold over a sequence computes is its last view.
Fold(hooks, p, v, q) ==
  (CHOOSE g : g = [s \in SUBSET (DOMAIN q) |->
     IF s = {} THEN v ELSE Do(hooks, p, g[s \ {Max(s)}], q[Max(s)])])[DOMAIN q]

LEMMA FoldIs ==
  ASSUME NEW hooks, NEW p, NEW v, NEW S, NEW q \in Seq(S)
  PROVE  \E f : Runs(f, hooks, p, v, q, Len(q)) /\ Fold(hooks, p, v, q) = f[Len(q)]
<1>1. Len(q) \in Nat /\ DOMAIN q = 1..Len(q)
  OBVIOUS
<1> DEFINE iter == CHOOSE g : Folds(g, hooks, p, v, q, Len(q))
<1>2. Folds(iter, hooks, p, v, q, Len(q))
  BY <1>1, FoldExists
<1>3. Fold(hooks, p, v, q) = iter[1..Len(q)]
  BY <1>1 DEF Fold, Folds
<1> HIDE DEF iter
<1>4. Runs([i \in 0..Len(q) |-> iter[1..i]], hooks, p, v, q, Len(q))
  BY <1>1, <1>2, FoldRuns
<1>5. [i \in 0..Len(q) |-> iter[1..i]][Len(q)] = iter[1..Len(q)]
  BY <1>1
<1> QED
  BY <1>3, <1>4, <1>5

LEMMA ApplyBeforeIs ==
  ASSUME NEW v, NEW q
  PROVE  ApplyBefore(v, q) = Fold(TRUE, 1, v, q)
BY DEF ApplyBefore, FoldLeft, MapThenFoldSet, Fold, Do

LEMMA InjectIs ==
  ASSUME NEW v, NEW p
  PROVE  Inject(v, p) = Fold(FALSE, p, v, templates)
BY DEF Inject, FoldLeft, MapThenFoldSet, Fold, Do

-----------------------------------------------------------------------------
(* Views: a view of a copy stays one, and leaves the array of the caller.  *)

Same(v, w) == w.slice.own /\ w.cells = v.cells

LEMMA ViewIs ==
  ASSUME NEW s, IsSlice(s)
  PROVE  IsView(View(s)) /\ View(s).slice = s /\ View(s).cells = cells
BY DEF View, IsView

LEMMA OwnIs ==
  ASSUME NEW m
  PROVE  IsSlice(Own(m)) /\ Own(m).own
BY DEF Own, IsSlice

LEMMA SharedIs ==
  ASSUME NEW n
  PROVE  IsSlice(Shared(n)) /\ ~Shared(n).own /\ Shared(n).len = n
BY DEF Shared, IsSlice

LEMMA WithOwn ==
  ASSUME NEW v, IsView(v), NEW m
  PROVE  LET w == [v EXCEPT !.slice = Own(m)] IN IsView(w) /\ Same(v, w)
<1> DEFINE w == [v EXCEPT !.slice = Own(m)]
<1>1. w = [slice |-> Own(m), cells |-> v.cells]
  BY DEF IsView
<1> QED
  BY <1>1, OwnIs DEF IsView, Same

LEMMA WithSlice ==
  ASSUME NEW v, IsView(v), NEW s, s = [v.slice EXCEPT !.msgs = s.msgs]
  PROVE  LET w == [v EXCEPT !.slice = s] IN
           IsView(w) /\ w.slice.own = v.slice.own /\ w.cells = v.cells
<1> DEFINE w == [v EXCEPT !.slice = s]
<1>1. w = [slice |-> s, cells |-> v.cells]
  BY DEF IsView
<1>2. s = [own |-> v.slice.own, len |-> v.slice.len, msgs |-> s.msgs]
  BY DEF IsView, IsSlice
<1>3. s.own = v.slice.own /\ s.len = v.slice.len
  BY <1>2
<1>4. v.slice.own \in BOOLEAN
  BY DEF IsView, IsSlice
<1> QED
  BY <1>1, <1>2, <1>3, <1>4 DEF IsView, IsSlice

LEMMA WithCells ==
  ASSUME NEW v, IsView(v), NEW s, IsSlice(s), NEW d
  PROVE  IsView([slice |-> s, cells |-> d]) /\ IsView([v EXCEPT !.cells = d])
         /\ [v EXCEPT !.cells = d].slice = v.slice
<1>1. [v EXCEPT !.cells = d] = [slice |-> v.slice, cells |-> d]
  BY DEF IsView
<1> QED
  BY <1>1 DEF IsView

Keeps(v, w) == IsView(w) /\ (v.slice.own => Same(v, w))

LEMMA EditedKeeps ==
  ASSUME NEW v, IsView(v), NEW i, NEW parts
  PROVE  Keeps(v, Edited(v, i, parts))
<1>1. CASE v.slice.own
  <2> DEFINE s == [v.slice EXCEPT !.msgs[i].parts = parts]
  <2>1. Edited(v, i, parts) = [v EXCEPT !.slice = s]
    BY <1>1 DEF Edited
  <2>2. s = [v.slice EXCEPT !.msgs = s.msgs]
    BY DEF IsView, IsSlice
  <2> QED
    BY <1>1, <2>1, <2>2, WithSlice DEF Keeps, Same
<1>2. CASE ~v.slice.own
  BY <1>2, WithCells DEF Edited, Keeps, IsView
<1> QED
  BY <1>1, <1>2

LEMMA AppendedKeeps ==
  ASSUME NEW v, IsView(v), NEW m
  PROVE  Keeps(v, Appended(v, m))
<1>1. CASE ~v.slice.own /\ v.slice.len < Len(v.cells)
  BY <1>1, WithCells, SharedIs DEF Appended, Keeps
<1>2. CASE ~(~v.slice.own /\ v.slice.len < Len(v.cells))
  BY <1>2, WithOwn DEF Appended, Keeps
<1> QED
  BY <1>1, <1>2

LEMMA InjectOneKeeps ==
  ASSUME NEW v, IsView(v), NEW tmpl
  PROVE  Keeps(v, InjectOne(v, tmpl))
<1>1. Keeps(v, injectPrependUser(v, tmpl.content))
  BY EditedKeeps, AppendedKeeps DEF injectPrependUser, Before
<1>2. Keeps(v, injectAppendUser(v, tmpl.content))
  BY EditedKeeps, AppendedKeeps DEF injectAppendUser, Behind
<1>3. Keeps(v, injectSystem(v, tmpl.content))
  <2>1. CASE Places(v, "system") # {}
    BY <2>1, EditedKeeps DEF injectSystem, Before
  <2>2. CASE Places(v, "system") = {}
    BY <2>2, WithOwn DEF injectSystem, Keeps
  <2> QED
    BY <2>1, <2>2
<1> QED
  BY <1>1, <1>2, <1>3 DEF InjectOne

LEMMA RunHookKeeps ==
  ASSUME NEW v, IsView(v), NEW h
  PROVE  Keeps(v, RunHook(v, h)) /\ (~h.inPlace => Same(v, RunHook(v, h)))
<1>1. CASE ~h.inPlace
  <2> DEFINE m == MarkedAll(Messages(v), h)
  <2>1. RunHook(v, h) = [v EXCEPT !.slice = Own(m)]
    BY <1>1 DEF RunHook
  <2> HIDE DEF m
  <2> QED
    BY <2>1, WithOwn DEF Keeps
<1>2. CASE h.inPlace /\ v.slice.own
  <2> DEFINE s == [v.slice EXCEPT !.msgs = MarkedAll(v.slice.msgs, h)]
  <2>1. RunHook(v, h) = [v EXCEPT !.slice = s]
    BY <1>2 DEF RunHook
  <2>2. s = [v.slice EXCEPT !.msgs = s.msgs]
    BY DEF IsView, IsSlice
  <2> QED
    BY <1>2, <2>1, <2>2, WithSlice DEF Keeps, Same
<1>3. CASE h.inPlace /\ ~v.slice.own
  BY <1>3, WithCells DEF RunHook, Keeps, IsView
<1> QED
  BY <1>1, <1>2, <1>3

LEMMA KeepsChain ==
  ASSUME NEW u, NEW v, NEW w, Keeps(u, v), Keeps(v, w)
  PROVE  Keeps(u, w)
BY DEF Keeps, Same

LEMMA DoKeeps ==
  ASSUME NEW hooks \in BOOLEAN, NEW p, NEW v, IsView(v), NEW x
  PROVE  Keeps(v, Do(hooks, p, v, x))
<1>1. Keeps(v, v)
  BY DEF Keeps, Same
<1> QED
  BY <1>1, RunHookKeeps, InjectOneKeeps DEF Do

\* What holds from some view of the fold on holds at its end.
LEMMA RunsKeeps ==
  ASSUME NEW f, NEW hooks \in BOOLEAN, NEW p, NEW v, NEW q, NEW n \in Nat, Runs(f, hooks, p, v, q, n),
         NEW k \in 0..n, IsView(f[k])
  PROVE  Keeps(f[k], f[n])
<1> DEFINE T == {m \in Nat : k + m <= n => Keeps(f[k], f[k + m])}
<1>1. 0 \in T
  BY DEF Keeps, Same
<1>2. ASSUME NEW m \in T PROVE m + 1 \in T
  <2>1. SUFFICES ASSUME k + (m + 1) <= n PROVE Keeps(f[k], f[k + (m + 1)])
    OBVIOUS
  <2>2. Keeps(f[k], f[k + m])
    BY <2>1
  <2>3. k + (m + 1) \in 1..n /\ (k + (m + 1)) - 1 = k + m
    BY <2>1
  <2>4. f[k + (m + 1)] = Do(hooks, p, f[k + m], q[k + (m + 1)])
    BY <2>3 DEF Runs
  <2>5. IsView(f[k + m])
    BY <2>2 DEF Keeps
  <2>6. Keeps(f[k + m], f[k + (m + 1)])
    BY <2>4, <2>5, DoKeeps
  <2> QED
    BY <2>2, <2>6, KeepsChain
<1> HIDE DEF T
<1>3. T = Nat
  BY <1>1, <1>2, Induction DEF T
<1>4. n - k \in Nat /\ k + (n - k) = n /\ n <= n
  OBVIOUS
<1> QED
  BY <1>3, <1>4 DEF T

LEMMA FoldKeeps ==
  ASSUME NEW hooks \in BOOLEAN, NEW p, NEW v, IsView(v), NEW S, NEW q \in Seq(S)
  PROVE  Keeps(v, Fold(hooks, p, v, q))
<1>1. PICK f : Runs(f, hooks, p, v, q, Len(q)) /\ Fold(hooks, p, v, q) = f[Len(q)]
  BY FoldIs
<1>2. f[0] = v /\ Len(q) \in Nat /\ 0 \in 0..Len(q)
  BY <1>1 DEF Runs
<1> QED
  BY <1>1, <1>2, RunsKeeps

\* A chain whose first hook makes an array of its own leaves that of the
\* caller alone, and so does an empty one.
LEMMA FirstHookKeeps ==
  ASSUME NEW v, IsView(v), NEW S, NEW q \in Seq(S), q # <<>> => ~q[1].inPlace
  PROVE  /\ Keeps(v, ApplyBefore(v, q))
         /\ ApplyBefore(v, q) = v \/ Same(v, ApplyBefore(v, q))
<1>1. Keeps(v, ApplyBefore(v, q))
  BY FoldKeeps, ApplyBeforeIs
<1>2. PICK f : Runs(f, TRUE, 1, v, q, Len(q)) /\ ApplyBefore(v, q) = f[Len(q)]
  BY ZenonT(40), FoldIs, ApplyBeforeIs
<1>3. f[0] = v
  BY <1>2 DEF Runs
<1>4. CASE q = <<>>
  BY <1>2, <1>3, <1>1, <1>4
<1>5. CASE q # <<>>
  <2>1. 1 \in 1..Len(q) /\ 1 \in 0..Len(q) /\ Len(q) \in Nat /\ 1 - 1 = 0
    BY <1>5
  <2>2. f[1] = RunHook(v, q[1])
    BY <1>2, <1>3, <2>1 DEF Runs, Do
  <2>3. IsView(f[1]) /\ Same(v, f[1])
    BY <1>5, <2>2, RunHookKeeps DEF Keeps
  <2>4. Keeps(f[1], f[Len(q)])
    BY <1>2, <2>1, <2>3, RunsKeeps
  <2> QED
    BY <1>1, <1>2, <2>3, <2>4 DEF Keeps, Same
<1> QED
  BY <1>1, <1>4, <1>5

-----------------------------------------------------------------------------
(* The types                                                               *)

LEMMA ChainType == \A ch \in Chains : ch \in Seq(AllHooks) /\ \A i \in DOMAIN ch : ch[i].inPlace \in BOOLEAN
<1>1. ASSUME NEW ch \in Chains PROVE ch \in Seq(AllHooks)
  <2>1. ch \in Seq(Range(ch)) /\ Range(ch) \subseteq AllHooks
    BY <1>1, RequestsAssumption DEF AllHooks
  <2> QED
    BY <2>1
<1> QED
  BY <1>1, RequestsAssumption

LEMMA ListType == \A l \in Lists : l \in Seq(AllTemplates) /\ Range(l) \subseteq AllTemplates
<1>1. ASSUME NEW l \in Lists PROVE l \in Seq(AllTemplates) /\ Range(l) \subseteq AllTemplates
  <2>1. l \in Seq(Range(l)) /\ Range(l) \subseteq AllTemplates
    BY <1>1, RequestsAssumption DEF AllTemplates
  <2> QED
    BY <2>1
<1> QED
  BY <1>1

LEMMA BrokenType ==
  ASSUME chain \in Chains, NEW hooks \in Broken
  PROVE  /\ hooks \in Seq(AllHooks)
         /\ hooks # <<>> => chain # <<>> /\ hooks[1] = chain[1]
<1>1. chain \in Seq(AllHooks)
  BY ChainType
<1>2. PICK k \in 0..(Len(chain) - 1) : hooks = SubSeq(chain, 1, k)
  BY DEF Broken
<1>3. Len(chain) \in Nat /\ k \in Nat /\ k <= Len(chain)
  BY <1>1
<1>4. hooks \in Seq(AllHooks) /\ Len(hooks) = k /\ \A i \in 1..k : hooks[i] = chain[i]
  BY <1>1, <1>2, <1>3
<1> QED
  BY <1>1, <1>3, <1>4

LEMMA CloneKeeps ==
  ASSUME NEW v, IsView(v)
  PROVE  /\ IsView(Clone(v)) /\ Clone(v).cells = v.cells
         /\ v.slice.own \/ Messages(v) # <<>> => Clone(v).slice.own
<1>1. CASE Messages(v) = <<>>
  BY <1>1 DEF Clone
<1>2. CASE Messages(v) # <<>>
  BY <1>2, WithOwn DEF Clone, Same
<1> QED
  BY <1>1, <1>2

\* The copy of a request that is the array of the caller in full.
LEMMA CloneOfBase ==
  ASSUME NEW s, IsSlice(s), given # <<>>, SubSeq(cells, 1, Len(given)) = given, s.own \/ s.len = Len(given)
  PROVE  Clone(View(s)).slice.own
<1>1. IsView(View(s)) /\ View(s).slice = s /\ View(s).cells = cells
  BY ViewIs
<1>2. ~s.own => Messages(View(s)) # <<>>
  BY <1>1 DEF Messages
<1> QED
  BY <1>1, <1>2, CloneKeeps

Puts(g, f, c, x) == g = [f EXCEPT ![c] = x]

LEMMA FunExcept ==
  ASSUME NEW S, NEW f, Fun(f, S), NEW c \in S, NEW x, NEW g, Puts(g, f, c, x)
  PROVE  Fun(g, S) /\ g[c] = x /\ \A d \in S : d # c => g[d] = f[d]
BY DEF Fun, Puts

LEMMA ProceedIs ==
  ASSUME Fun(at, Calls), NEW c \in Calls, NEW from, NEW to, Proceed(c, from, to)
  PROVE  Fun(at', Calls) /\ at[c] = from /\ at'[c] = to /\ \A d \in Calls : d # c => at'[d] = at[d]
<1>1. Puts(at', at, c, to) /\ at[c] = from
  BY DEF Proceed, Puts
<1> QED
  BY <1>1, FunExcept

LEMMA InitCopies ==
  ASSUME RequestInit
  PROVE  CopiesInv
<1>1. PICK s \in Shapes : given = s.msgs /\ cells = s.msgs \o [i \in 1..s.room |-> NoMessage]
  BY DEF RequestInit
<1>2. s.msgs \in Seq(Range(s.msgs)) /\ s.room \in Nat
  BY <1>1, RequestsAssumption
<1>3. RequestShape
  <2>1. chain \in Chains /\ templates \in Seq(AllTemplates)
    BY ListType DEF RequestInit
  <2>2. Fun(at, Calls) /\ Fun(base, Calls) /\ Fun(leg, Calls) /\ ran \in [Calls -> Seq(AllHooks)]
    BY DEF RequestInit, Fun
  <2>3. \A c \in Calls : base[c] = Shared(Len(given)) /\ IsSlice(base[c]) /\ Fun(leg[c], Turns)
    BY SharedIs DEF RequestInit, Fun
  <2>4. \A c \in Calls, i \in Turns : leg[c][i] = Idle
    BY DEF RequestInit
  <2>5. IsLeg(Idle)
    BY SharedIs DEF Idle, IsLeg
  <2> QED
    BY <2>1, <2>2, <2>3, <2>4, <2>5 DEF RequestShape
<1>4. HooksToCome
  BY DEF RequestInit, HooksToCome
<1>5. Intact
  <2>1. SubSeq(cells, 1, Len(given)) = given
    <3> DEFINE S == Range(s.msgs) \cup {NoMessage}
               rest == [i \in 1..s.room |-> NoMessage]
    <3>1. s.msgs \in Seq(S) /\ rest \in Seq(S)
      BY <1>2
    <3> HIDE DEF S, rest
    <3>2. Len(s.msgs) \in Nat /\ Len(s.msgs \o rest) = Len(s.msgs) + Len(rest) /\ Len(rest) \in Nat
      BY <3>1
    <3>3. \A i \in 1..Len(s.msgs) : (s.msgs \o rest)[i] = s.msgs[i]
      BY <3>1, <3>2
    <3>4. SubSeq(s.msgs \o rest, 1, Len(s.msgs)) = SubSeq(s.msgs, 1, Len(s.msgs))
      BY <3>2, <3>3
    <3>5. SubSeq(s.msgs, 1, Len(s.msgs)) = s.msgs
      BY <3>1
    <3> QED
      BY <1>1, <3>4, <3>5 DEF rest
  <2>2. ASSUME NEW c \in Calls
        PROVE  /\ base[c].len = Len(given) /\ at[c] = "new"
               /\ \A i \in Turns : leg[c][i].stage = "idle"
    BY <2>2, SharedIs DEF RequestInit, Idle
  <2> QED
    BY <2>1, <2>2 DEF Intact
<1> QED
  BY <1>3, <1>4, <1>5 DEF CopiesInv

-----------------------------------------------------------------------------
(* The steps                                                               *)

LEMMA RanGrows ==
  ASSUME RequestShape, NEW c \in Calls, NEW hooks \in Seq(AllHooks), kind' = kind,
         ran' = [ran EXCEPT ![c] = @ \o hooks]
  PROVE  /\ ran' \in [Calls -> Seq(AllHooks)]
         /\ Tamperers \subseteq Tamperers'
         /\ kind[c] = "dual" /\ ran[c] = <<>> /\ hooks # <<>> /\ hooks[1].inPlace => c \in Tamperers'
         /\ \A d \in Calls : d # c => ran'[d] = ran[d]
<1>1. ran \in [Calls -> Seq(AllHooks)]
  BY DEF RequestShape
<1>2. ran'[c] = ran[c] \o hooks /\ \A d \in Calls : d # c => ran'[d] = ran[d]
  BY <1>1
<1>3. ran[c] \in Seq(AllHooks) /\ ran[c] \o hooks \in Seq(AllHooks)
  BY <1>1
<1>4. ran' \in [Calls -> Seq(AllHooks)]
  BY <1>1, <1>3
<1>5. ran[c] # <<>> => ran'[c] # <<>> /\ ran'[c][1] = ran[c][1]
  BY <1>2, <1>3
<1>6. ran[c] = <<>> => ran'[c] = hooks
  BY <1>2, <1>3
<1>7. Tamperers \subseteq Tamperers'
  BY <1>2, <1>5 DEF Tamperers
<1>8. kind[c] = "dual" /\ ran[c] = <<>> /\ hooks # <<>> /\ hooks[1].inPlace => c \in Tamperers'
  BY <1>6 DEF Tamperers
<1> QED
  BY <1>2, <1>4, <1>7, <1>8

LEMMA TamperersStay ==
  ASSUME ran' = ran, kind' = kind
  PROVE  Tamperers' = Tamperers
BY DEF Tamperers

\* A step that puts a leg in another place.
PutsLeg(c, i, l) == leg' = [leg EXCEPT ![c][i] = l]

LEMMA LegMoves ==
  ASSUME Fun(leg, Calls), NEW c \in Calls, NEW i \in Turns, NEW l,
         \A d \in Calls : Fun(leg[d], Turns),
         PutsLeg(c, i, l)
  PROVE  /\ Fun(leg', Calls) /\ \A d \in Calls : Fun(leg'[d], Turns)
         /\ leg'[c][i] = l
         /\ \A d \in Calls, j \in Turns : <<d, j>> # <<c, i>> => leg'[d][j] = leg[d][j]
<1> DEFINE row == [leg[c] EXCEPT ![i] = l]
<1>1. Puts(leg', leg, c, row) /\ Puts(row, leg[c], i, l)
  BY DEF Puts, PutsLeg
<1> HIDE DEF row
<1>2. Fun(row, Turns) /\ row[i] = l /\ \A j \in Turns : j # i => row[j] = leg[c][j]
  BY <1>1, FunExcept
<1>3. Fun(leg', Calls) /\ leg'[c] = row /\ \A d \in Calls : d # c => leg'[d] = leg[d]
  BY <1>1, FunExcept
<1> QED
  BY <1>1, <1>2, <1>3

\* A leg that works on a copy whenever it has one.
Good(l) == IsLeg(l) /\ (l.stage \in {"inject", "hook", "ready"} => l.slice.own)

LEMMA StartKeeps ==
  ASSUME CopiesInv, NEW c \in Calls, Start(c)
  PROVE  CopiesInv'
<1> USE DEF CopiesInv
<1>1. /\ at[c] = "new" /\ Fun(at', Calls) /\ \A d \in Calls : d # c => at'[d] = at[d]
      /\ at'[c] = "before" => kind[c] \in {"fallback", "dual"}
  <2> DEFINE to == IF avail = {} \/ (kind[c] = "audit" /\ Cardinality(avail) < 2) THEN "refused"
                   ELSE IF kind[c] \in {"fallback", "dual"} THEN "before" ELSE "route"
  <2>1. Proceed(c, "new", to)
    BY DEF Start
  <2>2. to = "before" => kind[c] \in {"fallback", "dual"}
    OBVIOUS
  <2> HIDE DEF to
  <2>3. Fun(at, Calls)
    BY DEF RequestShape
  <2> QED
    BY <2>1, <2>2, <2>3, ProceedIs
<1> DEFINE b == RequestOf(c)
<1>2. IsSlice(base[c]) /\ Fun(base, Calls) /\ Puts(base', base, c, b)
  BY DEF RequestShape, Start, Puts
<1>3. IsView(View(base[c])) /\ View(base[c]).slice = base[c]
  BY <1>2, ViewIs
<1>4. IsSlice(b)
  <2>1. IsSlice(Clone(View(base[c])).slice)
    BY <1>3, CloneKeeps DEF IsView
  <2> QED
    BY <1>2, <2>1, OwnIs DEF RequestOf
<1>5. given # <<>> /\ Tamperers = {} =>
        /\ b.own \/ b.len = Len(given)
        /\ kind[c] = "fallback" => b.own
  <2>1. SUFFICES ASSUME given # <<>>, Tamperers = {}
                 PROVE  (b.own \/ b.len = Len(given)) /\ (kind[c] = "fallback" => b.own)
    OBVIOUS
  <2>2. SubSeq(cells, 1, Len(given)) = given /\ (base[c].own \/ base[c].len = Len(given))
    BY <2>1 DEF Intact
  <2>3. Clone(View(base[c])).slice.own
    BY <1>2, <2>1, <2>2, CloneOfBase
  <2>4. Own(ToCoreRequest).own
    BY OwnIs
  <2> QED
    BY <2>2, <2>3, <2>4 DEF RequestOf
<1> HIDE DEF b
<1>6. base'[c] = b /\ Fun(base', Calls) /\ \A d \in Calls : d # c => base'[d] = base[d]
  BY <1>2, FunExcept
<1>7. /\ cells' = cells /\ kind' = kind /\ ran' = ran /\ leg' = leg
      /\ given' = given /\ chain' = chain /\ templates' = templates
  BY DEF Start, config
<1>8. RequestShape'
  BY <1>1, <1>4, <1>6, <1>7 DEF RequestShape
<1>9. HooksToCome'
  BY <1>1, <1>7 DEF HooksToCome
<1>10. ASSUME given # <<>>, Tamperers = {} PROVE Intact'
  <2>1. Intact
    BY <1>10
  <2>2. ASSUME NEW d \in Calls
        PROVE  /\ base'[d].own \/ base'[d].len = Len(given)
               /\ at'[d] = "before" /\ kind[d] # "dual" => base'[d].own
               /\ \A i \in Turns : leg'[d][i].stage \in {"inject", "hook", "ready"} => leg'[d][i].slice.own
    <3>1. CASE d = c
      BY <1>1, <1>5, <1>6, <1>7, <1>10, <2>1, <3>1 DEF Intact
    <3>2. CASE d # c
      BY <1>1, <1>6, <1>7, <2>1, <3>2 DEF Intact
    <3> QED
      BY <3>1, <3>2
  <2> QED
    BY <1>7, <2>1, <2>2 DEF Intact
<1> QED
  BY <1>7, <1>8, <1>9, <1>10, TamperersStay

\* What the hooks of a call leave before it picks providers, unless they
\* edit the array of the caller in place.
LEMMA EarlyHooks ==
  ASSUME CopiesInv, NEW c \in Calls, at[c] = "before", NEW hooks \in Seq(AllHooks), kind' = kind,
         ran' = [ran EXCEPT ![c] = @ \o hooks]
  PROVE  LET v == ApplyBefore(View(base[c]), hooks) IN
           /\ IsSlice(v.slice)
           /\ given # <<>> /\ Tamperers' = {} =>
                v.cells = cells /\ (v.slice.own \/ v.slice.len = Len(given))
<1> DEFINE v == ApplyBefore(View(base[c]), hooks)
<1>1. IsSlice(base[c]) /\ ran[c] = <<>>
  BY DEF CopiesInv, RequestShape, HooksToCome
<1>2. IsView(View(base[c])) /\ View(base[c]).slice = base[c] /\ View(base[c]).cells = cells
  BY <1>1, ViewIs
<1>3. Keeps(View(base[c]), v)
  BY <1>2, FoldKeeps, ApplyBeforeIs
<1>4. ASSUME given # <<>>, Tamperers' = {}
      PROVE  v.cells = cells /\ (v.slice.own \/ v.slice.len = Len(given))
  <2>1. Tamperers = {} /\ ~(kind[c] = "dual" /\ hooks # <<>> /\ hooks[1].inPlace)
    BY <1>1, <1>4, RanGrows DEF CopiesInv
  <2>2. (base[c].own \/ base[c].len = Len(given)) /\ (kind[c] # "dual" => base[c].own)
    BY <1>4, <2>1 DEF CopiesInv, Intact
  <2>3. CASE base[c].own
    BY <1>2, <1>3, <2>3 DEF Keeps, Same
  <2>4. CASE ~base[c].own
    <3>1. hooks # <<>> => ~hooks[1].inPlace
      BY <2>1, <2>2, <2>4
    <3>2. v = View(base[c]) \/ Same(View(base[c]), v)
      BY <1>2, <3>1, FirstHookKeeps
    <3> QED
      BY <1>2, <2>2, <3>2 DEF Same
  <2> QED
    BY <2>3, <2>4
<1> QED
  BY <1>3, <1>4 DEF Keeps, IsView

LEMMA BeforeAllKeeps ==
  ASSUME CopiesInv, NEW c \in Calls, BeforeAll(c)
  PROVE  CopiesInv'
<1> USE DEF CopiesInv
<1> DEFINE v == ApplyBefore(View(base[c]), chain)
<1>1. at[c] = "before" /\ at'[c] = "route" /\ Fun(at', Calls) /\ \A d \in Calls : d # c => at'[d] = at[d]
  BY ProceedIs DEF BeforeAll, RequestShape
<1>2. /\ Puts(base', base, c, v.slice) /\ cells' = v.cells /\ ran' = [ran EXCEPT ![c] = @ \o chain]
      /\ kind' = kind /\ leg' = leg /\ given' = given /\ chain' = chain /\ templates' = templates
  BY DEF BeforeAll, config, Puts
<1>3. chain \in Seq(AllHooks)
  BY ChainType DEF RequestShape
<1>4. /\ IsSlice(v.slice)
      /\ given # <<>> /\ Tamperers' = {} => v.cells = cells /\ (v.slice.own \/ v.slice.len = Len(given))
  BY <1>1, <1>2, <1>3, EarlyHooks
<1> HIDE DEF v
<1>5. ran' \in [Calls -> Seq(AllHooks)] /\ Tamperers \subseteq Tamperers' /\ \A d \in Calls : d # c => ran'[d] = ran[d]
  BY <1>2, <1>3, RanGrows
<1>6. base'[c] = v.slice /\ Fun(base', Calls) /\ \A d \in Calls : d # c => base'[d] = base[d]
  BY <1>2, FunExcept DEF RequestShape
<1>7. RequestShape'
  BY <1>1, <1>2, <1>4, <1>5, <1>6 DEF RequestShape
<1>8. HooksToCome'
  BY <1>1, <1>5 DEF HooksToCome
<1>9. ASSUME given # <<>>, Tamperers' = {} PROVE Intact'
  <2>1. Intact
    BY <1>5, <1>9
  <2>2. ASSUME NEW d \in Calls
        PROVE  /\ base'[d].own \/ base'[d].len = Len(given)
               /\ at'[d] = "before" /\ kind[d] # "dual" => base'[d].own
               /\ \A i \in Turns : leg'[d][i].stage \in {"inject", "hook", "ready"} => leg'[d][i].slice.own
    <3>1. CASE d = c
      BY <1>1, <1>2, <1>4, <1>6, <1>9, <2>1, <3>1 DEF Intact
    <3>2. CASE d # c
      BY <1>1, <1>2, <1>6, <2>1, <3>2 DEF Intact
    <3> QED
      BY <3>1, <3>2
  <2>3. cells' = cells
    BY <1>2, <1>4, <1>9
  <2> QED
    BY <1>2, <2>1, <2>2, <2>3 DEF Intact
<1> QED
  BY <1>2, <1>7, <1>8, <1>9

\* A step of one leg, which has the array of the caller to itself at most if
\* nobody is a tamperer.
LegStep(c, i, l, d) ==
  /\ PutsLeg(c, i, l) /\ IsLeg(l)
  /\ given # <<>> /\ Tamperers = {} =>
       d = cells /\ (l.stage \in {"inject", "hook", "ready"} => l.slice.own)

LEMMA LegStepKeeps ==
  ASSUME CopiesInv, NEW c \in Calls, NEW i \in Turns, NEW l, LegStep(c, i, l, cells'),
         at[c] = "legs", Fun(at', Calls), \A d \in Calls : d # c => at'[d] = at[d],
         at'[c] \notin {"new", "before"},
         ran' \in [Calls -> Seq(AllHooks)], Tamperers \subseteq Tamperers',
         \A d \in Calls : d # c => ran'[d] = ran[d],
         base' = base, kind' = kind, given' = given, chain' = chain, templates' = templates
  PROVE  CopiesInv'
<1> USE DEF CopiesInv
<1>1. /\ Fun(leg', Calls) /\ \A d \in Calls : Fun(leg'[d], Turns)
      /\ leg'[c][i] = l
      /\ \A d \in Calls, j \in Turns : <<d, j>> # <<c, i>> => leg'[d][j] = leg[d][j]
  BY LegMoves DEF LegStep, RequestShape
<1>2. ASSUME NEW d \in Calls, NEW j \in Turns PROVE IsLeg(leg'[d][j])
  BY <1>1 DEF LegStep, RequestShape
<1>3. RequestShape'
  BY <1>1, <1>2 DEF RequestShape
<1>4. HooksToCome'
  BY DEF HooksToCome
<1>5. ASSUME given # <<>>, Tamperers' = {} PROVE Intact'
  <2>1. Intact /\ cells' = cells /\ (l.stage \in {"inject", "hook", "ready"} => l.slice.own)
    BY <1>5 DEF LegStep
  <2>2. ASSUME NEW d \in Calls, NEW j \in Turns, leg'[d][j].stage \in {"inject", "hook", "ready"}
        PROVE  leg'[d][j].slice.own
    <3>1. CASE <<d, j>> = <<c, i>>
      BY <1>1, <2>1, <2>2, <3>1
    <3>2. CASE <<d, j>> # <<c, i>>
      BY <1>1, <2>1, <2>2, <3>2 DEF Intact
    <3> QED
      BY <3>1, <3>2
  <2>3. ASSUME NEW d \in Calls, at'[d] = "before" PROVE at[d] = "before"
    BY <2>3
  <2> QED
    BY <2>1, <2>2, <2>3 DEF Intact
<1> QED
  BY <1>3, <1>4, <1>5

LEMMA CloneLegKeeps ==
  ASSUME CopiesInv, NEW c \in Calls, NEW i \in Turns, CloneLeg(c, i)
  PROVE  CopiesInv'
<1> DEFINE v == Clone(View(base[c]))
           l == [stage |-> "inject", slice |-> v.slice, list |-> leg[c][i].list]
<1>1. /\ at[c] = "legs" /\ at' = at /\ ran' = ran /\ base' = base /\ kind' = kind
      /\ given' = given /\ chain' = chain /\ templates' = templates /\ cells' = v.cells
  BY DEF CloneLeg, Step, Turn, config
<1>2. IsSlice(base[c])
  BY DEF CopiesInv, RequestShape
<1>3. IsView(View(base[c])) /\ View(base[c]).slice = base[c] /\ View(base[c]).cells = cells
  BY <1>2, ViewIs
<1>4. IsView(v) /\ v.cells = cells
  BY <1>3, CloneKeeps
<1>5. given # <<>> /\ Tamperers = {} => v.slice.own
  BY <1>2, CloneOfBase DEF CopiesInv, Intact
<1>6. PutsLeg(c, i, l)
  BY DEF CloneLeg, Step, PutsLeg
<1>7. LegStep(c, i, l, cells')
  BY <1>1, <1>4, <1>5, <1>6 DEF LegStep, IsLeg, IsView
<1> HIDE DEF l, v
<1>8. Fun(at', Calls) /\ ran' \in [Calls -> Seq(AllHooks)] /\ Tamperers' = Tamperers
  BY <1>1, TamperersStay DEF CopiesInv, RequestShape
<1> QED
  BY <1>1, <1>7, <1>8, LegStepKeeps

LEMMA InjectLegKeeps ==
  ASSUME CopiesInv, NEW c \in Calls, NEW i \in Turns, InjectLeg(c, i)
  PROVE  CopiesInv'
<1> DEFINE v == Inject(View(leg[c][i].slice), order[c][i])
           l == [stage |-> IF Single(c) THEN "hook" ELSE "ready", slice |-> v.slice, list |-> templates]
<1>1. /\ at[c] = "legs" /\ at' = at /\ ran' = ran /\ base' = base /\ kind' = kind
      /\ given' = given /\ chain' = chain /\ templates' = templates /\ cells' = v.cells
      /\ leg[c][i].stage = "inject"
  BY DEF InjectLeg, config
<1>2. IsSlice(leg[c][i].slice)
  BY DEF CopiesInv, RequestShape, IsLeg
<1>3. IsView(View(leg[c][i].slice)) /\ View(leg[c][i].slice).slice = leg[c][i].slice
      /\ View(leg[c][i].slice).cells = cells
  BY <1>2, ViewIs
<1>4. Keeps(View(leg[c][i].slice), v)
  <2>1. templates \in Seq(AllTemplates)
    BY DEF CopiesInv, RequestShape
  <2> QED
    BY <1>3, <2>1, FoldKeeps, InjectIs
<1>5. given # <<>> /\ Tamperers = {} => v.slice.own /\ v.cells = cells
  BY <1>1, <1>3, <1>4 DEF CopiesInv, Intact, Keeps, Same
<1>6. PutsLeg(c, i, l)
  BY DEF InjectLeg, PutsLeg
<1>7. LegStep(c, i, l, cells')
  BY <1>1, <1>4, <1>5, <1>6 DEF LegStep, IsLeg, IsView, Keeps
<1> HIDE DEF l, v
<1>8. Fun(at', Calls) /\ ran' \in [Calls -> Seq(AllHooks)] /\ Tamperers' = Tamperers
  BY <1>1, TamperersStay DEF CopiesInv, RequestShape
<1> QED
  BY <1>1, <1>7, <1>8, LegStepKeeps

LEMMA HookLegKeeps ==
  ASSUME CopiesInv, NEW c \in Calls, NEW i \in Turns, HookLeg(c, i)
  PROVE  CopiesInv'
<1> DEFINE v == ApplyBefore(View(leg[c][i].slice), chain)
           l == [stage |-> "ready", slice |-> v.slice, list |-> leg[c][i].list]
<1>1. /\ at[c] = "legs" /\ at' = at /\ ran' = [ran EXCEPT ![c] = @ \o chain] /\ base' = base /\ kind' = kind
      /\ given' = given /\ chain' = chain /\ templates' = templates /\ cells' = v.cells
      /\ leg[c][i].stage = "hook"
  BY DEF HookLeg, Step, Turn, config
<1>2. IsSlice(leg[c][i].slice) /\ chain \in Seq(AllHooks)
  BY ChainType DEF CopiesInv, RequestShape, IsLeg
<1>3. IsView(View(leg[c][i].slice)) /\ View(leg[c][i].slice).slice = leg[c][i].slice
      /\ View(leg[c][i].slice).cells = cells
  BY <1>2, ViewIs
<1>4. Keeps(View(leg[c][i].slice), v)
  BY <1>2, <1>3, FoldKeeps, ApplyBeforeIs
<1>5. given # <<>> /\ Tamperers = {} => v.slice.own /\ v.cells = cells
  BY <1>1, <1>3, <1>4 DEF CopiesInv, Intact, Keeps, Same
<1>6. PutsLeg(c, i, l)
  BY DEF HookLeg, Step, PutsLeg
<1>7. LegStep(c, i, l, cells')
  BY <1>1, <1>4, <1>5, <1>6 DEF LegStep, IsLeg, IsView, Keeps
<1> HIDE DEF l, v
<1>8. Fun(at', Calls)
  BY <1>1 DEF CopiesInv, RequestShape
<1>9. ran' \in [Calls -> Seq(AllHooks)] /\ Tamperers \subseteq Tamperers' /\ \A d \in Calls : d # c => ran'[d] = ran[d]
  BY <1>1, <1>2, RanGrows DEF CopiesInv
<1> QED
  BY <1>1, <1>7, <1>8, <1>9, LegStepKeeps

LEMMA SendKeeps ==
  ASSUME CopiesInv, NEW c \in Calls, NEW i \in Turns, Send(c, i)
  PROVE  CopiesInv'
<1> DEFINE l == [Idle EXCEPT !.stage = "done"]
<1>1. /\ at[c] = "legs" /\ ran' = ran /\ base' = base /\ kind' = kind
      /\ given' = given /\ chain' = chain /\ templates' = templates /\ cells' = cells
  BY DEF Send, config
<1>2. PICK to \in {"done", "legs"} : Puts(at', at, c, to)
  BY DEF Send, Puts
<1>3. Fun(at', Calls) /\ at'[c] = to /\ \A d \in Calls : d # c => at'[d] = at[d]
  BY <1>2, FunExcept DEF CopiesInv, RequestShape
<1>4. l = [stage |-> "done", slice |-> Shared(0), list |-> <<>>]
  BY DEF Idle
<1>5. PutsLeg(c, i, l)
  BY DEF Send, PutsLeg
<1>6. LegStep(c, i, l, cells')
  <2> HIDE DEF l
  <2> QED
    BY <1>1, <1>4, <1>5, SharedIs DEF LegStep, IsLeg
<1> HIDE DEF l
<1>7. ran' \in [Calls -> Seq(AllHooks)] /\ Tamperers' = Tamperers
  BY <1>1, TamperersStay DEF CopiesInv, RequestShape
<1> QED
  BY <1>1, <1>3, <1>6, <1>7, LegStepKeeps

\* Only the array, the label and the hooks that ran change.
LEMMA BeforeFailsKeeps ==
  ASSUME CopiesInv, NEW c \in Calls, BeforeFails(c)
  PROVE  CopiesInv'
<1> USE DEF CopiesInv
<1>1. /\ base' = base /\ kind' = kind /\ leg' = leg
      /\ given' = given /\ chain' = chain /\ templates' = templates
      /\ Puts(at', at, c, "refused")
  BY DEF BeforeFails, config, Puts
<1>2. Fun(at', Calls) /\ at'[c] = "refused" /\ \A d \in Calls : d # c => at'[d] = at[d]
  BY <1>1, FunExcept DEF RequestShape
<1>3. PICK hooks \in Broken, i \in Turns :
        /\ at[c] = "legs" => leg[c][i].stage = "hook"
        /\ cells' = ApplyBefore(View(IF at[c] = "before" THEN base[c] ELSE leg[c][i].slice), hooks).cells
        /\ ran' = [ran EXCEPT ![c] = @ \o hooks]
  BY DEF BeforeFails
<1>4. at[c] \in {"before", "legs"}
  BY DEF BeforeFails
<1>5. hooks \in Seq(AllHooks)
  BY BrokenType DEF RequestShape
<1>6. ran' \in [Calls -> Seq(AllHooks)] /\ Tamperers \subseteq Tamperers' /\ \A d \in Calls : d # c => ran'[d] = ran[d]
  BY <1>1, <1>3, <1>5, RanGrows
<1>7. ASSUME given # <<>>, Tamperers' = {} PROVE cells' = cells
  <2>1. CASE at[c] = "before"
    BY <1>1, <1>3, <1>5, <1>7, <2>1, EarlyHooks
  <2>2. CASE at[c] = "legs"
    <3> DEFINE s == leg[c][i].slice
    <3>1. s.own
      BY <1>3, <1>6, <1>7, <2>2 DEF Intact
    <3>2. IsSlice(s) /\ cells' = ApplyBefore(View(s), hooks).cells
      BY <1>3, <2>2 DEF RequestShape, IsLeg
    <3> HIDE DEF s
    <3>3. IsView(View(s)) /\ View(s).slice = s /\ View(s).cells = cells
      BY <3>2, ViewIs
    <3>4. Keeps(View(s), ApplyBefore(View(s), hooks))
      BY <1>5, <3>3, FoldKeeps, ApplyBeforeIs
    <3> QED
      BY <3>1, <3>2, <3>3, <3>4 DEF Keeps, Same
  <2> QED
    BY <1>4, <2>1, <2>2
<1>8. RequestShape'
  BY <1>1, <1>2, <1>6 DEF RequestShape
<1>9. HooksToCome'
  BY <1>2, <1>6 DEF HooksToCome
<1>10. ASSUME given # <<>>, Tamperers' = {} PROVE Intact'
  <2>1. Intact /\ cells' = cells
    BY <1>6, <1>7, <1>10
  <2>2. ASSUME NEW d \in Calls, at'[d] = "before" PROVE at[d] = "before"
    BY <1>2, <2>2
  <2> QED
    BY <1>1, <2>1, <2>2 DEF Intact
<1> QED
  BY <1>1, <1>8, <1>9, <1>10

LEMMA RouteKeeps ==
  ASSUME CopiesInv, NEW c \in Calls, RouteOne(c) \/ RouteFallback(c) \/ RoutePair(c) \/ RouteAudit(c)
  PROVE  CopiesInv'
<1> USE DEF CopiesInv
<1>1. /\ base' = base /\ kind' = kind /\ leg' = leg /\ ran' = ran /\ cells' = cells
      /\ given' = given /\ chain' = chain /\ templates' = templates
      /\ Puts(at', at, c, "legs")
  BY DEF RouteOne, RouteFallback, RoutePair, RouteAudit, Ask, Proceed, config, Puts
<1>2. Fun(at', Calls) /\ at'[c] = "legs" /\ \A d \in Calls : d # c => at'[d] = at[d]
  BY <1>1, FunExcept DEF RequestShape
<1>3. RequestShape'
  BY <1>1, <1>2 DEF RequestShape
<1>4. HooksToCome'
  BY <1>1, <1>2 DEF HooksToCome
<1>5. Tamperers' = Tamperers
  BY <1>1, TamperersStay
<1>6. ASSUME Intact PROVE Intact'
  <2>1. ASSUME NEW d \in Calls, at'[d] = "before" PROVE at[d] = "before"
    BY <1>2, <2>1
  <2> QED
    BY <1>1, <1>6, <2>1 DEF Intact
<1> QED
  BY <1>1, <1>3, <1>4, <1>5, <1>6

\* A call whose router panics has not copied anything.
LEMMA RoutePanicsKeeps ==
  ASSUME CopiesInv, NEW c \in Calls, RoutePanics(c)
  PROVE  CopiesInv'
<1> USE DEF CopiesInv
<1>1. /\ base' = base /\ kind' = kind /\ leg' = leg /\ ran' = ran /\ cells' = cells
      /\ given' = given /\ chain' = chain /\ templates' = templates
      /\ Puts(at', at, c, "refused")
  BY DEF RoutePanics, Proceed, config, Puts
<1>2. Fun(at', Calls) /\ at'[c] = "refused" /\ \A d \in Calls : d # c => at'[d] = at[d]
  BY <1>1, FunExcept DEF RequestShape
<1>3. RequestShape'
  BY <1>1, <1>2 DEF RequestShape
<1>4. HooksToCome'
  BY <1>1, <1>2 DEF HooksToCome
<1>5. Tamperers' = Tamperers
  BY <1>1, TamperersStay
<1>6. ASSUME Intact PROVE Intact'
  <2>1. ASSUME NEW d \in Calls, at'[d] = "before" PROVE at[d] = "before"
    BY <1>2, <2>1
  <2> QED
    BY <1>1, <1>6, <2>1 DEF Intact
<1> QED
  BY <1>1, <1>3, <1>4, <1>5, <1>6

LEMMA DegradeKeeps ==
  ASSUME CopiesInv, NEW c \in Calls, Degrade(c)
  PROVE  CopiesInv'
<1> USE DEF CopiesInv
<1>1. /\ at' = at /\ base' = base /\ kind' = kind /\ leg' = leg /\ ran' = ran /\ cells' = cells
      /\ given' = given /\ chain' = chain /\ templates' = templates
  BY DEF Degrade, config
<1>2. Tamperers' = Tamperers
  BY <1>1, TamperersStay
<1> QED
  BY <1>1, <1>2 DEF RequestShape, HooksToCome, Intact

LEMMA ConfigureKeeps ==
  ASSUME CopiesInv, Configure \/ UNCHANGED requestVars
  PROVE  CopiesInv'
<1> USE DEF CopiesInv
<1>1. /\ base' = base /\ kind' = kind /\ leg' = leg /\ ran' = ran /\ cells' = cells
      /\ given' = given /\ at' = at
  BY DEF Configure, AddTemplate, SetTemplates, Clear, Replace, SetInterceptors, SetSystemPrompt, ClearSystemPrompt,
    Change, Edit, requestVars, config
<1>2. chain' \in Chains
  BY DEF Configure, AddTemplate, SetTemplates, Clear, Replace, SetInterceptors, SetSystemPrompt, ClearSystemPrompt,
    Change, requestVars, config, RequestShape
<1>3. templates' \in Seq(AllTemplates)
  <2>1. templates \in Seq(AllTemplates)
    BY DEF RequestShape
  <2>2. CASE AddTemplate
    BY <2>1, <2>2, ListType DEF AddTemplate, Replace
  <2>3. CASE SetTemplates
    <3>1. PICK l \in Lists : templates' = l
      BY <2>3 DEF SetTemplates, Replace
    <3> QED
      BY <3>1, ListType
  <2>5. CASE Clear
    <3>1. templates' = <<>>
      BY <2>5 DEF Clear, Replace
    <3> QED
      BY <3>1
  <2>4. CASE SetInterceptors \/ SetSystemPrompt \/ ClearSystemPrompt \/ UNCHANGED requestVars
    BY <2>1, <2>4 DEF SetInterceptors, SetSystemPrompt, ClearSystemPrompt, Change, requestVars, config
  <2> QED
    BY <2>2, <2>3, <2>4, <2>5 DEF Configure
<1>4. RequestShape'
  BY <1>1, <1>2, <1>3 DEF RequestShape
<1>5. Tamperers' = Tamperers
  BY <1>1, TamperersStay
<1> QED
  BY <1>1, <1>4, <1>5 DEF HooksToCome, Intact

LEMMA CopiesStep ==
  ASSUME CopiesInv, [RequestNext]_requestVars
  PROVE  CopiesInv'
<1>1. ASSUME NEW c \in Calls, CallStep(c) PROVE CopiesInv'
  BY <1>1, StartKeeps, BeforeAllKeeps, BeforeFailsKeeps, RouteKeeps, RoutePanicsKeeps, DegradeKeeps, CloneLegKeeps,
    InjectLegKeeps, HookLegKeeps, SendKeeps DEF CallStep
<1> QED
  BY <1>1, ConfigureKeeps DEF RequestNext

(* Whatever hooks, templates and providers there are and however the steps *)
(* of calls that share one request interleave: no call changes the         *)
(* messages of the caller, but for the hooks of a dual call that edit in   *)
(* place (scheduler.go 426-427, 513, 571, 649, core/types.go Clone).       *)
THEOREM CallerKeepsMessages == RequestSpec => []CallerUntouched
<1>1. CopiesInv => CallerUntouched
  <2>1. CASE given = <<>>
    <3>1. Len(given) = 0 /\ SubSeq(cells, 1, 0) = <<>>
      BY <2>1
    <3> QED
      BY <2>1, <3>1 DEF CallerUntouched
  <2>2. CASE given # <<>>
    BY <2>2 DEF CopiesInv, Intact, CallerUntouched
  <2> QED
    BY <2>1, <2>2
<1> QED
  BY <1>1, InitCopies, CopiesStep, PTL DEF RequestSpec

-----------------------------------------------------------------------------
(* What a provider is sent is computed from the request of its call, and   *)
(* from nothing that other calls do meanwhile: the hooks and templates are *)
(* applied to messages that nobody else holds.                             *)

Alone(msgs) == [slice |-> Own(msgs), cells |-> <<>>]
Hooked(msgs, hooks) == Messages(ApplyBefore(Alone(msgs), hooks))
Templated(msgs, p, list) ==
  Messages(FoldLeft(LAMBDA w, tmpl : IF Matches(tmpl, p) THEN InjectOne(w, tmpl) ELSE w, Alone(msgs), list))

Shown(s, array) == Messages([slice |-> s, cells |-> array])
Content(s) == Shown(s, cells)
Original(c) == IF kind[c] = "post" THEN ToCoreRequest ELSE given

\* The hooks of a call run before it picks providers, or for the one it has
\* picked.
Early(c) == IF kind[c] \in {"fallback", "dual"} THEN Chains ELSE {<<>>}
Late(c) == IF Single(c) THEN Chains ELSE {<<>>}

Sent(c, i, early, late) ==
  /\ ran[c] = early \o late
  /\ Content(leg[c][i].slice)
       = Hooked(Templated(Hooked(Original(c), early), order[c][i], leg[c][i].list), late)

(* Which legs there are.                                                   *)
Legs(c) ==
  /\ at[c] = "before" => kind[c] \in {"fallback", "dual"}
  /\ at[c] \in {"new", "before", "route"} => \A i \in Turns : leg[c][i].stage = "idle"
  /\ at[c] \in {"new", "before", "route", "legs", "done"} \/ \A i \in Turns : leg[c][i].stage # "ready"
  /\ at[c] \in {"legs", "done"} /\ Single(c) => \A i \in DOMAIN order[c] : i = 1
  /\ \A i \in Turns :
       /\ leg[c][i].stage # "idle" => i \in DOMAIN order[c]
       /\ leg[c][i].stage = "hook" => Single(c)

(* How far the request of a call and its copies have come.                 *)
LegFlow(c, i, early) ==
  LET l == leg[c][i] IN
  /\ l.stage \in {"idle", "inject", "hook"} \/ ~Single(c) => ran[c] = early
  /\ l.stage = "inject" => Content(l.slice) = Content(base[c])
  /\ l.stage = "hook" => Content(l.slice) = Templated(Content(base[c]), order[c][i], l.list)
  /\ l.stage = "ready" => \E late \in Late(c) : Sent(c, i, early, late)

BaseFlow(c, early) ==
  /\ Content(base[c]) = Hooked(Original(c), early)
  /\ at[c] = "route" => ran[c] = early
  /\ at[c] # "route" => \A i \in Turns \cap DOMAIN order[c] : LegFlow(c, i, early)

Flow(c) ==
  /\ at[c] \in {"new", "before"} => Content(base[c]) = given
  /\ at[c] \in {"route", "legs", "done"} => \E early \in Early(c) : BaseFlow(c, early)

FlowInv ==
  /\ Fun(order, Calls)
  /\ \A c \in Calls : Legs(c)
  /\ given # <<>> /\ Tamperers = {} => \A c \in Calls : Flow(c)

(* Views of copies with the same messages stay so.                         *)

Alike(v, w) == IsView(v) /\ IsView(w) /\ v.slice.own /\ w.slice.own /\ v.slice.msgs = w.slice.msgs

LEMMA MessagesOwn ==
  ASSUME NEW v, v.slice.own
  PROVE  Messages(v) = v.slice.msgs
BY DEF Messages

LEMMA AloneIs ==
  ASSUME NEW msgs
  PROVE  IsView(Alone(msgs)) /\ Alone(msgs).slice.own /\ Alone(msgs).slice.msgs = msgs
BY OwnIs DEF Alone, Own, IsView

LEMMA WithOwnAlike ==
  ASSUME NEW v, IsView(v), NEW w, IsView(w), NEW m
  PROVE  Alike([v EXCEPT !.slice = Own(m)], [w EXCEPT !.slice = Own(m)])
<1> DEFINE x == [v EXCEPT !.slice = Own(m)]
           y == [w EXCEPT !.slice = Own(m)]
<1>1. x.slice = Own(m) /\ y.slice = Own(m)
  BY DEF IsView
<1>2. IsView(x) /\ IsView(y) /\ x.slice.own /\ y.slice.own
  BY WithOwn DEF Same
<1> QED
  BY <1>1, <1>2 DEF Alike

WithMsgs(v, m) == [v EXCEPT !.slice = [v.slice EXCEPT !.msgs = m]]

LEMMA WithMsgsIs ==
  ASSUME NEW v, IsView(v), v.slice.own, NEW m
  PROVE  IsView(WithMsgs(v, m)) /\ WithMsgs(v, m).slice.own /\ WithMsgs(v, m).slice.msgs = m
<1> DEFINE s == [v.slice EXCEPT !.msgs = m]
<1>1. s.msgs = m /\ s = [v.slice EXCEPT !.msgs = s.msgs]
  BY DEF IsView, IsSlice
<1>2. WithMsgs(v, m).slice = s
  BY DEF IsView, WithMsgs
<1>3. WithMsgs(v, m) = [v EXCEPT !.slice = s]
  BY DEF WithMsgs
<1> HIDE DEF s
<1> QED
  BY <1>1, <1>2, <1>3, WithSlice

LEMMA WithMsgsAlike ==
  ASSUME NEW v, NEW w, Alike(v, w), NEW m
  PROVE  Alike(WithMsgs(v, m), WithMsgs(w, m))
BY WithMsgsIs DEF Alike

LEMMA EditedAlike ==
  ASSUME NEW v, NEW w, Alike(v, w), NEW i, NEW parts
  PROVE  Alike(Edited(v, i, parts), Edited(w, i, parts))
<1> DEFINE m == [v.slice.msgs EXCEPT ![i].parts = parts]
<1>1. Edited(v, i, parts) = WithMsgs(v, m) /\ Edited(w, i, parts) = WithMsgs(w, m)
  BY DEF Alike, Edited, WithMsgs
<1> HIDE DEF m
<1> QED
  BY <1>1, WithMsgsAlike

LEMMA AppendedAlike ==
  ASSUME NEW v, NEW w, Alike(v, w), NEW m
  PROVE  Alike(Appended(v, m), Appended(w, m))
<1>1. Messages(v) = Messages(w)
  BY MessagesOwn DEF Alike
<1>2. /\ Appended(v, m) = [v EXCEPT !.slice = Own(Append(Messages(v), m))]
      /\ Appended(w, m) = [w EXCEPT !.slice = Own(Append(Messages(v), m))]
  BY <1>1 DEF Appended, Alike
<1> QED
  BY <1>2, WithOwnAlike DEF Alike

LEMMA InjectOneAlike ==
  ASSUME NEW v, NEW w, Alike(v, w), NEW tmpl
  PROVE  Alike(InjectOne(v, tmpl), InjectOne(w, tmpl))
<1>1. Messages(v) = Messages(w) /\ \A role : Places(v, role) = Places(w, role)
  <2>1. Messages(v) = Messages(w)
    BY MessagesOwn DEF Alike
  <2> QED
    BY <2>1 DEF Places
<1>2. Alike(injectPrependUser(v, tmpl.content), injectPrependUser(w, tmpl.content))
  BY <1>1, EditedAlike, AppendedAlike DEF injectPrependUser, Before
<1>3. Alike(injectAppendUser(v, tmpl.content), injectAppendUser(w, tmpl.content))
  BY <1>1, EditedAlike, AppendedAlike DEF injectAppendUser, Behind
<1>4. Alike(injectSystem(v, tmpl.content), injectSystem(w, tmpl.content))
  <2>1. CASE Places(v, "system") # {}
    BY <1>1, <2>1, EditedAlike DEF injectSystem, Before
  <2>2. CASE Places(v, "system") = {}
    BY <1>1, <2>2, WithOwnAlike DEF injectSystem, Alike
  <2> QED
    BY <2>1, <2>2
<1> QED
  BY <1>2, <1>3, <1>4 DEF InjectOne

LEMMA RunHookAlike ==
  ASSUME NEW v, NEW w, Alike(v, w), NEW h
  PROVE  Alike(RunHook(v, h), RunHook(w, h))
<1>1. CASE ~h.inPlace
  <2> DEFINE m == MarkedAll(Messages(v), h)
  <2>1. Messages(v) = Messages(w)
    BY MessagesOwn DEF Alike
  <2>2. RunHook(v, h) = [v EXCEPT !.slice = Own(m)] /\ RunHook(w, h) = [w EXCEPT !.slice = Own(m)]
    BY <1>1, <2>1 DEF RunHook
  <2> HIDE DEF m
  <2> QED
    BY <2>2, WithOwnAlike DEF Alike
<1>2. CASE h.inPlace
  <2> DEFINE m == MarkedAll(v.slice.msgs, h)
  <2>1. RunHook(v, h) = WithMsgs(v, m) /\ RunHook(w, h) = WithMsgs(w, m)
    BY <1>2 DEF RunHook, Alike, WithMsgs
  <2> HIDE DEF m
  <2> QED
    BY <2>1, WithMsgsAlike
<1> QED
  BY <1>1, <1>2

LEMMA DoAlike ==
  ASSUME NEW hooks \in BOOLEAN, NEW p, NEW v, NEW w, Alike(v, w), NEW x
  PROVE  Alike(Do(hooks, p, v, x), Do(hooks, p, w, x))
BY RunHookAlike, InjectOneAlike DEF Do

LEMMA RunsAlike ==
  ASSUME NEW f, NEW g, NEW hooks \in BOOLEAN, NEW p, NEW v, NEW w, NEW q, NEW n \in Nat,
         Runs(f, hooks, p, v, q, n), Runs(g, hooks, p, w, q, n),
         NEW k \in 0..n, Alike(f[k], g[k])
  PROVE  Alike(f[n], g[n])
<1> DEFINE T == {m \in Nat : k + m <= n => Alike(f[k + m], g[k + m])}
<1>1. 0 \in T
  OBVIOUS
<1>2. ASSUME NEW m \in T PROVE m + 1 \in T
  <2>1. SUFFICES ASSUME k + (m + 1) <= n PROVE Alike(f[k + (m + 1)], g[k + (m + 1)])
    OBVIOUS
  <2>2. Alike(f[k + m], g[k + m])
    BY <2>1
  <2>3. k + (m + 1) \in 1..n /\ (k + (m + 1)) - 1 = k + m
    BY <2>1
  <2>4. /\ f[k + (m + 1)] = Do(hooks, p, f[k + m], q[k + (m + 1)])
        /\ g[k + (m + 1)] = Do(hooks, p, g[k + m], q[k + (m + 1)])
    BY <2>3 DEF Runs
  <2> QED
    BY <2>2, <2>4, DoAlike
<1> HIDE DEF T
<1>3. T = Nat
  BY <1>1, <1>2, Induction DEF T
<1>4. n - k \in Nat /\ k + (n - k) = n /\ n <= n
  OBVIOUS
<1> QED
  BY <1>3, <1>4 DEF T

LEMMA FoldAlike ==
  ASSUME NEW hooks \in BOOLEAN, NEW p, NEW v, NEW w, Alike(v, w), NEW S, NEW q \in Seq(S)
  PROVE  Alike(Fold(hooks, p, v, q), Fold(hooks, p, w, q))
<1>1. PICK f : Runs(f, hooks, p, v, q, Len(q)) /\ Fold(hooks, p, v, q) = f[Len(q)]
  BY FoldIs
<1>2. PICK g : Runs(g, hooks, p, w, q, Len(q)) /\ Fold(hooks, p, w, q) = g[Len(q)]
  BY FoldIs
<1>3. f[0] = v /\ g[0] = w /\ Len(q) \in Nat /\ 0 \in 0..Len(q)
  BY <1>1, <1>2 DEF Runs
<1> QED
  BY <1>1, <1>2, <1>3, RunsAlike

LEMMA AlikeShows ==
  ASSUME NEW v, NEW w, Alike(v, w)
  PROVE  Messages(v) = Messages(w)
BY MessagesOwn DEF Alike

LEMMA TemplatedIs ==
  ASSUME NEW v, IsView(v), v.slice.own, NEW p, NEW S, templates \in Seq(S)
  PROVE  Messages(Inject(v, p)) = Templated(Messages(v), p, templates)
<1> DEFINE w == Alone(Messages(v))
<1>1. Alike(v, w)
  BY AloneIs, MessagesOwn DEF Alike
<1>2. Templated(Messages(v), p, templates) = Messages(Fold(FALSE, p, w, templates))
  BY DEF Templated, FoldLeft, MapThenFoldSet, Fold, Do
<1>3. Inject(v, p) = Fold(FALSE, p, v, templates)
  BY InjectIs
<1> HIDE DEF w
<1>4. Alike(Fold(FALSE, p, v, templates), Fold(FALSE, p, w, templates))
  BY <1>1, FoldAlike
<1> QED
  BY <1>2, <1>3, <1>4, AlikeShows

LEMMA FoldEmpty ==
  ASSUME NEW hooks, NEW p, NEW v
  PROVE  Fold(hooks, p, v, <<>>) = v
<1>1. <<>> \in Seq({}) /\ Len(<<>>) = 0
  OBVIOUS
<1>2. PICK f : Runs(f, hooks, p, v, <<>>, Len(<<>>)) /\ Fold(hooks, p, v, <<>>) = f[Len(<<>>)]
  BY <1>1, FoldIs
<1> QED
  BY <1>1, <1>2 DEF Runs

LEMMA HookedNone ==
  ASSUME NEW msgs
  PROVE  Hooked(msgs, <<>>) = msgs
<1>1. ApplyBefore(Alone(msgs), <<>>) = Alone(msgs)
  BY FoldEmpty, ApplyBeforeIs
<1> QED
  BY <1>1, AloneIs, MessagesOwn DEF Hooked

\* The hooks of a call see its messages, and nothing else of the view, if the
\* first one finds an array of the call's own or makes one.
LEMMA HookedIs ==
  ASSUME NEW v, IsView(v), NEW S, NEW q \in Seq(S), v.slice.own \/ (q # <<>> => ~q[1].inPlace)
  PROVE  Messages(ApplyBefore(v, q)) = Hooked(Messages(v), q)
<1> DEFINE w == Alone(Messages(v))
<1>1. IsView(w) /\ w.slice.own /\ w.slice.msgs = Messages(v) /\ Messages(w) = Messages(v)
  BY AloneIs, MessagesOwn
<1>2. ApplyBefore(v, q) = Fold(TRUE, 1, v, q) /\ Hooked(Messages(v), q) = Messages(Fold(TRUE, 1, w, q))
  BY ApplyBeforeIs DEF Hooked
<1> HIDE DEF w
<1>3. CASE v.slice.own
  <2>1. Alike(v, w)
    BY <1>1, <1>3, MessagesOwn DEF Alike
  <2>2. Alike(Fold(TRUE, 1, v, q), Fold(TRUE, 1, w, q))
    BY <2>1, FoldAlike
  <2> QED
    BY <1>2, <2>2, AlikeShows
<1>4. CASE q = <<>>
  <2>1. Fold(TRUE, 1, v, q) = v /\ Fold(TRUE, 1, w, q) = w
    BY <1>4, FoldEmpty
  <2> QED
    BY <1>1, <1>2, <2>1
<1>5. CASE q # <<>> /\ ~q[1].inPlace
  <2>1. PICK f : Runs(f, TRUE, 1, v, q, Len(q)) /\ Fold(TRUE, 1, v, q) = f[Len(q)]
    BY FoldIs
  <2>2. PICK g : Runs(g, TRUE, 1, w, q, Len(q)) /\ Fold(TRUE, 1, w, q) = g[Len(q)]
    BY FoldIs
  <2>3. 1 \in 1..Len(q) /\ 1 \in 0..Len(q) /\ Len(q) \in Nat /\ 1 - 1 = 0
    BY <1>5
  <2>4. f[1] = RunHook(v, q[1]) /\ g[1] = RunHook(w, q[1])
    BY <2>1, <2>2, <2>3 DEF Runs, Do
  <2>5. Alike(f[1], g[1])
    <3> DEFINE m == MarkedAll(Messages(v), q[1])
    <3>1. RunHook(v, q[1]) = [v EXCEPT !.slice = Own(m)] /\ RunHook(w, q[1]) = [w EXCEPT !.slice = Own(m)]
      BY <1>1, <1>5 DEF RunHook
    <3> HIDE DEF m
    <3> QED
      BY <1>1, <2>4, <3>1, WithOwnAlike
  <2>6. Alike(f[Len(q)], g[Len(q)])
    BY <2>1, <2>2, <2>3, <2>5, RunsAlike
  <2> QED
    BY <1>2, <2>1, <2>2, <2>6, AlikeShows
<1> QED
  BY <1>3, <1>4, <1>5

-----------------------------------------------------------------------------
(* The flow of a request through the steps of its call                     *)

LEMMA CloneShows ==
  ASSUME NEW v, IsView(v)
  PROVE  Messages(Clone(v)) = Messages(v)
<1>1. [v EXCEPT !.slice = Own(Messages(v))].slice = Own(Messages(v))
  BY DEF IsView
<1>2. Own(Messages(v)).own /\ Own(Messages(v)).msgs = Messages(v)
  BY DEF Own
<1> QED
  BY <1>1, <1>2, MessagesOwn DEF Clone

LEMMA ShownIs ==
  ASSUME NEW v, IsView(v)
  PROVE  Shown(v.slice, v.cells) = Messages(v)
BY DEF Shown, IsView

\* What a slice shows does not depend on the cells behind the array.
LEMMA ShownSame ==
  ASSUME NEW s, NEW a, NEW b, NEW msgs, SubSeq(a, 1, Len(msgs)) = msgs, SubSeq(b, 1, Len(msgs)) = msgs,
         s.own \/ s.len = Len(msgs)
  PROVE  Shown(s, a) = Shown(s, b)
BY DEF Shown, Messages

LEMMA ContentOfGiven ==
  ASSUME SubSeq(cells, 1, Len(given)) = given, NEW s, ~s.own, s.len = Len(given)
  PROVE  Content(s) = given
BY DEF Content, Shown, Messages

\* All that a step does not change of a call.
Elsewhere(d) ==
  /\ at'[d] = at[d] /\ base'[d] = base[d] /\ ran'[d] = ran[d] /\ order'[d] = order[d]
  /\ \A i \in Turns : leg'[d][i] = leg[d][i]

Given == kind' = kind /\ degraded' = degraded /\ given' = given /\ listed' = listed

LEMMA GivenIs ==
  ASSUME Given, NEW d \in Calls
  PROVE  Single(d)' = Single(d) /\ Early(d)' = Early(d) /\ Late(d)' = Late(d) /\ Original(d)' = Original(d)
BY DEF Given, Single, Early, Late, Original, ToCoreRequest, convertMessage

LEMMA LegsElsewhere ==
  ASSUME NEW d \in Calls, Legs(d), Given, Elsewhere(d)
  PROVE  Legs(d)'
BY GivenIs DEF Legs, Elsewhere, Given

\* A leg that a step leaves alone shows what it has shown.
LEMMA LegElsewhere ==
  ASSUME Intact, Intact', Given, NEW d \in Calls, NEW i \in Turns, NEW early, LegFlow(d, i, early),
         base'[d] = base[d], ran'[d] = ran[d], order'[d] = order[d], leg'[d][i] = leg[d][i]
  PROVE  LegFlow(d, i, early)'
<1>1. SubSeq(cells, 1, Len(given)) = given /\ SubSeq(cells', 1, Len(given)) = given
  BY DEF Intact, Given
<1>2. Shown(base[d], cells') = Shown(base[d], cells)
  BY <1>1, ShownSame DEF Intact
<1>3. leg[d][i].stage \in {"inject", "hook", "ready"} =>
        Shown(leg[d][i].slice, cells') = Shown(leg[d][i].slice, cells)
  BY <1>1, ShownSame DEF Intact
<1>4. Single(d)' = Single(d) /\ Late(d)' = Late(d) /\ Original(d)' = Original(d)
  BY GivenIs
<1> QED
  BY <1>1, <1>2, <1>3, <1>4 DEF LegFlow, Sent, Content

LEMMA FlowElsewhere ==
  ASSUME Intact, Intact', Given, NEW d \in Calls, Flow(d), Elsewhere(d)
  PROVE  Flow(d)'
<1>1. SubSeq(cells, 1, Len(given)) = given /\ SubSeq(cells', 1, Len(given)) = given
  BY DEF Intact, Given
<1>2. Shown(base[d], cells') = Shown(base[d], cells)
  BY <1>1, ShownSame DEF Intact
<1>3. Early(d)' = Early(d) /\ Original(d)' = Original(d)
  BY GivenIs
<1>4. ASSUME NEW early, BaseFlow(d, early)
      PROVE  BaseFlow(d, early)'
  <2>1. at'[d] # "route" => \A i \in Turns \cap DOMAIN order'[d] : LegFlow(d, i, early)'
    BY <1>4, LegElsewhere DEF BaseFlow, Elsewhere
  <2> QED
    BY <1>2, <1>3, <1>4, <2>1 DEF BaseFlow, Elsewhere, Content
<1> QED
  BY <1>2, <1>3, <1>4 DEF Flow, Elsewhere, Content, Given

\* The proof that a step keeps the flow comes down to its own call.
LEMMA FlowOfOne ==
  ASSUME CopiesInv, CopiesInv', FlowInv, Given, Tamperers \subseteq Tamperers', NEW c \in Calls,
         \A d \in Calls : d # c => Elsewhere(d),
         Fun(order', Calls), Legs(c)',
         given # <<>> /\ Tamperers' = {} => Flow(c)'
  PROVE  FlowInv'
<1>1. \A d \in Calls : Legs(d)'
  BY LegsElsewhere DEF FlowInv
<1>2. ASSUME given # <<>>, Tamperers' = {}, NEW d \in Calls
      PROVE  Flow(d)'
  <2>1. Intact /\ Intact' /\ (d # c => Flow(d))
    BY <1>2 DEF CopiesInv, FlowInv, Given
  <2> QED
    BY <1>2, <2>1, FlowElsewhere
<1> QED
  BY <1>1, <1>2 DEF FlowInv, Given

LEMMA InitFlow ==
  ASSUME RequestInit
  PROVE  FlowInv
<1>1. CopiesInv
  BY InitCopies
<1>2. Fun(order, Calls)
  BY DEF RequestInit, Fun
<1>3. ASSUME NEW c \in Calls
      PROVE  /\ at[c] = "new" /\ base[c] = Shared(Len(given))
             /\ \A i \in Turns : leg[c][i].stage = "idle"
  BY DEF RequestInit, Idle
<1>4. \A c \in Calls : Legs(c)
  BY <1>3 DEF Legs
<1>5. ASSUME given # <<>>, Tamperers = {}, NEW c \in Calls PROVE Flow(c)
  <2>1. Content(base[c]) = given
    BY <1>1, <1>3, <1>5, SharedIs, ContentOfGiven DEF CopiesInv, Intact
  <2> QED
    BY <1>3, <2>1 DEF Flow
<1> QED
  BY <1>2, <1>4, <1>5 DEF FlowInv

\* The labels of a call that starts.
LEMMA Starts ==
  ASSUME Fun(at, Calls), NEW c \in Calls, Start(c)
  PROVE  /\ at[c] = "new" /\ at'[c] \in {"refused", "before", "route"}
         /\ at'[c] = "before" => kind[c] \in {"fallback", "dual"}
         /\ at'[c] = "route" => kind[c] \notin {"fallback", "dual"}
         /\ \A d \in Calls : d # c => at'[d] = at[d]
<1> DEFINE to == IF avail = {} \/ (kind[c] = "audit" /\ Cardinality(avail) < 2) THEN "refused"
                 ELSE IF kind[c] \in {"fallback", "dual"} THEN "before" ELSE "route"
<1>1. Proceed(c, "new", to)
  BY DEF Start
<1>2. /\ to \in {"refused", "before", "route"}
      /\ to = "before" => kind[c] \in {"fallback", "dual"}
      /\ to = "route" => kind[c] \notin {"fallback", "dual"}
  OBVIOUS
<1> HIDE DEF to
<1> QED
  BY <1>1, <1>2, ProceedIs

LEMMA StartFlow ==
  ASSUME CopiesInv, CopiesInv', FlowInv, NEW c \in Calls, Start(c)
  PROVE  FlowInv'
<1>1. /\ at[c] = "new" /\ at'[c] \in {"refused", "before", "route"}
      /\ at'[c] = "before" => kind[c] \in {"fallback", "dual"}
      /\ at'[c] = "route" => kind[c] \notin {"fallback", "dual"}
      /\ \A d \in Calls : d # c => at'[d] = at[d]
  BY Starts DEF CopiesInv, RequestShape
<1>2. Fun(base, Calls) /\ Puts(base', base, c, RequestOf(c))
  BY DEF CopiesInv, RequestShape, Start, Puts
<1>3. base'[c] = RequestOf(c) /\ \A d \in Calls : d # c => base'[d] = base[d]
  BY <1>2, FunExcept
<1>4. Given /\ cells' = cells /\ ran' = ran /\ order' = order /\ leg' = leg
  BY DEF Start, Given, config, routing
<1>5. Legs(c)'
  <2>1. \A i \in Turns : leg'[c][i].stage = "idle"
    BY <1>1, <1>4 DEF FlowInv, Legs
  <2> QED
    BY <1>1, <1>4, <2>1 DEF Legs, Given
<1>6. ASSUME given # <<>>, Tamperers' = {} PROVE Flow(c)'
  <2>1. Tamperers = {}
    BY <1>4, <1>6, TamperersStay DEF Given
  <2>2. ran[c] = <<>> /\ Content(base[c]) = given /\ IsSlice(base[c])
    BY <1>1, <1>6, <2>1 DEF CopiesInv, HooksToCome, RequestShape, FlowInv, Flow
  <2>3. CASE kind[c] = "fallback"
    <3>1. IsView(View(base[c]))
      BY <2>2, ViewIs
    <3>2. IsView(Clone(View(base[c]))) /\ Clone(View(base[c])).cells = cells
      BY <3>1, CloneKeeps, ViewIs, <2>2
    <3>3. Shown(base'[c], cells) = Messages(View(base[c]))
      BY <1>3, <2>3, <3>1, <3>2, ShownIs, CloneShows DEF RequestOf
    <3>4. Shown(base'[c], cells) = given
      BY <2>2, <3>3 DEF Content, Shown, View
    <3> QED
      BY <1>1, <1>4, <2>3, <3>4 DEF Flow, Content, Given
  <2>4. CASE kind[c] = "post"
    <3>1. Shown(base'[c], cells) = ToCoreRequest
      BY <1>3, <2>4 DEF RequestOf, Shown, Messages, Own
    <3>2. CASE at'[c] = "route"
      <4>1. BaseFlow(c, <<>>)' /\ <<>> \in Early(c)'
        BY <1>1, <1>4, <2>2, <2>4, <3>1, <3>2, HookedNone, GivenIs DEF BaseFlow, Original, Content, Early
      <4> QED
        BY <3>2, <4>1 DEF Flow
    <3> QED
      BY <1>1, <2>4, <3>2 DEF Flow, Given
  <2>5. CASE kind[c] \notin {"post", "fallback"}
    <3>1. Shown(base'[c], cells) = given
      BY <1>3, <2>2, <2>5 DEF RequestOf, Content
    <3>2. CASE at'[c] = "before"
      BY <1>1, <1>4, <3>1, <3>2 DEF Flow, Content, Given
    <3>3. CASE at'[c] = "route"
      <4>1. BaseFlow(c, <<>>)' /\ <<>> \in Early(c)'
        BY <1>1, <1>4, <2>2, <2>5, <3>1, <3>3, HookedNone, GivenIs DEF BaseFlow, Original, Content, Early, Given
      <4> QED
        BY <3>3, <4>1 DEF Flow
    <3> QED
      BY <1>1, <3>2, <3>3 DEF Flow
  <2> QED
    BY <2>3, <2>4, <2>5
<1>7. \A d \in Calls : d # c => Elsewhere(d)
  BY <1>1, <1>3, <1>4 DEF Elsewhere
<1> QED
  BY <1>4, <1>5, <1>6, <1>7, TamperersStay, FlowOfOne DEF Given, FlowInv

LEMMA BeforeAllFlow ==
  ASSUME CopiesInv, CopiesInv', FlowInv, NEW c \in Calls, BeforeAll(c)
  PROVE  FlowInv'
<1> DEFINE v == ApplyBefore(View(base[c]), chain)
<1>1. at[c] = "before" /\ at'[c] = "route" /\ \A d \in Calls : d # c => at'[d] = at[d]
  BY ProceedIs DEF BeforeAll, CopiesInv, RequestShape
<1>2. /\ Puts(base', base, c, v.slice) /\ cells' = v.cells /\ ran' = [ran EXCEPT ![c] = @ \o chain]
      /\ leg' = leg /\ order' = order /\ Given
  BY DEF BeforeAll, config, routing, Puts, Given
<1>3. chain \in Seq(AllHooks) /\ chain \in Chains /\ kind' = kind
  BY <1>2, ChainType DEF CopiesInv, RequestShape, Given
<1>4. base'[c] = v.slice /\ \A d \in Calls : d # c => base'[d] = base[d]
  BY <1>2, FunExcept DEF CopiesInv, RequestShape
<1>5. /\ Tamperers \subseteq Tamperers' /\ \A d \in Calls : d # c => ran'[d] = ran[d]
      /\ kind[c] = "dual" /\ ran[c] = <<>> /\ chain # <<>> /\ chain[1].inPlace => c \in Tamperers'
  BY <1>2, <1>3, RanGrows DEF CopiesInv
<1>6. ran[c] = <<>> /\ ran'[c] = chain
  <2>1. ran[c] = <<>> /\ ran \in [Calls -> Seq(AllHooks)]
    BY <1>1 DEF CopiesInv, RequestShape, HooksToCome
  <2> QED
    BY <1>2, <1>3, <2>1
<1>7. Legs(c) /\ kind[c] \in {"fallback", "dual"}
  BY <1>1 DEF FlowInv, Legs
<1>8. Legs(c)'
  BY <1>1, <1>2, <1>7 DEF Legs
<1>9. ASSUME given # <<>>, Tamperers' = {} PROVE Flow(c)'
  <2>1. Content(base[c]) = given /\ IsSlice(base[c]) /\ (kind[c] # "dual" => base[c].own)
    BY <1>1, <1>5, <1>9 DEF CopiesInv, RequestShape, Intact, FlowInv, Flow
  <2>2. IsView(View(base[c])) /\ View(base[c]).slice = base[c] /\ Messages(View(base[c])) = given
    BY <2>1, ViewIs DEF Content, Shown, View
  <2>3. base[c].own \/ (chain # <<>> => ~chain[1].inPlace)
    BY <1>5, <1>6, <1>9, <2>1
  <2>4. IsView(v)
    BY <1>3, <2>2, FoldKeeps, ApplyBeforeIs DEF Keeps
  <2>5. Messages(v) = Hooked(given, chain)
    BY <1>3, <2>2, <2>3, HookedIs
  <2> HIDE DEF v
  <2>6. Shown(base'[c], cells') = Hooked(given, chain)
    BY <1>2, <1>4, <2>4, <2>5, ShownIs
  <2>7. PICK early \in Chains : early = chain
    BY <1>3
  <2>8. BaseFlow(c, early)' /\ early \in Early(c)'
    BY <1>1, <1>2, <1>3, <1>6, <1>7, <2>6, <2>7, GivenIs DEF BaseFlow, Content, Original, Early, Given
  <2> QED
    BY <1>1, <2>8 DEF Flow
<1>10. \A d \in Calls : d # c => Elsewhere(d)
  BY <1>1, <1>2, <1>4, <1>5 DEF Elsewhere
<1> HIDE DEF v
<1> QED
  BY <1>2, <1>5, <1>8, <1>9, <1>10, FlowOfOne DEF FlowInv

LEMMA BeforeFailsFlow ==
  ASSUME CopiesInv, CopiesInv', FlowInv, NEW c \in Calls, BeforeFails(c)
  PROVE  FlowInv'
<1>1. base' = base /\ leg' = leg /\ order' = order /\ Puts(at', at, c, "refused") /\ Given /\ kind' = kind
  BY DEF BeforeFails, config, routing, Puts, Given
<1>2. at'[c] = "refused" /\ \A d \in Calls : d # c => at'[d] = at[d]
  BY <1>1, FunExcept DEF CopiesInv, RequestShape
<1>3. \A d \in Calls : d # c => ran'[d] = ran[d]
  BY DEF BeforeFails, CopiesInv, RequestShape
<1>4. Tamperers \subseteq Tamperers'
  <2>1. PICK hooks \in Broken : ran' = [ran EXCEPT ![c] = @ \o hooks]
    BY DEF BeforeFails
  <2>2. hooks \in Seq(AllHooks)
    BY BrokenType DEF CopiesInv, RequestShape
  <2> QED
    BY <1>1, <2>1, <2>2, RanGrows DEF CopiesInv
<1>5. \A j \in Turns : leg[c][j].stage # "ready"
  <2>1. CASE at[c] = "before"
    BY <2>1 DEF FlowInv, Legs
  <2>2. CASE at[c] = "legs" /\ \E i \in Turns : leg[c][i].stage = "hook"
    <3>1. PICK i \in Turns : leg[c][i].stage = "hook"
      BY <2>2
    <3>2. \A j \in Turns : leg[c][j].stage # "idle" => j = i
      BY <2>2, <3>1 DEF FlowInv, Legs
    <3> QED
      BY <3>1, <3>2
  <2> QED
    BY <2>1, <2>2 DEF BeforeFails
<1>6. Legs(c)'
  <2>1. \A i \in Turns : (leg[c][i].stage # "idle" => i \in DOMAIN order[c]) /\ (leg[c][i].stage = "hook" => Single(c)')
    BY <1>1, GivenIs DEF FlowInv, Legs
  <2> QED
    BY <1>1, <1>2, <1>5, <2>1 DEF Legs
<1>7. Flow(c)'
  BY <1>2 DEF Flow
<1>8. \A d \in Calls : d # c => Elsewhere(d)
  BY <1>1, <1>2, <1>3 DEF Elsewhere
<1> QED
  BY <1>1, <1>4, <1>6, <1>7, <1>8, FlowOfOne DEF FlowInv

LEMMA RouteFlow ==
  ASSUME CopiesInv, CopiesInv', FlowInv, NEW c \in Calls,
         RouteOne(c) \/ RouteFallback(c) \/ RoutePair(c) \/ RouteAudit(c)
  PROVE  FlowInv'
<1>1. /\ at[c] = "route" /\ Puts(at', at, c, "legs")
      /\ base' = base /\ leg' = leg /\ ran' = ran /\ cells' = cells /\ Given
  BY DEF RouteOne, RouteFallback, RoutePair, RouteAudit, Ask, Proceed, config, routing, Puts, Given
<1>2. \E q : Puts(order', order, c, q) /\ (Single(c) => \A i \in DOMAIN q : i = 1)
  <2>1. CASE RouteOne(c)
    <3>1. PICK p : order' = [order EXCEPT ![c] = <<p>>]
      BY <2>1 DEF RouteOne, Ask
    <3>2. \A i \in DOMAIN <<p>> : i = 1
      OBVIOUS
    <3> QED
      BY <3>1, <3>2 DEF Puts
  <2>2. CASE RouteFallback(c) \/ RoutePair(c) \/ RouteAudit(c)
    <3>1. ~Single(c)
      BY <2>2 DEF RouteFallback, RoutePair, RouteAudit, Single
    <3>2. PICK q : order' = [order EXCEPT ![c] = q]
      BY <2>2 DEF RouteFallback, RoutePair, RouteAudit, Ask
    <3> QED
      BY <3>1, <3>2 DEF Puts
  <2> QED
    BY <2>1, <2>2
<1>3. PICK q : Puts(order', order, c, q) /\ (Single(c) => \A i \in DOMAIN q : i = 1)
  BY <1>2
<1>4. Fun(order', Calls) /\ order'[c] = q /\ \A d \in Calls : d # c => order'[d] = order[d]
  BY <1>3, FunExcept DEF FlowInv
<1>5. at'[c] = "legs" /\ \A d \in Calls : d # c => at'[d] = at[d]
  BY <1>1, FunExcept DEF CopiesInv, RequestShape
<1>6. \A i \in Turns : leg'[c][i].stage = "idle"
  BY <1>1 DEF FlowInv, Legs
<1>7. Legs(c)'
  BY <1>1, <1>3, <1>4, <1>5, <1>6, GivenIs DEF Legs
<1>8. ASSUME given # <<>>, Tamperers' = {} PROVE Flow(c)'
  <2>1. Tamperers = {}
    BY <1>1, <1>8, TamperersStay DEF Given
  <2>2. PICK early \in Early(c) : BaseFlow(c, early)
    BY <1>1, <1>8, <2>1 DEF FlowInv, Flow
  <2>3. \A i \in Turns : LegFlow(c, i, early)'
    BY <1>1, <1>6, <2>2 DEF LegFlow, BaseFlow
  <2>4. BaseFlow(c, early)' /\ early \in Early(c)'
    BY <1>1, <1>5, <2>2, <2>3, GivenIs DEF BaseFlow, Content
  <2> QED
    BY <1>5, <2>4 DEF Flow
<1>9. \A d \in Calls : d # c => Elsewhere(d)
  BY <1>1, <1>4, <1>5 DEF Elsewhere
<1> QED
  BY <1>1, <1>4, <1>7, <1>8, <1>9, TamperersStay, FlowOfOne DEF Given

LEMMA RoutePanicsFlow ==
  ASSUME CopiesInv, CopiesInv', FlowInv, NEW c \in Calls, RoutePanics(c)
  PROVE  FlowInv'
<1>1. /\ at[c] = "route" /\ Puts(at', at, c, "refused")
      /\ base' = base /\ leg' = leg /\ ran' = ran /\ order' = order /\ Given
  BY DEF RoutePanics, Proceed, config, Puts, Given
<1>2. at'[c] = "refused" /\ \A d \in Calls : d # c => at'[d] = at[d]
  BY <1>1, FunExcept DEF CopiesInv, RequestShape
<1>3. Legs(c)'
  BY <1>1, <1>2 DEF FlowInv, Legs
<1>4. Flow(c)'
  BY <1>2 DEF Flow
<1>5. \A d \in Calls : d # c => Elsewhere(d)
  BY <1>1, <1>2 DEF Elsewhere
<1> QED
  BY <1>1, <1>3, <1>4, <1>5, TamperersStay, FlowOfOne DEF FlowInv, Given

\* A dual call that goes on as a chat has no copies yet.  The hooks that it
\* has run are those of a dual call.
LEMMA DegradeFlow ==
  ASSUME CopiesInv, CopiesInv', FlowInv, NEW c \in Calls, Degrade(c)
  PROVE  FlowInv'
<1>1. /\ at[c] = "route" /\ at' = at /\ base' = base /\ leg' = leg /\ ran' = ran /\ order' = order
      /\ cells' = cells /\ kind' = kind /\ given' = given /\ listed' = listed /\ templates' = templates
      /\ degraded' = degraded \cup {c}
  BY DEF Degrade, config
<1>2. /\ \A d \in Calls : Early(d)' = Early(d) /\ Original(d)' = Original(d)
      /\ \A d \in Calls : d # c => Single(d)' = Single(d) /\ Late(d)' = Late(d)
  BY <1>1 DEF Early, Original, ToCoreRequest, convertMessage, Late, Single
<1>3. ASSUME NEW d \in Calls PROVE Legs(d)'
  <2>1. CASE d = c
    BY <1>1, <2>1 DEF FlowInv, Legs
  <2>2. CASE d # c
    BY <1>1, <1>2, <2>2 DEF FlowInv, Legs
  <2> QED
    BY <2>1, <2>2
<1>4. Tamperers' = Tamperers
  BY <1>1, TamperersStay
<1>5. ASSUME given # <<>>, Tamperers' = {}, NEW d \in Calls PROVE Flow(d)'
  <2>1. Flow(d)
    BY <1>4, <1>5 DEF FlowInv
  <2>2. CASE d = c
    <3>1. PICK early \in Early(c) : BaseFlow(c, early)
      BY <1>1, <2>1, <2>2 DEF Flow
    <3>2. BaseFlow(c, early)'
      BY <1>1, <1>2, <3>1 DEF BaseFlow, Content
    <3> QED
      BY <1>1, <1>2, <2>2, <3>1, <3>2 DEF Flow
  <2>3. CASE d # c
    <3>1. ASSUME NEW early, BaseFlow(d, early) PROVE BaseFlow(d, early)'
      <4>1. ASSUME NEW i \in Turns, LegFlow(d, i, early) PROVE LegFlow(d, i, early)'
        BY <1>1, <1>2, <2>3, <4>1 DEF LegFlow, Sent, Content
      <4> QED
        BY <1>1, <1>2, <3>1, <4>1 DEF BaseFlow, Content
    <3> QED
      BY <1>1, <1>2, <2>1, <3>1 DEF Flow, Content
  <2> QED
    BY <2>2, <2>3
<1> QED
  BY <1>1, <1>3, <1>5 DEF FlowInv

\* A step of the leg i of the call c, to l.
LegStepsOn(c, i, l) ==
  /\ PutsLeg(c, i, l)
  /\ at[c] = "legs" /\ at'[c] \in {"legs", "done"}
  /\ \A d \in Calls : d # c => at'[d] = at[d] /\ ran'[d] = ran[d]
  /\ base' = base /\ order' = order /\ Given /\ Tamperers \subseteq Tamperers'
  /\ ran'[c] = ran[c] \/ Single(c)
  /\ i \in DOMAIN order[c]
  /\ l.stage = "hook" => Single(c)

LEMMA LegFlows ==
  ASSUME CopiesInv, CopiesInv', FlowInv, NEW c \in Calls, NEW i \in Turns, NEW l, LegStepsOn(c, i, l),
         \A early \in Early(c) :
           given # <<>> /\ Tamperers = {} /\ BaseFlow(c, early) /\ LegFlow(c, i, early) => LegFlow(c, i, early)'
  PROVE  FlowInv'
<1>1. /\ leg'[c][i] = l
      /\ \A d \in Calls, j \in Turns : <<d, j>> # <<c, i>> => leg'[d][j] = leg[d][j]
  BY LegMoves DEF LegStepsOn, CopiesInv, RequestShape
<1>2. Given /\ base' = base /\ order' = order /\ at[c] = "legs" /\ at'[c] \in {"legs", "done"} /\ i \in DOMAIN order[c]
  BY DEF LegStepsOn
<1>3. Legs(c)'
  <2>1. Single(c)' = Single(c) /\ (Single(c) => \A j \in DOMAIN order[c] : j = 1)
    BY <1>2, GivenIs DEF FlowInv, Legs
  <2>2. \A j \in Turns : /\ leg'[c][j].stage # "idle" => j \in DOMAIN order[c]
                         /\ leg'[c][j].stage = "hook" => Single(c)
    BY <1>1, <1>2 DEF FlowInv, Legs, LegStepsOn
  <2> QED
    BY <1>2, <2>1, <2>2 DEF Legs
<1>4. ASSUME given # <<>>, Tamperers' = {} PROVE Flow(c)'
  <2>1. Tamperers = {} /\ Intact /\ Intact'
    BY <1>2, <1>4 DEF CopiesInv, LegStepsOn, Given
  <2>2. PICK early \in Early(c) : BaseFlow(c, early)
    BY <1>2, <1>4, <2>1 DEF FlowInv, Flow
  <2>3. ASSUME NEW j \in Turns \cap DOMAIN order[c] PROVE LegFlow(c, j, early)'
    <3>1. LegFlow(c, j, early)
      BY <1>2, <2>2 DEF BaseFlow
    <3>2. CASE j = i
      BY <1>4, <2>1, <2>2, <3>1, <3>2
    <3>3. CASE j # i
      <4>1. ~Single(c)
        BY <1>2, <3>3 DEF FlowInv, Legs
      <4>2. ran'[c] = ran[c] /\ leg'[c][j] = leg[c][j]
        BY <1>1, <3>3, <4>1 DEF LegStepsOn
      <4> QED
        BY <1>2, <2>1, <3>1, <4>2, LegElsewhere
    <3> QED
      BY <3>2, <3>3
  <2>4. SubSeq(cells, 1, Len(given)) = given /\ SubSeq(cells', 1, Len(given)) = given
    BY <1>2, <2>1 DEF Intact, Given
  <2>5. Shown(base[c], cells') = Shown(base[c], cells)
    BY <2>1, <2>4, ShownSame DEF Intact
  <2>6. BaseFlow(c, early)' /\ early \in Early(c)'
    BY <1>2, <2>2, <2>3, <2>5, GivenIs DEF BaseFlow, Content
  <2> QED
    BY <1>2, <2>6 DEF Flow
<1>5. \A d \in Calls : d # c => Elsewhere(d)
  BY <1>1 DEF Elsewhere, LegStepsOn
<1> QED
  BY <1>2, <1>3, <1>4, <1>5, FlowOfOne DEF FlowInv, LegStepsOn

LEMMA CloneLegFlow ==
  ASSUME CopiesInv, CopiesInv', FlowInv, NEW c \in Calls, NEW i \in Turns, CloneLeg(c, i)
  PROVE  FlowInv'
<1> DEFINE v == Clone(View(base[c]))
           l == [stage |-> "inject", slice |-> v.slice, list |-> leg[c][i].list]
<1>1. /\ at[c] = "legs" /\ at' = at /\ ran' = ran /\ base' = base /\ order' = order /\ Given
      /\ cells' = v.cells /\ leg[c][i].stage = "idle" /\ i \in DOMAIN order[c] /\ PutsLeg(c, i, l)
  BY DEF CloneLeg, Step, Turn, config, routing, Given, PutsLeg
<1>2. IsView(View(base[c])) /\ View(base[c]).cells = cells
  BY ViewIs DEF CopiesInv, RequestShape
<1>3. IsView(v) /\ v.cells = cells /\ Messages(v) = Shown(base[c], cells)
  BY <1>2, CloneKeeps, CloneShows DEF View, Shown
<1>4. Shown(l.slice, cells') = Shown(base[c], cells) /\ l.stage = "inject"
  BY <1>1, <1>3, ShownIs
<1>5. leg'[c][i] = l
  BY <1>1, LegMoves DEF CopiesInv, RequestShape
<1> HIDE DEF l, v
<1>6. LegStepsOn(c, i, l)
  BY <1>1, <1>4, TamperersStay DEF LegStepsOn, Given
<1>7. ASSUME NEW early \in Early(c), LegFlow(c, i, early) PROVE LegFlow(c, i, early)'
  BY <1>1, <1>3, <1>4, <1>5, <1>7 DEF LegFlow, Content
<1> QED
  BY <1>6, <1>7, LegFlows

LEMMA InjectLegFlow ==
  ASSUME CopiesInv, CopiesInv', FlowInv, NEW c \in Calls, NEW i \in Turns, InjectLeg(c, i)
  PROVE  FlowInv'
<1> DEFINE v == Inject(View(leg[c][i].slice), order[c][i])
           l == [stage |-> IF Single(c) THEN "hook" ELSE "ready", slice |-> v.slice, list |-> templates]
<1>1. /\ at[c] = "legs" /\ at' = at /\ ran' = ran /\ base' = base /\ order' = order /\ Given
      /\ cells' = v.cells /\ leg[c][i].stage = "inject" /\ i \in DOMAIN order[c] /\ PutsLeg(c, i, l)
  BY DEF InjectLeg, config, routing, Given, PutsLeg
<1>2. IsSlice(leg[c][i].slice) /\ templates \in Seq(AllTemplates)
  BY DEF CopiesInv, RequestShape, IsLeg
<1>3. IsView(View(leg[c][i].slice)) /\ View(leg[c][i].slice).slice = leg[c][i].slice
      /\ View(leg[c][i].slice).cells = cells
  BY <1>2, ViewIs
<1>4. Keeps(View(leg[c][i].slice), v)
  BY <1>2, <1>3, FoldKeeps, InjectIs
<1>5. leg'[c][i] = l /\ l.slice = v.slice /\ l.list = templates
      /\ l.stage = (IF Single(c) THEN "hook" ELSE "ready")
  BY <1>1, LegMoves DEF CopiesInv, RequestShape
<1>6. ASSUME given # <<>>, Tamperers = {}
      PROVE  Shown(l.slice, cells') = Templated(Shown(leg[c][i].slice, cells), order[c][i], templates)
  <2>1. leg[c][i].slice.own
    BY <1>1, <1>6 DEF CopiesInv, Intact
  <2>2. Messages(v) = Templated(Messages(View(leg[c][i].slice)), order[c][i], templates)
    BY <1>2, <1>3, <2>1, TemplatedIs
  <2>3. Shown(v.slice, v.cells) = Messages(v)
    BY <1>4, ShownIs DEF Keeps
  <2> HIDE DEF v
  <2> QED
    BY <1>1, <2>2, <2>3 DEF Shown, View
<1> HIDE DEF l, v
<1>7. LegStepsOn(c, i, l)
  BY <1>1, <1>5, TamperersStay DEF LegStepsOn, Given
<1>8. ASSUME NEW early \in Early(c), given # <<>>, Tamperers = {}, BaseFlow(c, early), LegFlow(c, i, early)
      PROVE  LegFlow(c, i, early)'
  <2>1. ran[c] = early /\ Shown(leg[c][i].slice, cells) = Shown(base[c], cells)
    BY <1>1, <1>8 DEF LegFlow, Content
  <2>2. Shown(base[c], cells) = Shown(base[c], cells')
    <3>1. Intact /\ Intact' /\ given' = given
      BY <1>1, <1>6, <1>8, TamperersStay DEF CopiesInv, Given
    <3> QED
      BY <3>1, ShownSame DEF Intact
  <2>3. Shown(leg'[c][i].slice, cells') = Templated(Shown(base[c], cells), order[c][i], templates)
    BY <1>5, <1>6, <1>8, <2>1
  <2>4. CASE Single(c)
    BY <1>1, <1>5, <2>1, <2>2, <2>3, <2>4, GivenIs DEF LegFlow, Content
  <2>5. CASE ~Single(c)
    <3>1. Late(c)' = {<<>>} /\ Original(c)' = Original(c)
      BY <1>1, <2>5, GivenIs DEF Late
    <3>2. ran \in [Calls -> Seq(AllHooks)] /\ early = early \o <<>>
      <4>1. ran[c] \in Seq(AllHooks)
        BY DEF CopiesInv, RequestShape
      <4> QED
        BY <2>1, <4>1 DEF CopiesInv, RequestShape
    <3>3. Sent(c, i, early, <<>>)'
      BY <1>1, <1>5, <1>8, <2>1, <2>3, <3>1, <3>2, HookedNone DEF Sent, Content, BaseFlow
    <3> QED
      BY <1>1, <1>5, <2>1, <2>5, <3>1, <3>3 DEF LegFlow
  <2> QED
    BY <2>4, <2>5
<1> QED
  BY <1>7, <1>8, LegFlows

LEMMA HookLegFlow ==
  ASSUME CopiesInv, CopiesInv', FlowInv, NEW c \in Calls, NEW i \in Turns, HookLeg(c, i)
  PROVE  FlowInv'
<1> DEFINE v == ApplyBefore(View(leg[c][i].slice), chain)
           l == [stage |-> "ready", slice |-> v.slice, list |-> leg[c][i].list]
<1>1. /\ at[c] = "legs" /\ at' = at /\ ran' = [ran EXCEPT ![c] = @ \o chain] /\ base' = base /\ order' = order
      /\ Given /\ cells' = v.cells /\ leg[c][i].stage = "hook" /\ i \in DOMAIN order[c] /\ PutsLeg(c, i, l)
  BY DEF HookLeg, Step, Turn, config, routing, Given, PutsLeg
<1>2. IsSlice(leg[c][i].slice) /\ chain \in Chains /\ chain \in Seq(AllHooks) /\ kind' = kind
  BY <1>1, ChainType DEF CopiesInv, RequestShape, IsLeg, Given
<1>3. IsView(View(leg[c][i].slice)) /\ View(leg[c][i].slice).slice = leg[c][i].slice
      /\ View(leg[c][i].slice).cells = cells
  BY <1>2, ViewIs
<1>4. Keeps(View(leg[c][i].slice), v)
  BY <1>2, <1>3, FoldKeeps, ApplyBeforeIs
<1>5. leg'[c][i] = l /\ l.slice = v.slice /\ l.list = leg[c][i].list /\ l.stage = "ready"
  BY <1>1, LegMoves DEF CopiesInv, RequestShape
<1>6. ASSUME given # <<>>, Tamperers = {}
      PROVE  Shown(l.slice, cells') = Hooked(Shown(leg[c][i].slice, cells), chain)
  <2>1. leg[c][i].slice.own
    BY <1>1, <1>6 DEF CopiesInv, Intact
  <2>2. Messages(v) = Hooked(Messages(View(leg[c][i].slice)), chain)
    BY <1>2, <1>3, <2>1, HookedIs
  <2>3. Shown(v.slice, v.cells) = Messages(v)
    BY <1>4, ShownIs DEF Keeps
  <2> HIDE DEF v
  <2> QED
    BY <1>1, <2>2, <2>3 DEF Shown, View
<1> HIDE DEF l, v
<1>7. /\ Tamperers \subseteq Tamperers' /\ \A d \in Calls : d # c => ran'[d] = ran[d]
      /\ ran'[c] = ran[c] \o chain
  BY <1>1, <1>2, RanGrows DEF CopiesInv, RequestShape
<1>8. Single(c)
  BY <1>1 DEF FlowInv, Legs
<1>9. LegStepsOn(c, i, l)
  BY <1>1, <1>5, <1>7, <1>8 DEF LegStepsOn
<1>10. ASSUME NEW early \in Early(c), given # <<>>, Tamperers = {}, BaseFlow(c, early), LegFlow(c, i, early)
       PROVE  LegFlow(c, i, early)'
  <2>1. /\ ran[c] = early /\ Shown(base[c], cells) = Hooked(Original(c), early)
        /\ Shown(leg[c][i].slice, cells) = Templated(Shown(base[c], cells), order[c][i], leg[c][i].list)
    BY <1>1, <1>10 DEF LegFlow, BaseFlow, Content
  <2>2. PICK late \in Chains : late = chain
    BY <1>2
  <2>3. Sent(c, i, early, late)'
    BY <1>1, <1>5, <1>6, <1>7, <1>10, <2>1, <2>2, GivenIs DEF Sent, Content
  <2>4. late \in Late(c)'
    BY <1>1, <1>8, GivenIs DEF Late
  <2> QED
    BY <1>1, <1>5, <1>8, <2>3, <2>4, GivenIs DEF LegFlow
<1> QED
  BY <1>9, <1>10, LegFlows

LEMMA SendFlow ==
  ASSUME CopiesInv, CopiesInv', FlowInv, NEW c \in Calls, NEW i \in Turns, Send(c, i)
  PROVE  FlowInv'
<1> DEFINE l == [Idle EXCEPT !.stage = "done"]
<1>1. /\ at[c] = "legs" /\ ran' = ran /\ base' = base /\ order' = order /\ Given /\ kind' = kind
      /\ i \in DOMAIN order[c] /\ PutsLeg(c, i, l) /\ leg[c][i].stage = "ready"
  BY DEF Send, config, routing, Given, PutsLeg
<1>2. PICK to \in {"done", "legs"} : Puts(at', at, c, to)
  BY DEF Send, Puts
<1>3. at'[c] = to /\ \A d \in Calls : d # c => at'[d] = at[d]
  BY <1>2, FunExcept DEF CopiesInv, RequestShape
<1>4. l.stage = "done" /\ leg'[c][i] = l
  BY <1>1, LegMoves DEF CopiesInv, RequestShape, Idle
<1> HIDE DEF l
<1>5. LegStepsOn(c, i, l)
  BY <1>1, <1>3, <1>4, TamperersStay DEF LegStepsOn
<1>6. ASSUME NEW early \in Early(c), LegFlow(c, i, early) PROVE LegFlow(c, i, early)'
  BY <1>1, <1>4, <1>6, GivenIs DEF LegFlow
<1> QED
  BY <1>5, <1>6, LegFlows

LEMMA ConfigureFlow ==
  ASSUME CopiesInv, CopiesInv', FlowInv, Configure \/ UNCHANGED requestVars
  PROVE  FlowInv'
<1>1. /\ base' = base /\ leg' = leg /\ ran' = ran /\ order' = order /\ at' = at /\ Given /\ kind' = kind
  BY Zenon DEF Configure, AddTemplate, SetTemplates, Clear, Replace, SetInterceptors, SetSystemPrompt, ClearSystemPrompt,
    Change, Edit, requestVars, config, routing, Given
<1>2. \A d \in Calls : Elsewhere(d)
  BY <1>1 DEF Elsewhere
<1>3. \A d \in Calls : Legs(d)'
  BY <1>1, <1>2, LegsElsewhere DEF FlowInv
<1>4. ASSUME given # <<>>, Tamperers' = {}, NEW d \in Calls PROVE Flow(d)'
  <2>1. Intact /\ Intact' /\ Flow(d)
    BY <1>1, <1>4, TamperersStay DEF CopiesInv, FlowInv, Given
  <2> QED
    BY <1>1, <1>2, <2>1, FlowElsewhere
<1> QED
  BY <1>1, <1>3, <1>4 DEF FlowInv, Given

LEMMA FlowStep ==
  ASSUME CopiesInv, FlowInv, [RequestNext]_requestVars
  PROVE  FlowInv'
<1>1. CopiesInv'
  BY CopiesStep
<1>2. ASSUME NEW c \in Calls, CallStep(c) PROVE FlowInv'
  BY <1>1, <1>2, StartFlow, BeforeAllFlow, BeforeFailsFlow, RouteFlow, RoutePanicsFlow, DegradeFlow, CloneLegFlow,
    InjectLegFlow, HookLegFlow, SendFlow DEF CallStep
<1> QED
  BY <1>1, <1>2, ConfigureFlow DEF RequestNext

(* What a ready copy holds, unless a dual call has edited the array of the *)
(* caller in place: the messages of the request, with the hooks of the     *)
(* call and the templates for its provider applied to them as if the call  *)
(* were alone.  Which hooks and templates depends on when the call came to *)
(* them; the steps of other calls, and templates and hooks replaced since, *)
(* add nothing and take nothing away (scheduler.go 426-466, 513-577,       *)
(* 649, prompt.go 104-181).                                                *)
SentAlone ==
  given # <<>> /\ Tamperers = {} =>
    \A c \in Calls : \A i \in Turns :
      leg[c][i].stage = "ready" =>
        \E early \in Early(c), late \in Late(c) : Sent(c, i, early, late)

(* Calls that share a request do not see each other in what they send: any *)
(* number of them, with any hooks, templates, providers and routers, and   *)
(* however their steps interleave.                                         *)
THEOREM CallsSendAlone == RequestSpec => []SentAlone
<1>1. FlowInv => SentAlone
  <2>1. SUFFICES ASSUME FlowInv, given # <<>>, Tamperers = {}, NEW c \in Calls, NEW i \in Turns,
                        leg[c][i].stage = "ready"
                 PROVE  \E early \in Early(c), late \in Late(c) : Sent(c, i, early, late)
    BY DEF SentAlone
  <2>2. at[c] \in {"legs", "done"} /\ i \in DOMAIN order[c]
    BY <2>1 DEF FlowInv, Legs
  <2>3. PICK early \in Early(c) : BaseFlow(c, early)
    BY <2>1, <2>2 DEF FlowInv, Flow
  <2> QED
    BY <2>1, <2>2, <2>3 DEF BaseFlow, LegFlow
<1>2. CopiesInv /\ FlowInv /\ [RequestNext]_requestVars => CopiesInv' /\ FlowInv'
  BY CopiesStep, FlowStep
<1> QED
  BY <1>1, <1>2, InitCopies, InitFlow, PTL DEF RequestSpec

=============================================================================
