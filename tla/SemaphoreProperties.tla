------------------------- MODULE SemaphoreProperties -------------------------
(***************************************************************************)
(* What the adaptive semaphore promises, and what it does not.             *)
(***************************************************************************)
EXTENDS Semaphore

(* The slots that somebody answers for: those of the holders, of the       *)
(* waiters that have been granted theirs and have not looked yet, and of   *)
(* the cancelled callers that have not given theirs back yet.              *)
Charged(p) == pc[p] \in {"holding", "giveBack"} \/ p \in signalled

ChargedSlots ==
  {s \in Procs \X (1..MaxWeight) : Charged(s[1]) /\ s[2] <= need[s[1]]}

(* No slot leaks and none is given back twice: inUse (semaphore.go 96-183) *)
(* counts exactly the slots of the processes that answer for one, whatever *)
(* grants, cancellations and releases interleave.                          *)
SlotsAccounted == inUse = Cardinality(ChargedSlots)

(* The check against maxConc and the addition to inUse are not one step,   *)
(* neither under mu (114/116, 178/183) nor on the fast path, yet the       *)
(* damage is bounded: however many processes race, inUse exceeds the       *)
(* largest capacity ever set by at most one request.                       *)
OvershootBounded == inUse <= MaxCap + MaxWeight

Blocked(p) == pc[p] \in {"waiting", "cancelLock"}

Popped(p) == \E q \in Procs : pc[q] = "wakeAdd" /\ target[q] = p

(* A waiter is queued at most once, and a process blocked in AcquireN      *)
(* (133-154) is in exactly one of three places: the queue, the hands of    *)
(* the process that popped it and still holds mu, or signalled.  A process *)
(* that is not blocked is in none of them.                                 *)
NobodyForgotten ==
  /\ \A i, j \in 1..Len(waiters) : waiters[i] = waiters[j] => i = j
  /\ \A p \in Procs :
       /\ Blocked(p) <=> Waits(p) \/ Popped(p) \/ p \in signalled
       /\ ~(Waits(p) /\ Popped(p))
       /\ ~(Waits(p) /\ p \in signalled)
       /\ ~(Popped(p) /\ p \in signalled)

(* The processes that are going to look at the head of the queue.          *)
Waking == {"wakeLock", "wakeMax", "wakeAdd"}

(* When the head of the queue would fit, some process is on its way to     *)
(* look: SEM-01 (semaphore.go 75-76 and 111-113) and the wake-up loops     *)
(* leave no waiter behind.                                                 *)
NoLostWakeup ==
  (waiters # <<>> /\ inUse + need[Head(waiters)] <= maxConc)
     => \E p \in Procs : pc[p] \in Waking

FastPath == {"fastInUse", "fastMax", "fastCAS"}

(* Every waiter is served once no newcomer competes on the fast path for   *)
(* the slots that holders keep releasing (133-154, 169-190).               *)
ServedOnceUncontended ==
  \A p \in Procs :
    <>[](\A q \in Procs : pc[q] \notin FastPath)
      => (pc[p] = "waiting" ~> pc[p] # "waiting")

=============================================================================
