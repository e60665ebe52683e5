------------------------------ MODULE Semaphore ------------------------------
(***************************************************************************)
(* The adaptive semaphore of internal/engine/semaphore.go: AcquireN,       *)
(* ReleaseN and setMaxConc at the granularity of its atomic operations.    *)
(*                                                                         *)
(* inUse and maxConc are atomics that every goroutine reads and writes     *)
(* without mu; waiters is only touched under mu.  Every load, store,       *)
(* compare-and-swap or add of an atomic is a step of its own.  Taking mu   *)
(* is merged with the first load made under it, and releasing mu with the  *)
(* last operation before it; the wake-up send (a buffered channel, read by *)
(* one goroutine) is merged with the release of mu that precedes it.       *)
(*                                                                         *)
(* A process is a goroutine.  It makes one call at a time, so a waiter is  *)
(* named by its process and its channel holds a signal exactly when the    *)
(* process is in signalled.                                                *)
(***************************************************************************)
EXTENDS Integers, Sequences, FiniteSets

CONSTANTS
  Procs,       \* the goroutines
  Weights,     \* the values of n that callers pass to AcquireN
  MaxWeight,   \* an upper bound of Weights
  Capacities,  \* the values callers pass to setMaxConc
  InitCap,     \* the value passed to NewAdaptiveSemaphore
  MaxCap,      \* an upper bound of the capacities that are ever configured
  Cancellable, \* the goroutines whose context may be cancelled
  NoProc       \* mu is free

ASSUME SemaphoreAssumption ==
  /\ IsFiniteSet(Procs)
  /\ NoProc \notin Procs
  /\ MaxWeight \in Nat /\ Weights \subseteq 1..MaxWeight
  /\ MaxCap \in Nat \ {0} /\ InitCap \in 1..MaxCap
  /\ Capacities \subseteq 0..MaxCap
  /\ Cancellable \subseteq Procs

VARIABLES
  inUse,     \* atomic: occupied slots
  maxConc,   \* atomic: capacity
  mu,        \* the process that holds the mutex, or NoProc
  waiters,   \* FIFO queue of waiting processes, protected by mu
  pc,        \* the next operation of each process
  need,      \* n of the call in progress, or of the slots held
  cur,       \* the last value of inUse a process loaded
  target,    \* the waiter a waking process has popped
  signalled, \* the waiters whose channel holds the wake-up signal
  cancelled  \* the processes whose ctx is done during their AcquireN

vars == <<inUse, maxConc, mu, waiters, pc, need, cur, target, signalled,
          cancelled>>

Labels == {"idle", "fastInUse", "fastMax", "fastCAS", "acqLock", "recheckMax",
           "slowAdd", "waiting", "cancelLock", "giveBack", "holding",
           "wakeLock", "wakeMax", "wakeAdd"}

TypeOK ==
  /\ inUse \in Int
  /\ maxConc \in 1..MaxCap
  /\ mu \in Procs \cup {NoProc}
  /\ waiters \in Seq(Procs)
  /\ pc \in [Procs -> Labels]
  /\ need \in [Procs -> 0..MaxWeight]
  /\ cur \in [Procs -> Int]
  /\ target \in [Procs -> Procs \cup {NoProc}]
  /\ signalled \subseteq Procs
  /\ cancelled \subseteq Cancellable

Init ==
  /\ inUse = 0
  /\ maxConc = InitCap
  /\ mu = NoProc
  /\ waiters = <<>>
  /\ pc = [p \in Procs |-> "idle"]
  /\ need = [p \in Procs |-> 0]
  /\ cur = [p \in Procs |-> 0]
  /\ target = [p \in Procs |-> NoProc]
  /\ signalled = {}
  /\ cancelled = {}

Goto(p, label) == pc' = [pc EXCEPT ![p] = label]

\* The sequence s without its element at i.
Without(s, i) == SubSeq(s, 1, i - 1) \o SubSeq(s, i + 1, Len(s))

Waits(p) == \E i \in 1..Len(waiters) : waiters[i] = p

-----------------------------------------------------------------------------
(* Mutants: plausible bugs, each standing in for an action in one check.   *)

\* A granted waiter that is cancelled does not give its slots back.
LeaveQueueKeepsGrant(p) ==
  /\ pc[p] = "cancelLock"
  /\ mu = NoProc
  /\ waiters' = SelectSeq(waiters, LAMBDA q : q # p)
  /\ signalled' = signalled \ {p}
  /\ Goto(p, "idle")
  /\ need' = [need EXCEPT ![p] = 0]
  /\ cancelled' = cancelled \ {p}
  /\ UNCHANGED <<inUse, maxConc, mu, cur, target>>

\* A cancelled waiter removes the head of the queue instead of itself.
LeaveQueueHead(p) ==
  /\ pc[p] = "cancelLock"
  /\ mu = NoProc
  /\ IF Waits(p)
     THEN /\ waiters' = Tail(waiters)
          /\ Goto(p, "idle")
          /\ need' = [need EXCEPT ![p] = 0]
          /\ cancelled' = cancelled \ {p}
          /\ UNCHANGED signalled
     ELSE /\ signalled' = signalled \ {p}
          /\ Goto(p, "giveBack")
          /\ UNCHANGED <<waiters, need, cancelled>>
  /\ UNCHANGED <<inUse, maxConc, mu, cur, target>>

\* The fast path adds without comparing.
FastAdd(p) ==
  /\ pc[p] = "fastCAS"
  /\ cur' = [cur EXCEPT ![p] = 0]
  /\ inUse' = inUse + need[p]
  /\ Goto(p, "holding")
  /\ cancelled' = cancelled \ {p}
  /\ UNCHANGED <<maxConc, mu, waiters, need, target, signalled>>

\* SEM-01 undone: queue without looking again.
NoRecheck(p) ==
  /\ pc[p] = "recheckMax"
  /\ cur' = [cur EXCEPT ![p] = 0]
  /\ Goto(p, "waiting")
  /\ waiters' = Append(waiters, p)
  /\ mu' = NoProc
  /\ UNCHANGED <<inUse, maxConc, need, target, signalled, cancelled>>

\* The wake-up loop stops after its first waiter.
WakeAddOnce(p) ==
  /\ pc[p] = "wakeAdd"
  /\ inUse' = inUse + need[target[p]]
  /\ mu' = NoProc
  /\ signalled' = signalled \cup {target[p]}
  /\ target' = [target EXCEPT ![p] = NoProc]
  /\ Goto(p, "idle")
  /\ UNCHANGED <<maxConc, waiters, need, cur, cancelled>>

-----------------------------------------------------------------------------
(* AcquireN, the fast path.                                                *)

StartAcquire(p, n) ==
  /\ pc[p] = "idle"
  /\ Goto(p, "fastInUse")
  /\ need' = [need EXCEPT ![p] = n]
  /\ UNCHANGED <<inUse, maxConc, mu, waiters, cur, target, signalled, cancelled>>

FastLoadInUse(p) ==
  /\ pc[p] = "fastInUse"
  /\ cur' = [cur EXCEPT ![p] = inUse]
  /\ Goto(p, "fastMax")
  /\ UNCHANGED <<inUse, maxConc, mu, waiters, need, target, signalled, cancelled>>

FastLoadMax(p) ==
  /\ pc[p] = "fastMax"
  /\ IF cur[p] + need[p] > maxConc
     THEN Goto(p, "acqLock") /\ cur' = [cur EXCEPT ![p] = 0]
     ELSE Goto(p, "fastCAS") /\ UNCHANGED cur
  /\ UNCHANGED <<inUse, maxConc, mu, waiters, need, target, signalled, cancelled>>

\* The process returns from AcquireN owning need[p] slots.
Acquired(p) ==
  /\ Goto(p, "holding")
  /\ cancelled' = cancelled \ {p}

FastCAS(p) ==
  /\ pc[p] = "fastCAS"
  /\ cur' = [cur EXCEPT ![p] = 0]
  /\ \/ /\ inUse = cur[p]
        /\ inUse' = inUse + need[p]
        /\ Acquired(p)
     \/ /\ inUse # cur[p]
        /\ Goto(p, "fastInUse")
        /\ UNCHANGED <<inUse, cancelled>>
  /\ UNCHANGED <<maxConc, mu, waiters, need, target, signalled>>

-----------------------------------------------------------------------------
(* AcquireN, the slow path: recheck under mu, then queue and wait.         *)

AcquireLock(p) ==
  /\ pc[p] = "acqLock"
  /\ mu = NoProc
  /\ mu' = p
  /\ cur' = [cur EXCEPT ![p] = inUse]
  /\ Goto(p, "recheckMax")
  /\ UNCHANGED <<inUse, maxConc, waiters, need, target, signalled, cancelled>>

RecheckMax(p) ==
  /\ pc[p] = "recheckMax"
  /\ cur' = [cur EXCEPT ![p] = 0]
  /\ IF cur[p] + need[p] <= maxConc
     THEN /\ Goto(p, "slowAdd")
          /\ UNCHANGED <<mu, waiters>>
     ELSE /\ Goto(p, "waiting")
          /\ waiters' = Append(waiters, p)
          /\ mu' = NoProc
  /\ UNCHANGED <<inUse, maxConc, need, target, signalled, cancelled>>

\* The slots are taken whatever inUse has become since the recheck.
SlowAdd(p) ==
  /\ pc[p] = "slowAdd"
  /\ inUse' = inUse + need[p]
  /\ mu' = NoProc
  /\ IF p \in cancelled
     THEN Goto(p, "giveBack") /\ UNCHANGED cancelled
     ELSE Acquired(p)
  /\ UNCHANGED <<maxConc, waiters, need, cur, target, signalled>>

ReceiveSignal(p) ==
  /\ pc[p] = "waiting"
  /\ p \in signalled
  /\ signalled' = signalled \ {p}
  /\ Acquired(p)
  /\ UNCHANGED <<inUse, maxConc, mu, waiters, need, cur, target>>

\* The select of a waiter whose ctx is done may take this branch even when
\* the signal is there too.
ReceiveDone(p) ==
  /\ pc[p] = "waiting"
  /\ p \in cancelled
  /\ Goto(p, "cancelLock")
  /\ UNCHANGED <<inUse, maxConc, mu, waiters, need, cur, target, signalled,
                 cancelled>>

\* The call returns ctx.Err().
Abandoned(p) ==
  /\ Goto(p, "idle")
  /\ need' = [need EXCEPT ![p] = 0]
  /\ cancelled' = cancelled \ {p}

LeaveQueue(p) ==
  /\ pc[p] = "cancelLock"
  /\ mu = NoProc
  /\ \/ /\ \E i \in 1..Len(waiters) :
             waiters[i] = p /\ waiters' = Without(waiters, i)
        /\ Abandoned(p)
        /\ UNCHANGED signalled
     \/ /\ ~Waits(p)
        /\ signalled' = signalled \ {p}
        /\ Goto(p, "giveBack")
        /\ UNCHANGED <<waiters, need, cancelled>>
  /\ UNCHANGED <<inUse, maxConc, mu, cur, target>>

\* Slots taken or granted after the ctx was done go back to the counter.
GiveBack(p) ==
  /\ pc[p] = "giveBack"
  /\ inUse' = inUse - need[p]
  /\ Abandoned(p)
  /\ UNCHANGED <<maxConc, mu, waiters, cur, target, signalled>>

-----------------------------------------------------------------------------
(* ReleaseN and setMaxConc, which end in the same wake-up loop.            *)

Release(p) ==
  /\ pc[p] = "holding"
  /\ inUse' = inUse - need[p]
  /\ need' = [need EXCEPT ![p] = 0]
  /\ Goto(p, "wakeLock")
  /\ UNCHANGED <<maxConc, mu, waiters, cur, target, signalled, cancelled>>

SetMaxConc(p, n) ==
  /\ pc[p] = "idle"
  /\ maxConc' = IF n < 1 THEN 1 ELSE n
  /\ Goto(p, "wakeLock")
  /\ UNCHANGED <<inUse, mu, waiters, need, cur, target, signalled, cancelled>>

WakeLock(p) ==
  /\ pc[p] = "wakeLock"
  /\ mu = NoProc
  /\ IF waiters = <<>>
     THEN Goto(p, "idle") /\ UNCHANGED <<mu, cur>>
     ELSE /\ Goto(p, "wakeMax")
          /\ mu' = p
          /\ cur' = [cur EXCEPT ![p] = inUse]
  /\ UNCHANGED <<inUse, maxConc, waiters, need, target, signalled, cancelled>>

WakeMax(p) ==
  /\ pc[p] = "wakeMax"
  /\ cur' = [cur EXCEPT ![p] = 0]
  /\ IF cur[p] + need[Head(waiters)] > maxConc
     THEN /\ Goto(p, "idle")
          /\ mu' = NoProc
          /\ UNCHANGED <<waiters, target>>
     ELSE /\ Goto(p, "wakeAdd")
          /\ target' = [target EXCEPT ![p] = Head(waiters)]
          /\ waiters' = Tail(waiters)
          /\ UNCHANGED mu
  /\ UNCHANGED <<inUse, maxConc, need, signalled, cancelled>>

WakeAdd(p) ==
  /\ pc[p] = "wakeAdd"
  /\ inUse' = inUse + need[target[p]]
  /\ mu' = NoProc
  /\ signalled' = signalled \cup {target[p]}
  /\ target' = [target EXCEPT ![p] = NoProc]
  /\ Goto(p, "wakeLock")
  /\ UNCHANGED <<maxConc, waiters, need, cur, cancelled>>

-----------------------------------------------------------------------------
(* The context of a call in progress is cancelled or times out.            *)

Acquiring == {"fastInUse", "fastMax", "fastCAS", "acqLock", "recheckMax",
              "slowAdd", "waiting"}

Cancel(p) ==
  /\ p \in Cancellable \ cancelled
  /\ pc[p] \in Acquiring
  /\ cancelled' = cancelled \cup {p}
  /\ UNCHANGED <<inUse, maxConc, mu, waiters, pc, need, cur, target, signalled>>

LockStep(p) == AcquireLock(p) \/ LeaveQueue(p) \/ WakeLock(p)

PlainStep(p) ==
  \/ FastLoadInUse(p) \/ FastLoadMax(p) \/ FastCAS(p)
  \/ RecheckMax(p) \/ SlowAdd(p) \/ ReceiveSignal(p) \/ ReceiveDone(p)
  \/ GiveBack(p) \/ Release(p) \/ WakeMax(p) \/ WakeAdd(p)

Next ==
  \E p \in Procs :
    \/ \E n \in Weights : StartAcquire(p, n)
    \/ \E n \in Capacities : SetMaxConc(p, n)
    \/ Cancel(p)
    \/ LockStep(p)
    \/ PlainStep(p)

Spec == Init /\ [][Next]_vars

\* A running goroutine is scheduled, a holder calls Release (every caller
\* defers it), and a sync.Mutex is starvation free: hence SF for Lock.
Fairness == \A p \in Procs : WF_vars(PlainStep(p)) /\ SF_vars(LockStep(p))

FairSpec == Spec /\ Fairness

=============================================================================
