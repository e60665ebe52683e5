------------------------------- MODULE Breaker -------------------------------
(***************************************************************************)
(* The circuit breaker of one provider (BaseProvider, providers.go) and    *)
(* the background health checks of the scheduler that drive it together    *)
(* with the calls: StartHealthCheck, its loop, and Close (scheduler.go).   *)
(*                                                                         *)
(* The breaker has no lock: every Load, Add and Store is a step.  A call   *)
(* is sent to the provider if IsAvailable said so some time before.  Time  *)
(* is what is left of the cooldown; reading the clock and storing the      *)
(* deadline is one step.  The configuration of the provider is complete.   *)
(***************************************************************************)
EXTENDS Integers, FiniteSets

CONSTANTS
  Callers,      \* goroutines that call the provider, again and again
  Loops,        \* goroutines of health loops
  Controllers,  \* goroutines that call StartHealthCheck
  Closer,       \* the goroutine that calls Close
  Nobody,
  MaxFailures,
  Cooldown      \* in ticks

ASSUME BreakerAssumption ==
  /\ IsFiniteSet(Loops)
  /\ Callers \cap Loops = {}
  /\ (Callers \cup Loops) \cap (Controllers \cup {Closer}) = {}
  /\ Closer \notin Controllers
  /\ Nobody \notin Callers \cup Loops \cup Controllers \cup {Closer}
  /\ MaxFailures \in Nat \ {0}
  /\ Cooldown \in Nat \ {0}

VARIABLES
  failCount,  \* up to MaxFailures: more makes no difference
  failUntil,  \* Unset (0 in the code), or what is left of the cooldown
  wasFailed,  \* the local variable of RecordSuccess
  heard,      \* the last of the events open and recover that were emitted
  mixed,      \* history: a success and a failure were reported at one time
  closed,
  healthMu,   \* who holds healthCheckMu
  current,    \* the loop that healthCheckStop belongs to
  stopped,    \* the loops whose stop channel is closed
  restart,    \* the controllers that ask for a loop: interval > 0
  pc

breaker == <<failCount, failUntil, wasFailed, heard, mixed>>
health == <<healthMu, current, stopped, restart>>
vars == <<breaker, closed, health, pc>>

Reporters == Callers \cup Loops
Stoppers == Controllers \cup {Closer}
Processes == Reporters \cup Stoppers

Unset == -1

Failing == {"storeUntil", "emitOpen"}
Succeeding == {"resetCount", "resetUntil", "emitRecover"}
Reporting == {"add", "load"} \cup Failing \cup Succeeding

TypeOK ==
  /\ failCount \in 0..MaxFailures
  /\ failUntil \in {Unset} \cup 0..Cooldown
  /\ wasFailed \in [Reporters -> BOOLEAN]
  /\ heard \in {"open", "recover"}
  /\ mixed \in BOOLEAN
  /\ closed \in BOOLEAN
  /\ healthMu \in Stoppers \cup {Nobody}
  /\ current \in Loops \cup {Nobody}
  /\ stopped \subseteq Loops
  /\ restart \subseteq Controllers
  /\ \A p \in Callers : pc[p] \in {"idle", "call"} \cup Reporting
  /\ \A l \in Loops : pc[l] \in {"off", "select", "next", "call"} \cup Reporting
  /\ \A c \in Stoppers : pc[c] \in {"idle", "lock", "wait", "closed"}
  /\ DOMAIN pc = Processes

Init ==
  /\ failCount = 0
  /\ failUntil = Unset
  /\ wasFailed = [p \in Reporters |-> FALSE]
  /\ heard = "recover"
  /\ mixed = FALSE
  /\ closed = FALSE
  /\ healthMu = Nobody
  /\ current = Nobody
  /\ stopped = {}
  /\ restart = {}
  /\ pc = [p \in Processes |-> IF p \in Loops THEN "off" ELSE "idle"]

Goto(p, label) == pc' = [pc EXCEPT ![p] = label]

\* The report of p is complete.
Return(p) == Goto(p, IF p \in Loops THEN "select" ELSE "idle")

-----------------------------------------------------------------------------
(* Calls.                                                                  *)

\* Mutant: the deadline is never compared with the clock.
IgnoresClock == failUntil = Unset

IsAvailable == failUntil <= 0

\* The scheduler found the provider available; the request follows later.
Choose(p) ==
  /\ pc[p] = "idle"
  /\ IsAvailable
  /\ Goto(p, "call")
  /\ UNCHANGED <<breaker, closed, health>>

\* A call, or the probe of a health check, ends well or not.
Called(p) ==
  /\ pc[p] = "call"
  /\ Goto(p, "add") \/ Goto(p, "load")
  /\ UNCHANGED <<breaker, closed, health>>

-----------------------------------------------------------------------------
(* RecordFailure.                                                          *)

Within(labels) == {p \in Reporters : pc[p] \in labels}

Add(p) ==
  /\ pc[p] = "add"
  /\ failCount' = IF failCount < MaxFailures THEN failCount + 1 ELSE failCount
  /\ IF failCount + 1 >= MaxFailures THEN Goto(p, "storeUntil") ELSE Return(p)
  /\ mixed' = (mixed \/ Within(Succeeding) # {})
  /\ UNCHANGED <<failUntil, wasFailed, heard, closed, health>>

StoreUntil(p) ==
  /\ pc[p] = "storeUntil"
  /\ failUntil' = Cooldown
  /\ Goto(p, "emitOpen")
  /\ UNCHANGED <<failCount, wasFailed, heard, mixed, closed, health>>

EmitOpen(p) ==
  /\ pc[p] = "emitOpen"
  /\ heard' = "open"
  /\ Return(p)
  /\ UNCHANGED <<failCount, failUntil, wasFailed, mixed, closed, health>>

(* RecordSuccess.                                                          *)

LoadCount(p) ==
  /\ pc[p] = "load"
  /\ wasFailed' = [wasFailed EXCEPT ![p] = failCount > 0]
  /\ mixed' = (mixed \/ Within(Failing) # {})
  /\ Goto(p, "resetCount")
  /\ UNCHANGED <<failCount, failUntil, heard, closed, health>>

ResetCount(p) ==
  /\ pc[p] = "resetCount"
  /\ failCount' = 0
  /\ Goto(p, "resetUntil")
  /\ UNCHANGED <<failUntil, wasFailed, heard, mixed, closed, health>>

\* Mutant: only the counter is reset.
KeepsDeadline(p) ==
  /\ pc[p] = "resetUntil"
  /\ IF wasFailed[p] THEN Goto(p, "emitRecover") ELSE Return(p)
  /\ wasFailed' = [wasFailed EXCEPT ![p] = FALSE]
  /\ UNCHANGED <<failCount, failUntil, heard, mixed, closed, health>>

ResetUntil(p) ==
  /\ pc[p] = "resetUntil"
  /\ failUntil' = Unset
  /\ IF wasFailed[p] THEN Goto(p, "emitRecover") ELSE Return(p)
  /\ wasFailed' = [wasFailed EXCEPT ![p] = FALSE]
  /\ UNCHANGED <<failCount, heard, mixed, closed, health>>

EmitRecover(p) ==
  /\ pc[p] = "emitRecover"
  /\ heard' = "recover"
  /\ Return(p)
  /\ UNCHANGED <<failCount, failUntil, wasFailed, mixed, closed, health>>

Report(p) ==
  \/ Add(p) \/ StoreUntil(p) \/ EmitOpen(p)
  \/ LoadCount(p) \/ ResetCount(p) \/ ResetUntil(p) \/ EmitRecover(p)

Tick ==
  /\ failUntil > 0
  /\ failUntil' = failUntil - 1
  /\ UNCHANGED <<failCount, wasFailed, heard, mixed, closed, health, pc>>

-----------------------------------------------------------------------------
(* The health loop.                                                        *)

\* The ticker fires; runHealthChecks takes its copy of the providers.
Fire(l) ==
  /\ pc[l] = "select"
  /\ Goto(l, "next")
  /\ UNCHANGED <<breaker, closed, health>>

\* Mutant: the loop does not look.
NeverLooks(l) ==
  /\ pc[l] = "next"
  /\ Goto(l, "call")
  /\ UNCHANGED <<breaker, closed, health>>

LooksAtClosed(l) ==
  /\ pc[l] = "next"
  /\ Goto(l, IF closed THEN "select" ELSE "call")
  /\ UNCHANGED <<breaker, closed, health>>

Exit(l) ==
  /\ pc[l] = "select"
  /\ l \in stopped
  /\ stopped' = stopped \ {l}
  /\ Goto(l, "off")
  /\ UNCHANGED <<breaker, closed, healthMu, current, restart>>

-----------------------------------------------------------------------------
(* StartHealthCheck and Close.                                             *)

\* With an interval, or with none: then the loop is only stopped.
StartHealthCheck(c) ==
  /\ pc[c] = "idle"
  /\ restart' \in {restart \cup {c}, restart \ {c}}
  /\ Goto(c, "lock")
  /\ UNCHANGED <<breaker, closed, healthMu, current, stopped>>

Close ==
  /\ pc[Closer] = "idle"
  /\ closed' = TRUE
  /\ Goto(Closer, "lock")
  /\ UNCHANGED <<breaker, health>>

\* Mutant: the channel is forgotten, not closed.
ForgetsToClose(c) ==
  /\ pc[c] = "lock"
  /\ healthMu = Nobody
  /\ healthMu' = c
  /\ current' = Nobody
  /\ Goto(c, "wait")
  /\ UNCHANGED <<breaker, closed, stopped, restart>>

\* Both hold healthCheckMu until the loop they stop has ended.
LockAndStop(c) ==
  /\ pc[c] = "lock"
  /\ healthMu = Nobody
  /\ healthMu' = c
  /\ stopped' = stopped \cup ({current} \cap Loops)
  /\ current' = Nobody
  /\ Goto(c, "wait")
  /\ UNCHANGED <<breaker, closed, restart>>

Running == {l \in Loops : pc[l] # "off"}

AfterWait(c) == IF c = Closer THEN "closed" ELSE "idle"

Stopped(c) ==
  /\ pc[c] = "wait"
  /\ Running = {}
  /\ c \notin restart
  /\ healthMu' = Nobody
  /\ Goto(c, AfterWait(c))
  /\ UNCHANGED <<breaker, closed, current, stopped, restart>>

Restarted(c, l) ==
  /\ pc[c] = "wait"
  /\ Running = {}
  /\ c \in restart
  /\ healthMu' = Nobody
  /\ current' = l
  /\ pc' = [pc EXCEPT ![c] = AfterWait(c), ![l] = "select"]
  /\ UNCHANGED <<breaker, closed, stopped, restart>>

-----------------------------------------------------------------------------
LoopStep(l) == Fire(l) \/ LooksAtClosed(l) \/ Called(l) \/ Report(l)

CallerStep(p) == Called(p) \/ Report(p)

Finish(c) == Stopped(c) \/ \E l \in Loops : Restarted(c, l)

Next ==
  \/ \E p \in Callers : Choose(p) \/ CallerStep(p)
  \/ \E l \in Loops : LoopStep(l) \/ Exit(l)
  \/ \E c \in Controllers : StartHealthCheck(c)
  \/ Close
  \/ \E c \in Stoppers : LockAndStop(c) \/ Finish(c)
  \/ Tick

Spec == Init /\ [][Next]_vars

\* Goroutines are scheduled, calls and probes have a timeout, time passes, a
\* sync.Mutex is starvation free, and select takes each ready case in turn.
Fairness ==
  /\ \A p \in Callers : WF_vars(CallerStep(p))
  /\ \A l \in Loops : WF_vars(LoopStep(l)) /\ SF_vars(Exit(l))
  /\ \A c \in Stoppers : SF_vars(LockAndStop(c)) /\ WF_vars(Finish(c))
  /\ WF_vars(Tick)

FairSpec == Spec /\ Fairness

=============================================================================
