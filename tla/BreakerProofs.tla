---------------------------- MODULE BreakerProofs ----------------------------
(***************************************************************************)
(* Proofs about the circuit breaker and the health loop: for any number of *)
(* callers, loops and controllers, any threshold and any cooldown.         *)
(***************************************************************************)
EXTENDS BreakerProperties, FiniteSetTheorems, TLAPS

LEMMA ProcessKinds ==
  /\ Callers \subseteq Reporters /\ Loops \subseteq Reporters
  /\ Reporters \subseteq Processes /\ Stoppers \subseteq Processes
  /\ Controllers \subseteq Stoppers /\ Closer \in Stoppers
  /\ Callers \cap Loops = {} /\ Reporters \cap Stoppers = {}
  /\ Nobody \notin Processes
<1>1. Callers \cap Loops = {} /\ Reporters \cap Stoppers = {}
  BY BreakerAssumption, Zenon DEF Reporters, Stoppers
<1>2. Nobody \notin Processes
  BY BreakerAssumption, Zenon DEF Reporters, Stoppers, Processes
<1> QED
  BY <1>1, <1>2, Zenon DEF Reporters, Stoppers, Processes

\* What TypeOK says of the labels, process by process.
Label(p, label) ==
  /\ p \in Callers => label \in {"idle", "call"} \cup Reporting
  /\ p \in Loops => label \in {"off", "select", "next", "call"} \cup Reporting
  /\ p \in Stoppers => label \in {"idle", "lock", "wait", "closed"}

DataType ==
  /\ failCount \in 0..MaxFailures
  /\ failUntil \in {Unset} \cup 0..Cooldown
  /\ wasFailed \in [Reporters -> BOOLEAN]
  /\ heard \in {"open", "recover"}
  /\ mixed \in BOOLEAN
  /\ closed \in BOOLEAN
  /\ healthMu \in Stoppers \cup {Nobody}
  /\ current \in Loops \cup {Nobody}
  /\ stopped \subseteq Loops
  /\ restart \subseteq Controllers

AllLabels == {"idle", "call", "off", "select", "next", "lock", "wait", "closed"} \cup Reporting

PcType ==
  /\ pc \in [Processes -> AllLabels]
  /\ \A p \in Processes : Label(p, pc[p])

IInv == DataType /\ PcType

LEMMA IInvTypes == IInv => TypeOK
<1> SUFFICES ASSUME IInv PROVE TypeOK
  OBVIOUS
<1>1. DOMAIN pc = Processes
  BY DEF IInv, PcType
<1>2. /\ \A p \in Callers : pc[p] \in {"idle", "call"} \cup Reporting
      /\ \A l \in Loops : pc[l] \in {"off", "select", "next", "call"} \cup Reporting
      /\ \A c \in Stoppers : pc[c] \in {"idle", "lock", "wait", "closed"}
  BY ProcessKinds, Zenon DEF IInv, PcType, Label
<1> QED
  BY <1>1, <1>2, Zenon DEF IInv, DataType, TypeOK

LEMMA PcMove ==
  ASSUME PcType, NEW p \in Processes, NEW label \in AllLabels, Label(p, label),
         pc' = [pc EXCEPT ![p] = label]
  PROVE  PcType' /\ pc'[p] = label /\ \A q \in Processes \ {p} : pc'[q] = pc[q]
<1>1. pc' \in [Processes -> AllLabels] /\ pc'[p] = label
  BY DEF PcType
<1>2. \A q \in Processes \ {p} : pc'[q] = pc[q]
  BY DEF PcType
<1>3. \A q \in Processes : Label(q, pc'[q])
  BY <1>1, <1>2, Zenon DEF PcType
<1> QED
  BY <1>1, <1>2, <1>3, Zenon DEF PcType

LEMMA TypeInit == Init => IInv
<1> SUFFICES ASSUME Init PROVE IInv
  OBVIOUS
<1>1. DataType
  <2>1. wasFailed \in [Reporters -> BOOLEAN]
    BY Zenon DEF Init
  <2>2. failCount \in 0..MaxFailures /\ failUntil \in {Unset} \cup 0..Cooldown
    BY BreakerAssumption DEF Init
  <2> QED
    BY <2>1, <2>2, Zenon DEF Init, DataType
<1>2. PcType
  BY ProcessKinds DEF Init, PcType, AllLabels, Label
<1> QED
  BY <1>1, <1>2 DEF IInv

\* A reporter at one of these labels may go on to any of the others.
LEMMA ReporterGoes ==
  ASSUME NEW p \in Reporters, NEW label \in {"call"} \cup Reporting
  PROVE  Label(p, label) /\ label \in AllLabels
  BY ProcessKinds DEF Label, AllLabels

LEMMA ReporterReturns ==
  ASSUME PcType, NEW p \in Reporters, Return(p)
  PROVE  /\ PcType'
         /\ pc'[p] \in {"idle", "select"}
         /\ \A q \in Processes \ {p} : pc'[q] = pc[q]
<1> DEFINE label == IF p \in Loops THEN "select" ELSE "idle"
<1>1. label \in AllLabels /\ Label(p, label)
  BY ProcessKinds DEF AllLabels, Label, Reporters
<1>2. pc' = [pc EXCEPT ![p] = label] /\ label \in {"idle", "select"}
  BY DEF Return, Goto
<1> QED
  BY <1>1, <1>2, PcMove, ProcessKinds

LEMMA ReporterMoves ==
  ASSUME PcType, NEW p \in Reporters, NEW label \in {"call"} \cup Reporting, Goto(p, label)
  PROVE  /\ PcType'
         /\ pc'[p] = label
         /\ \A q \in Processes \ {p} : pc'[q] = pc[q]
  BY ReporterGoes, PcMove, ProcessKinds DEF Goto

LEMMA ReportType ==
  ASSUME IInv, NEW p \in Reporters, Report(p)
  PROVE  IInv'
<1> USE DEF IInv
<1>r. {"add", "load", "storeUntil", "emitOpen", "resetCount", "resetUntil", "emitRecover"}
        = Reporting
  BY DEF Reporting, Failing, Succeeding
<1>1. PcType'
  BY <1>r, ReporterReturns, ReporterMoves
     DEF Report, Add, StoreUntil, EmitOpen, LoadCount, ResetCount, ResetUntil, EmitRecover
<1>2. /\ failCount' \in 0..MaxFailures
      /\ failUntil' \in {Unset} \cup 0..Cooldown
  BY BreakerAssumption
     DEF DataType, Report, Add, StoreUntil, EmitOpen, LoadCount, ResetCount, ResetUntil, EmitRecover
<1>3. heard' \in {"open", "recover"} /\ mixed' \in BOOLEAN
  BY DEF DataType, Report, Add, StoreUntil, EmitOpen, LoadCount, ResetCount, ResetUntil, EmitRecover
<1>4. wasFailed' \in [Reporters -> BOOLEAN]
  <2>1. \/ UNCHANGED wasFailed
        \/ wasFailed' = [wasFailed EXCEPT ![p] = failCount > 0]
        \/ wasFailed' = [wasFailed EXCEPT ![p] = FALSE]
    BY Zenon DEF Report, Add, StoreUntil, EmitOpen, LoadCount, ResetCount, ResetUntil, EmitRecover
  <2>2. (failCount > 0) \in BOOLEAN
    OBVIOUS
  <2> QED
    BY <2>1, <2>2, Zenon DEF DataType
<1>5. UNCHANGED <<closed, health>>
  BY DEF Report, Add, StoreUntil, EmitOpen, LoadCount, ResetCount, ResetUntil, EmitRecover
<1> QED
  BY <1>1, <1>2, <1>3, <1>4, <1>5 DEF DataType, health

LEMMA TypeNext == IInv /\ [Next]_vars => IInv'
<1> SUFFICES ASSUME IInv, [Next]_vars PROVE IInv'
  OBVIOUS
<1> USE DEF IInv
<1>1. ASSUME NEW p \in Callers, Choose(p) PROVE IInv'
  BY <1>1, ProcessKinds, ReporterMoves DEF Choose, DataType, breaker, health
<1>2. ASSUME NEW p \in Reporters, Called(p) PROVE IInv'
  BY <1>2, ProcessKinds, ReporterMoves DEF Called, Reporting, DataType, breaker, health
<1>3. ASSUME NEW p \in Reporters, Report(p) PROVE IInv'
  BY <1>3, ReportType
<1>4. ASSUME NEW l \in Loops, Fire(l) PROVE IInv'
  BY <1>4, ProcessKinds, PcMove DEF Fire, Goto, Label, AllLabels, DataType, breaker, health
<1>5. ASSUME NEW l \in Loops, LooksAtClosed(l) PROVE IInv'
  <2>1. CASE closed
    BY <1>5, <2>1, ProcessKinds, PcMove
       DEF LooksAtClosed, Goto, Label, AllLabels, DataType, breaker, health
  <2>2. CASE ~closed
    BY <1>5, <2>2, ProcessKinds, ReporterMoves DEF LooksAtClosed, DataType, breaker, health
  <2> QED
    BY <2>1, <2>2
<1>6. ASSUME NEW l \in Loops, Exit(l) PROVE IInv'
  <2>1. PcType'
    BY <1>6, ProcessKinds, PcMove DEF Exit, Goto, Label, AllLabels
  <2> QED
    BY <1>6, <2>1 DEF Exit, DataType, breaker
<1>7. ASSUME NEW c \in Controllers, StartHealthCheck(c) PROVE IInv'
  <2>1. PcType'
    BY <1>7, ProcessKinds, PcMove DEF StartHealthCheck, Goto, Label, AllLabels
  <2> QED
    BY <1>7, <2>1 DEF StartHealthCheck, DataType, breaker
<1>8. CASE Close
  <2>1. PcType'
    BY <1>8, ProcessKinds, PcMove DEF Close, Goto, Label, AllLabels
  <2> QED
    BY <1>8, <2>1 DEF Close, DataType, breaker, health
<1>9. ASSUME NEW c \in Stoppers, LockAndStop(c) PROVE IInv'
  <2>1. PcType'
    BY <1>9, ProcessKinds, PcMove DEF LockAndStop, Goto, Label, AllLabels
  <2> QED
    BY <1>9, <2>1 DEF LockAndStop, DataType, breaker
<1>10. ASSUME NEW c \in Stoppers, Stopped(c) PROVE IInv'
  <2>1. PcType'
    BY <1>10, ProcessKinds, PcMove DEF Stopped, AfterWait, Goto, Label, AllLabels
  <2> QED
    BY <1>10, <2>1 DEF Stopped, DataType, breaker
<1>11. ASSUME NEW c \in Stoppers, NEW l \in Loops, Restarted(c, l) PROVE IInv'
  <2>1. PcType'
    BY <1>11, ProcessKinds DEF Restarted, AfterWait, PcType, Label, AllLabels
  <2> QED
    BY <1>11, <2>1 DEF Restarted, DataType, breaker
<1>12. CASE Tick
  <2>1. failUntil' \in {Unset} \cup 0..Cooldown
    BY <1>12, BreakerAssumption DEF Tick, DataType, Unset
  <2> QED
    BY <1>12, <2>1 DEF Tick, DataType, PcType, Label, health
<1>13. CASE UNCHANGED vars
  BY <1>13 DEF vars, breaker, health, DataType, PcType, Label
<1> QED
  BY <1>1, <1>2, <1>3, <1>4, <1>5, <1>6, <1>7, <1>8, <1>9, <1>10, <1>11, <1>12, <1>13, ProcessKinds
     DEF Next, CallerStep, LoopStep, Finish

(* Every variable keeps its type.                                          *)
THEOREM TypeCorrect == Spec => []TypeOK
<1>1. Spec => []IInv
  BY TypeInit, TypeNext, PTL DEF Spec
<1> QED
  BY <1>1, IInvTypes, PTL

-----------------------------------------------------------------------------
(* The health loop.                                                        *)

\* What a step does to the loops and to Close.
LEMMA ReportAway ==
  ASSUME IInv, NEW p \in Reporters, Report(p)
  PROVE  /\ pc[p] \in Reporting /\ pc'[p] \in {"idle", "select"} \cup Reporting
         /\ \A q \in Processes \ {p} : pc'[q] = pc[q]
<1>r. {"add", "load", "storeUntil", "emitOpen", "resetCount", "resetUntil", "emitRecover"}
        = Reporting
  BY DEF Reporting, Failing, Succeeding
<1>1. \/ Return(p)
      \/ \E label \in Reporting : Goto(p, label)
  BY <1>r DEF Report, Add, StoreUntil, EmitOpen, LoadCount, ResetCount, ResetUntil, EmitRecover
<1>2. pc[p] \in Reporting
  BY <1>r DEF Report, Add, StoreUntil, EmitOpen, LoadCount, ResetCount, ResetUntil, EmitRecover
<1>3. CASE Return(p)
  BY <1>2, <1>3, ReporterReturns DEF IInv
<1>4. ASSUME NEW label \in Reporting, Goto(p, label)
      PROVE  pc'[p] = label /\ \A q \in Processes \ {p} : pc'[q] = pc[q]
  BY <1>4, ReporterMoves DEF IInv
<1> QED
  BY <1>1, <1>2, <1>3, <1>4

\* A loop is at work that may reach a provider.
Busy(l) == pc[l] \in {"call"} \cup Reporting

LEMMA LoopMoves ==
  ASSUME IInv, [Next]_vars, NEW l \in Loops
  PROVE  /\ pc[l] = "off" /\ pc'[l] # "off" =>
              pc'[l] = "select" /\ \A m \in Loops \ {l} : pc'[m] = "off"
         /\ ~Busy(l) /\ Busy(l)' => ~closed
<1> DEFINE Quiet == pc'[l] = pc[l]
           Starts == pc'[l] = "select" /\ \A m \in Loops \ {l} : pc'[m] = "off"
           Works == pc[l] # "off" /\ (~Busy(l) /\ Busy(l)' => ~closed)
<1> SUFFICES Quiet \/ Starts \/ Works
  BY DEF Busy, Reporting, Failing, Succeeding
<1> USE ProcessKinds
<1>m. ASSUME NEW p \in Processes, NEW label, Goto(p, label)
      PROVE  pc'[p] = label /\ \A q \in Processes \ {p} : pc'[q] = pc[q]
  BY <1>m DEF Goto, IInv, PcType
<1>1. ASSUME NEW p \in Callers, Choose(p) PROVE Quiet
  BY <1>1, <1>m DEF Choose
<1>2. ASSUME NEW p \in Reporters, Called(p) PROVE Quiet \/ Works
  BY <1>2, <1>m DEF Called, Busy
<1>3. ASSUME NEW p \in Reporters, Report(p) PROVE Quiet \/ Works
  BY <1>3, ReportAway DEF Busy, Reporting, Failing, Succeeding
<1>4. ASSUME NEW m \in Loops, Fire(m) \/ Exit(m) PROVE Quiet \/ Works
  BY <1>4, <1>m DEF Fire, Exit, Busy, Reporting, Failing, Succeeding
<1>5. ASSUME NEW m \in Loops, LooksAtClosed(m) PROVE Quiet \/ Works
  BY <1>5, <1>m DEF LooksAtClosed, Busy, Reporting, Failing, Succeeding
<1>6. ASSUME NEW c \in Stoppers, StartHealthCheck(c) \/ LockAndStop(c) \/ Stopped(c)
      PROVE  Quiet
  BY <1>6, <1>m DEF StartHealthCheck, LockAndStop, Stopped
<1>7. CASE Close
  BY <1>7, <1>m DEF Close
<1>8. ASSUME NEW c \in Stoppers, NEW m \in Loops, Restarted(c, m) PROVE Quiet \/ Starts
  <2>1. CASE m = l
    <3>1. \A k \in Loops : pc[k] = "off"
      BY <1>8 DEF Restarted, Running
    <3>2. pc'[l] = "select" /\ \A k \in Loops \ {l} : pc'[k] = pc[k]
      BY <1>8, <2>1 DEF Restarted, IInv, PcType
    <3> QED
      BY <3>1, <3>2
  <2>2. CASE m # l
    BY <1>8, <2>2 DEF Restarted, IInv, PcType
  <2> QED
    BY <2>1, <2>2
<1>9. CASE Tick \/ UNCHANGED vars
  BY <1>9 DEF Tick, vars
<1> QED
  BY <1>1, <1>2, <1>3, <1>4, <1>5, <1>6, <1>7, <1>8, <1>9
     DEF Next, CallerStep, LoopStep, Finish

Alone == \A l, m \in Loops : pc[l] # "off" /\ pc[m] # "off" => l = m

LEMMA AloneStep == IInv /\ Alone /\ [Next]_vars => Alone'
<1> SUFFICES ASSUME IInv, Alone, [Next]_vars,
                    NEW l \in Loops, NEW m \in Loops, pc'[l] # "off", pc'[m] # "off"
             PROVE  l = m
  BY DEF Alone
<1> QED
  BY LoopMoves DEF Alone

(* However StartHealthCheck and Close interleave, and however many loops   *)
(* were started before, one of them runs at most.                          *)
THEOREM OneLoopOnly == Spec => []OneLoop
<1>1. Init => Alone
  BY ProcessKinds DEF Init, Alone
<1>2. Alone => OneLoop
  <2> SUFFICES ASSUME Alone PROVE Cardinality(Running) <= 1
    BY DEF OneLoop
  <2>1. CASE Running = {}
    BY <2>1, FS_EmptySet
  <2>2. CASE Running # {}
    <3>1. PICK l : Running = {l}
      BY <2>2 DEF Alone, Running
    <3> QED
      BY <3>1, FS_Singleton
  <2> QED
    BY <2>1, <2>2
<1> QED
  BY <1>1, <1>2, TypeInit, TypeNext, AloneStep, PTL DEF Spec

SilentInv ==
  /\ pc[Closer] # "idle" => closed
  /\ pc[Closer] = "closed" => \A l \in Loops : ~Busy(l)

LEMMA SilentStep == IInv /\ SilentInv /\ [Next]_vars => SilentInv'
<1> SUFFICES ASSUME IInv, SilentInv, [Next]_vars PROVE SilentInv'
  OBVIOUS
<1> USE ProcessKinds
<1>m. ASSUME NEW p \in Processes, NEW label, Goto(p, label)
      PROVE  pc'[p] = label /\ \A q \in Processes \ {p} : pc'[q] = pc[q]
  BY <1>m DEF Goto, IInv, PcType
<1> DEFINE Same == pc'[Closer] = pc[Closer] /\ (closed => closed')
           Leaves == closed /\ closed' /\ pc'[Closer] # "closed"
           Ends == closed /\ closed' /\ pc'[Closer] = "closed" /\ \A l \in Loops : pc'[l] = "off"
<1>1. Same \/ Leaves \/ Ends \/ (pc'[Closer] = "lock" /\ closed')
  <2>1. ASSUME NEW p \in Reporters, Choose(p) \/ Called(p) \/ Fire(p) \/ LooksAtClosed(p) \/ Exit(p)
        PROVE  Same
    BY <2>1, <1>m DEF Choose, Called, Fire, LooksAtClosed, Exit
  <2>2. ASSUME NEW p \in Reporters, Report(p) PROVE Same
    <3>1. UNCHANGED closed
      BY <2>2 DEF Report, Add, StoreUntil, EmitOpen, LoadCount, ResetCount, ResetUntil, EmitRecover
    <3> QED
      BY <2>2, <3>1, ReportAway
  <2>3. ASSUME NEW c \in Controllers, StartHealthCheck(c) PROVE Same
    BY <2>3, <1>m, BreakerAssumption DEF StartHealthCheck
  <2>4. CASE Close
    BY <2>4, <1>m DEF Close
  <2>5. ASSUME NEW c \in Stoppers, LockAndStop(c) PROVE Same \/ Leaves
    BY <2>5, <1>m DEF LockAndStop, SilentInv
  <2>6. ASSUME NEW c \in Stoppers, Stopped(c) PROVE Same \/ Ends
    <3>1. CASE c = Closer
      <4>1. \A l \in Loops : pc[l] = "off"
        BY <2>6 DEF Stopped, Running
      <4> QED
        BY <2>6, <3>1, <4>1, <1>m DEF Stopped, AfterWait, SilentInv
    <3>2. CASE c # Closer
      BY <2>6, <3>2, <1>m DEF Stopped, AfterWait
    <3> QED
      BY <3>1, <3>2
  <2>7. ASSUME NEW c \in Stoppers, NEW l \in Loops, Restarted(c, l) PROVE Same
    <3>1. c # Closer
      BY <2>7, BreakerAssumption DEF Restarted, IInv, DataType
    <3> QED
      BY <2>7, <3>1 DEF Restarted, IInv, PcType
  <2>8. CASE Tick \/ UNCHANGED vars
    BY <2>8 DEF Tick, vars
  <2> QED
    BY <2>1, <2>2, <2>3, <2>4, <2>5, <2>6, <2>7, <2>8 DEF Next, CallerStep, LoopStep, Finish
<1>2. CASE Same
  BY <1>2, LoopMoves DEF SilentInv
<1>3. CASE Leaves \/ (pc'[Closer] = "lock" /\ closed')
  BY <1>3 DEF SilentInv
<1>4. CASE Ends
  BY <1>4 DEF SilentInv, Busy, Reporting, Failing, Succeeding
<1> QED
  BY <1>1, <1>2, <1>3, <1>4

(* Once Close has returned no loop reaches a provider, although loops may  *)
(* still be started.                                                       *)
THEOREM SilentWhenClosed == Spec => []SilentAfterClose
<1>1. Init => SilentInv
  BY ProcessKinds DEF Init, SilentInv
<1>2. IInv /\ SilentInv => SilentAfterClose
  BY ProcessKinds DEF IInv, PcType, Label, SilentInv, Busy, SilentAfterClose
<1> QED
  BY <1>1, <1>2, TypeInit, TypeNext, SilentStep, PTL DEF Spec

-----------------------------------------------------------------------------
(* The breaker.                                                            *)

Full == failCount = MaxFailures

\* p is going to emit recover.
Recovers(p) ==
  pc[p] = "emitRecover" \/ (pc[p] \in {"resetCount", "resetUntil"} /\ wasFailed[p])

AtWork(p) == pc[p] \in Failing \cup Succeeding

\* While reports do not mix there are phases of failures, phases of
\* successes, and rest, in which breaker and events agree.
PhaseInv ==
  /\ \/ \A p \in Reporters : pc[p] \notin Failing
     \/ \A p \in Reporters : pc[p] \notin Succeeding
  /\ (\A p \in Reporters : ~AtWork(p)) => (Open <=> Full) /\ (Open <=> heard = "open")
  /\ \A p \in Reporters :
       /\ pc[p] \in Failing => Full
       /\ pc[p] = "emitOpen" => Open
       /\ pc[p] \in {"resetUntil", "emitRecover"} => failCount = 0
       /\ pc[p] = "emitRecover" => ~Open
       /\ pc[p] \in Succeeding /\ heard = "open" => \E q \in Reporters : Recovers(q)

UnmixedInv == ~mixed => PhaseInv

\* Steps that are no part of a report.
LEMMA OtherSteps ==
  ASSUME IInv, [Next]_vars, \A p \in Reporters : ~Report(p)
  PROVE  /\ UNCHANGED <<failCount, wasFailed, heard, mixed>> /\ Open' = Open
         /\ \A p \in Reporters : pc'[p] = pc[p] \/ (~AtWork(p) /\ ~AtWork(p)')
<1> USE ProcessKinds
<1>m. ASSUME NEW p \in Processes, NEW label, Goto(p, label)
      PROVE  pc'[p] = label /\ \A q \in Processes \ {p} : pc'[q] = pc[q]
  BY <1>m DEF Goto, IInv, PcType
<1> DEFINE Still == UNCHANGED <<failCount, failUntil, wasFailed, heard, mixed>>
           Away == \A p \in Reporters : pc'[p] = pc[p] \/ (~AtWork(p) /\ ~AtWork(p)')
<1>0. Tick => UNCHANGED <<failCount, wasFailed, heard, mixed>> /\ Open' = Open
  BY DEF IInv, DataType, Tick, Open, Unset
<1> SUFFICES (Still \/ Tick) /\ Away
  BY <1>0, Zenon DEF Open
<1>1. ASSUME NEW p \in Reporters, Choose(p) \/ Called(p) PROVE Still /\ Away
  BY <1>1, <1>m DEF Choose, Called, breaker, AtWork, Failing, Succeeding
<1>2. ASSUME NEW p \in Reporters, Fire(p) \/ LooksAtClosed(p) \/ Exit(p) PROVE Still /\ Away
  BY <1>2, <1>m DEF Fire, LooksAtClosed, Exit, breaker, AtWork, Failing, Succeeding
<1>3. ASSUME NEW c \in Stoppers, StartHealthCheck(c) \/ LockAndStop(c) \/ Stopped(c)
      PROVE  Still /\ Away
  BY <1>3, <1>m DEF StartHealthCheck, LockAndStop, Stopped, breaker
<1>4. CASE Close
  BY <1>4, <1>m DEF Close, breaker
<1>5. ASSUME NEW c \in Stoppers, NEW l \in Loops, Restarted(c, l) PROVE Still /\ Away
  <2>1. pc[l] = "off"
    BY <1>5 DEF Restarted, Running
  <2>2. pc'[l] = "select" /\ \A q \in Reporters \ {l} : pc'[q] = pc[q]
    BY <1>5 DEF Restarted, IInv, PcType
  <2> QED
    BY <1>5, <2>1, <2>2 DEF Restarted, breaker, AtWork, Failing, Succeeding
<1>6. CASE Tick
  BY <1>6 DEF Tick
<1>7. CASE UNCHANGED vars
  BY <1>7 DEF vars, breaker
<1> QED
  BY <1>1, <1>2, <1>3, <1>4, <1>5, <1>6, <1>7 DEF Next, CallerStep, LoopStep, Finish

LEMMA PhaseOther ==
  ASSUME IInv, UnmixedInv, [Next]_vars, \A p \in Reporters : ~Report(p)
  PROVE  UnmixedInv'
<1> SUFFICES ASSUME ~mixed' PROVE PhaseInv'
  BY DEF UnmixedInv
<1>1. PhaseInv /\ UNCHANGED <<failCount, wasFailed, heard>> /\ Open' = Open
  BY OtherSteps DEF UnmixedInv
<1>2. \A p \in Reporters : AtWork(p)' => pc'[p] = pc[p]
  BY OtherSteps
<1>3. \A p \in Reporters : AtWork(p) => pc'[p] = pc[p]
  BY OtherSteps
<1>4. \A p \in Reporters : Recovers(p) => Recovers(p)'
  BY <1>1, <1>3 DEF Recovers, AtWork, Succeeding
<1> QED
  BY <1>1, <1>2, <1>3, <1>4 DEF PhaseInv, Full, AtWork, Failing, Succeeding

\* A report returns to a label outside of any report.
LEMMA Returned ==
  ASSUME IInv, NEW p \in Reporters, Return(p)
  PROVE  ~AtWork(p)' /\ \A q \in Reporters \ {p} : pc'[q] = pc[q]
  BY ReporterReturns, ProcessKinds DEF IInv, AtWork, Failing, Succeeding

LEMMA Moved ==
  ASSUME IInv, NEW p \in Reporters, NEW label \in Reporting, Goto(p, label)
  PROVE  pc'[p] = label /\ \A q \in Reporters \ {p} : pc'[q] = pc[q]
  BY ReporterMoves, ProcessKinds DEF IInv

LEMMA FailureSteps ==
  ASSUME IInv, UnmixedInv, NEW p \in Reporters, Add(p) \/ StoreUntil(p) \/ EmitOpen(p)
  PROVE  UnmixedInv'
<1> SUFFICES ASSUME ~mixed' PROVE PhaseInv'
  BY DEF UnmixedInv
<1> USE DEF Failing, Succeeding, AtWork, Open, Full
<1>t. MaxFailures \in Nat \ {0} /\ failCount \in 0..MaxFailures /\ Cooldown \in Nat \ {0}
  BY BreakerAssumption DEF IInv, DataType
<1>l. {"storeUntil", "emitOpen"} \subseteq Reporting
  BY DEF Reporting
<1>1. PhaseInv
  BY DEF UnmixedInv, Add, StoreUntil, EmitOpen
<1>2. CASE Add(p)
  <2>1. \A q \in Reporters : pc[q] \notin Succeeding
    BY <1>2 DEF Add, Within
  <2>2. UNCHANGED <<failUntil, heard>>
    BY <1>2 DEF Add
  <2>3. CASE failCount + 1 >= MaxFailures
    <3>1. pc'[p] = "storeUntil" /\ \A q \in Reporters \ {p} : pc'[q] = pc[q]
      BY <1>2, <1>l, <2>3, Moved DEF Add
    <3>2. failCount' = MaxFailures
      BY <1>2, <1>t, <2>3 DEF Add
    <3> QED
      BY <1>1, <2>1, <2>2, <3>1, <3>2 DEF PhaseInv
  <2>4. CASE ~(failCount + 1 >= MaxFailures)
    <3>1. ~AtWork(p)' /\ \A q \in Reporters \ {p} : pc'[q] = pc[q]
      BY <1>2, <2>4, Returned DEF Add
    <3>2. failCount # MaxFailures /\ failCount' # MaxFailures
      BY <1>2, <1>t, <2>4 DEF Add
    <3>3. ~AtWork(p) /\ \A q \in Reporters : ~AtWork(q)
      BY <1>1, <1>2, <2>1, <3>2 DEF PhaseInv, Add
    <3>4. \A q \in Reporters : ~AtWork(q)'
      BY <3>1, <3>3
    <3> QED
      BY <1>1, <2>2, <3>2, <3>3, <3>4 DEF PhaseInv
  <2> QED
    BY <2>3, <2>4
<1>3. CASE StoreUntil(p)
  <2>1. pc'[p] = "emitOpen" /\ \A q \in Reporters \ {p} : pc'[q] = pc[q]
    BY <1>3, <1>l, Moved DEF StoreUntil
  <2>2. failUntil' # Unset /\ UNCHANGED <<failCount, heard>>
    BY <1>3, <1>t DEF StoreUntil, Unset
  <2>3. pc[p] \in Failing /\ \A q \in Reporters : pc[q] \notin Succeeding
    BY <1>1, <1>3 DEF StoreUntil, PhaseInv
  <2> QED
    BY <1>1, <2>1, <2>2, <2>3 DEF PhaseInv
<1>4. CASE EmitOpen(p)
  <2>1. ~AtWork(p)' /\ \A q \in Reporters \ {p} : pc'[q] = pc[q]
    BY <1>4, Returned DEF EmitOpen
  <2>2. heard' = "open" /\ UNCHANGED <<failCount, failUntil>>
    BY <1>4 DEF EmitOpen
  <2>3. Open /\ Full /\ \A q \in Reporters : pc[q] \notin Succeeding
    BY <1>1, <1>4 DEF EmitOpen, PhaseInv
  <2> QED
    BY <1>1, <2>1, <2>2, <2>3 DEF PhaseInv
<1> QED
  BY <1>2, <1>3, <1>4

LEMMA SuccessSteps ==
  ASSUME IInv, UnmixedInv, NEW p \in Reporters,
         LoadCount(p) \/ ResetCount(p) \/ ResetUntil(p) \/ EmitRecover(p)
  PROVE  UnmixedInv'
<1> SUFFICES ASSUME ~mixed' PROVE PhaseInv'
  BY DEF UnmixedInv
<1> USE DEF Failing, Succeeding, AtWork, Open, Full
<1>t. MaxFailures \in Nat \ {0} /\ failCount \in 0..MaxFailures /\ wasFailed \in [Reporters -> BOOLEAN]
  BY BreakerAssumption DEF IInv, DataType
<1>l. {"resetCount", "resetUntil", "emitRecover"} \subseteq Reporting
  BY DEF Reporting
<1>1. PhaseInv
  BY DEF UnmixedInv, LoadCount, ResetCount, ResetUntil, EmitRecover
<1>2. CASE LoadCount(p)
  <2>1. \A q \in Reporters : pc[q] \notin Failing
    BY <1>2 DEF LoadCount, Within
  <2>2. UNCHANGED <<failCount, failUntil, heard>> /\ pc[p] = "load"
    BY <1>2 DEF LoadCount
  <2>3. pc'[p] = "resetCount" /\ \A q \in Reporters \ {p} : pc'[q] = pc[q]
    BY <1>2, <1>l, Moved DEF LoadCount
  <2>4. \A q \in Reporters \ {p} : wasFailed'[q] = wasFailed[q]
    BY <1>2, <1>t, Zenon DEF LoadCount
  <2>5. heard = "open" => \E q \in Reporters : Recovers(q)'
    <3>1. CASE \A q \in Reporters : ~AtWork(q)
      <4>1. heard = "open" => failCount > 0
        BY <1>1, <1>t, <3>1 DEF PhaseInv
      <4>2. heard = "open" => wasFailed'[p] = TRUE
        BY <1>2, <1>t, <4>1, Zenon DEF LoadCount
      <4> QED
        BY <2>3, <4>2 DEF Recovers
    <3>2. CASE \E q \in Reporters : AtWork(q)
      <4>1. heard = "open" => \E q \in Reporters : Recovers(q)
        BY <1>1, <2>1, <3>2 DEF PhaseInv
      <4> QED
        BY <2>2, <2>3, <2>4, <4>1 DEF Recovers
    <3> QED
      BY <3>1, <3>2
  <2> QED
    BY <1>1, <2>1, <2>2, <2>3, <2>5 DEF PhaseInv
<1>3. CASE ResetCount(p)
  <2>1. pc[p] = "resetCount" /\ failCount' = 0 /\ UNCHANGED <<failUntil, heard, wasFailed>>
    BY <1>3 DEF ResetCount
  <2>2. pc'[p] = "resetUntil" /\ \A q \in Reporters \ {p} : pc'[q] = pc[q]
    BY <1>3, <1>l, Moved DEF ResetCount
  <2>3. \A q \in Reporters : pc[q] \notin Failing
    BY <1>1, <2>1 DEF PhaseInv
  <2>4. heard = "open" => \E q \in Reporters : Recovers(q)'
    BY <1>1, <2>1, <2>2 DEF PhaseInv, Recovers
  <2> QED
    BY <1>1, <2>1, <2>2, <2>3, <2>4 DEF PhaseInv
<1>4. CASE ResetUntil(p)
  <2>1. pc[p] = "resetUntil" /\ failUntil' = Unset /\ UNCHANGED <<failCount, heard>>
    BY <1>4 DEF ResetUntil
  <2>2. \A q \in Reporters \ {p} : wasFailed'[q] = wasFailed[q]
    BY <1>4, <1>t DEF ResetUntil
  <2>3. failCount = 0 /\ failCount # MaxFailures /\ \A q \in Reporters : pc[q] \notin Failing
    BY <1>1, <1>t, <2>1 DEF PhaseInv
  <2>4. heard = "open" => \E q \in Reporters : Recovers(q)
    BY <1>1, <2>1 DEF PhaseInv
  <2>5. CASE wasFailed[p]
    <3>1. pc'[p] = "emitRecover" /\ \A q \in Reporters \ {p} : pc'[q] = pc[q]
      BY <1>4, <1>l, <2>5, Moved DEF ResetUntil
    <3>2. Recovers(p)'
      BY <3>1 DEF Recovers
    <3> QED
      BY <1>1, <2>1, <2>3, <3>1, <3>2 DEF PhaseInv
  <2>6. CASE ~wasFailed[p]
    <3>1. ~AtWork(p)' /\ \A q \in Reporters \ {p} : pc'[q] = pc[q]
      BY <1>4, <2>6, Returned DEF ResetUntil
    <3>2. heard = "open" => \E q \in Reporters \ {p} : Recovers(q)
      BY <2>1, <2>4, <2>6 DEF Recovers
    <3>3. heard = "open" => \E q \in Reporters : Recovers(q)' /\ AtWork(q)'
      BY <2>2, <3>1, <3>2 DEF Recovers
    <3>4. heard \in {"open", "recover"}
      BY DEF IInv, DataType
    <3> QED
      BY <1>1, <2>1, <2>3, <3>1, <3>3, <3>4 DEF PhaseInv
  <2> QED
    BY <2>5, <2>6
<1>5. CASE EmitRecover(p)
  <2>1. pc[p] = "emitRecover" /\ heard' = "recover" /\ UNCHANGED <<failCount, failUntil, wasFailed>>
    BY <1>5 DEF EmitRecover
  <2>2. ~AtWork(p)' /\ \A q \in Reporters \ {p} : pc'[q] = pc[q]
    BY <1>5, Returned DEF EmitRecover
  <2>3. ~Open /\ failCount = 0 /\ failCount # MaxFailures /\ \A q \in Reporters : pc[q] \notin Failing
    BY <1>1, <1>t, <2>1 DEF PhaseInv
  <2> QED
    BY <1>1, <2>1, <2>2, <2>3 DEF PhaseInv
<1> QED
  BY <1>2, <1>3, <1>4, <1>5

(* For any number of callers and loops: as long as no success overlaps a   *)
(* failure, the cooldown, the counter and the events agree at rest.        *)
THEOREM ConsistentBreaker == Spec => []ConsistentUnlessMixed
<1>1. Init => UnmixedInv
  BY ProcessKinds, BreakerAssumption
     DEF Init, UnmixedInv, PhaseInv, Open, Full, AtWork, Failing, Succeeding
<1>2. IInv /\ UnmixedInv /\ [Next]_vars => UnmixedInv'
  BY FailureSteps, SuccessSteps, PhaseOther DEF Report
<1>3. UnmixedInv => ConsistentUnlessMixed
  <2> SUFFICES ASSUME UnmixedInv, AtRest, ~mixed
               PROVE  (Open <=> Full) /\ (Open <=> heard = "open")
    BY DEF ConsistentUnlessMixed, Full
  <2>1. \A p \in Reporters : ~AtWork(p)
    BY DEF AtRest, Within, AtWork, Reporting, Failing, Succeeding
  <2> QED
    BY <2>1 DEF UnmixedInv, PhaseInv
<1> QED
  BY <1>1, <1>2, <1>3, TypeInit, TypeNext, PTL DEF Spec

=============================================================================
