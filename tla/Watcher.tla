------------------------------- MODULE Watcher -------------------------------
(***************************************************************************)
(* The watcher of the configuration file (config/watcher.go).  Start makes *)
(* a new stop channel and a new poller; a poller reads the field stopCh    *)
(* anew whenever it waits, so that it may wait for another Stop than the   *)
(* one it was started for.  Channels and pollers are numbered by the Start *)
(* that made them; stopCh is read and closed without the mutex.  What a    *)
(* poller no longer needs is set back to 0 or NoConfig.                    *)
(***************************************************************************)
EXTENDS Naturals, Configuration

CONSTANTS
  Controllers,  \* goroutines that call Start and Stop
  Documents,    \* what the file may hold
  Gone,         \* in place of a document: there is no file
  MaxEdits, MaxStarts

ASSUME WatcherAssumption == MaxEdits \in Nat /\ MaxStarts \in Nat

Pollers == 1..MaxStarts

VARIABLES
  content, modTime,           \* of the file
  lastMod, running, stopCh,   \* of the watcher
  closed,     \* channels
  starts,
  panicked,   \* a channel was closed twice: the process has ended
  ctl,        \* what each controller is at
  mine,       \* the poller it starts
  base,       \* the modification time that its Start has read
  pc,         \* of each poller
  waits,      \* the channel that its select waits for
  seen,       \* the modification time it has read
  cfg,        \* the configuration it has loaded
  applied     \* the configuration last handed to onChange

file == <<content, modTime>>
watcher == <<lastMod, running, stopCh, closed, starts, panicked>>
control == <<ctl, mine, base>>
poller == <<pc, waits, seen, cfg>>
vars == <<file, watcher, control, poller, applied>>

Init ==
  /\ content \in Documents /\ modTime = 1
  /\ lastMod = 0 /\ running = FALSE /\ stopCh = 0
  /\ closed = {} /\ starts = 0 /\ panicked = FALSE
  /\ ctl = [c \in Controllers |-> "idle"]
  /\ mine = [c \in Controllers |-> 0]
  /\ base = [c \in Controllers |-> 0]
  /\ pc = [k \in Pollers |-> "none"]
  /\ waits = [k \in Pollers |-> 0]
  /\ seen = [k \in Pollers |-> 0]
  /\ cfg = [k \in Pollers |-> NoConfig]
  /\ applied = NoConfig

\* Somebody writes, removes or replaces the file; it gets a newer time.
Edit ==
  /\ modTime <= MaxEdits /\ ~panicked
  /\ modTime' = modTime + 1
  /\ content' \in (Documents \cup {Gone}) \ {content}
  /\ UNCHANGED <<watcher, control, poller, applied>>

-----------------------------------------------------------------------------
(* Start and Stop *)

Command(c, from, to) ==
  /\ ctl[c] = from /\ ~panicked
  /\ ctl' = [ctl EXCEPT ![c] = to]
  /\ UNCHANGED <<file, applied>>

Start(c) ==
  /\ Command(c, "idle", "stat")
  /\ ~running /\ starts < MaxStarts
  /\ running' = TRUE
  /\ starts' = starts + 1
  /\ stopCh' = starts'
  /\ mine' = [mine EXCEPT ![c] = starts']
  /\ UNCHANGED <<lastMod, closed, panicked, base, poller>>

StatBase(c) ==
  /\ Command(c, "stat", IF content = Gone THEN "go" ELSE "base")
  /\ base' = [base EXCEPT ![c] = IF content = Gone THEN @ ELSE modTime]
  /\ UNCHANGED <<watcher, mine, poller>>

updateLastMod(c) ==
  /\ Command(c, "base", "go")
  /\ lastMod' = base[c]
  /\ UNCHANGED <<running, stopCh, closed, starts, panicked, mine, base, poller>>

Go(c) ==
  /\ Command(c, "go", "idle")
  /\ pc' = [pc EXCEPT ![mine[c]] = "select"]
  /\ mine' = [mine EXCEPT ![c] = 0]
  /\ UNCHANGED <<watcher, base, waits, seen, cfg>>

Stop(c) ==
  /\ Command(c, "idle", "close")
  /\ running
  /\ running' = FALSE
  /\ UNCHANGED <<lastMod, stopCh, closed, starts, panicked, mine, base, poller>>

\* Mutant: the channel is forgotten, not closed.
Forget(c) ==
  /\ Command(c, "close", "idle")
  /\ UNCHANGED <<watcher, mine, base, poller>>

Close(c) ==
  /\ Command(c, "close", "idle")
  /\ closed' = closed \cup {stopCh}
  /\ panicked' = (stopCh \in closed)
  /\ UNCHANGED <<lastMod, running, stopCh, starts, mine, base, poller>>

-----------------------------------------------------------------------------
(* poll *)

Goto(k, from, to) ==
  /\ pc[k] = from /\ ~panicked
  /\ pc' = [pc EXCEPT ![k] = to]
  /\ UNCHANGED <<file, control>>

Select(k) ==
  /\ Goto(k, "select", "wait")
  /\ waits' = [waits EXCEPT ![k] = stopCh]
  /\ UNCHANGED <<watcher, seen, cfg, applied>>

Stopped(k) ==
  /\ Goto(k, "wait", "ended")
  /\ waits[k] \in closed
  /\ waits' = [waits EXCEPT ![k] = 0]
  /\ UNCHANGED <<watcher, seen, cfg, applied>>

Tick(k) ==
  /\ Goto(k, "wait", "stat")
  /\ waits' = [waits EXCEPT ![k] = 0]
  /\ UNCHANGED <<watcher, seen, cfg, applied>>

Stat(k) ==
  /\ Goto(k, "stat", IF content = Gone THEN "select" ELSE "compare")
  /\ seen' = [seen EXCEPT ![k] = IF content = Gone THEN 0 ELSE modTime]
  /\ UNCHANGED <<watcher, waits, cfg, applied>>

Compare(k) ==
  /\ Goto(k, "compare", IF seen[k] > lastMod THEN "load" ELSE "select")
  /\ seen' = [seen EXCEPT ![k] = IF @ > lastMod THEN @ ELSE 0]
  /\ UNCHANGED <<watcher, waits, cfg, applied>>

Loaded == IF content = Gone THEN NoConfig ELSE LoadConfig(content)

Load(k) ==
  /\ Goto(k, "load", IF Loaded = NoConfig THEN "select" ELSE "store")
  /\ cfg' = [cfg EXCEPT ![k] = Loaded]
  /\ seen' = [seen EXCEPT ![k] = IF Loaded = NoConfig THEN 0 ELSE @]
  /\ UNCHANGED <<watcher, waits, applied>>

\* Mutant: the time is read again.
StoreLatest(k) ==
  /\ Goto(k, "store", "call")
  /\ lastMod' = modTime
  /\ seen' = [seen EXCEPT ![k] = 0]
  /\ UNCHANGED <<running, stopCh, closed, starts, panicked, waits, cfg, applied>>

Store(k) ==
  /\ Goto(k, "store", "call")
  /\ lastMod' = seen[k]
  /\ seen' = [seen EXCEPT ![k] = 0]
  /\ UNCHANGED <<running, stopCh, closed, starts, panicked, waits, cfg, applied>>

onChange(k) ==
  /\ Goto(k, "call", "select")
  /\ applied' = cfg[k]
  /\ cfg' = [cfg EXCEPT ![k] = NoConfig]
  /\ UNCHANGED <<watcher, waits, seen>>

-----------------------------------------------------------------------------

Commands(c) == Start(c) \/ Stop(c)
Finish(c) == StatBase(c) \/ updateLastMod(c) \/ Go(c) \/ Close(c)
checkForChanges(k) == Stat(k) \/ Compare(k) \/ Load(k) \/ Store(k) \/ onChange(k)
poll(k) == Select(k) \/ Tick(k) \/ checkForChanges(k)

Next ==
  \/ Edit
  \/ \E c \in Controllers : Commands(c) \/ Finish(c)
  \/ \E k \in Pollers : poll(k) \/ Stopped(k)

\* A select with two ready cases takes each of them now and then.
Fairness ==
  /\ \A c \in Controllers : WF_vars(Finish(c))
  /\ \A k \in Pollers : WF_vars(poll(k)) /\ SF_vars(Stopped(k))

Spec == Init /\ [][Next]_vars /\ Fairness

=============================================================================
