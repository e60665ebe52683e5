------------------------------- MODULE Registry -------------------------------
(***************************************************************************)
(* The provider list of internal/engine/scheduler.go: ApplyConfig replaces *)
(* it under the write lock of an RWMutex while calls pick providers from   *)
(* it, by index (pickWithRouter, ChatCompleteWithFallback) or through the  *)
(* cache of available providers (PickPrimaryProvider,                      *)
(* PickProviderRoundRobin).                                                *)
(*                                                                         *)
(* ApplyConfig makes new provider instances, so an instance is named by    *)
(* the generation of the list it belongs to and its index.  A section      *)
(* between RLock and RUnlock is one step.  What IsAvailable returns is any *)
(* value: the breaker of a provider opens and closes at any time.  What a  *)
(* router returns is any value that satisfies the checks of its caller.    *)
(***************************************************************************)
EXTENDS Integers, Sequences, FiniteSets, SequencesExt

CONSTANTS
  Callers,     \* the goroutines that pick a provider
  Appliers,    \* the goroutines that call ApplyConfig
  Configs,     \* the configurations: the MaxConcurrent of each provider
  InitConfig,  \* the providers given to NewScheduler, none without a name
  MaxLen,      \* an upper bound of the lengths of configurations
  MaxInstalls, \* bound: how many lists are ever installed
  RRPeriod,    \* a common multiple of 1..MaxLen; rrIndex is kept modulo it
  NoProc       \* nobody

ASSUME RegistryAssumption ==
  /\ NoProc \notin Callers \cup Appliers
  /\ Callers \cap Appliers = {}
  /\ Configs \cup {InitConfig} \subseteq Seq(Int)
  /\ MaxLen \in Nat
  /\ \A c \in Configs \cup {InitConfig} : Len(c) <= MaxLen
  /\ MaxInstalls \in Nat \ {0}
  /\ RRPeriod \in Nat \ {0} /\ \A n \in 1..MaxLen : RRPeriod % n = 0

VARIABLES
  installs, \* the lists installed so far; the last one is s.providers
  writer,   \* the ApplyConfig that has called mu.Lock: readers wait
  arg,      \* its configuration
  maxConc,  \* the capacity of the semaphore
  cache,    \* availCache: a snapshot and whether it is younger than the TTL
  rrIndex,
  mode,     \* what a caller is after
  pc,
  seen,     \* the snapshot a caller works with
  result    \* the instances its last call settled on

vars == <<installs, writer, arg, maxConc, cache, rrIndex, mode, pc, seen, result>>

Modes == {"route", "primary", "roundRobin", "sequence"}

\* The providers that were available in a list, by index.
Snapshot == [gen : Nat, up : SUBSET (1..MaxLen)]
NoSnapshot == [gen |-> 0, up |-> {}]
Instance == [gen : Nat, idx : 1..MaxLen]

CallerLabels == {"idle", "status", "index", "cache", "read", "store", "pick",
                 "panicked"}
ApplierLabels == {"idle", "lock", "install", "invalidate", "capacity"}

Gen == Len(installs)
Providers == installs[Gen]

\* MaxConcurrent, 2 where it is not set.
Slots(n) == IF n <= 0 THEN 2 ELSE n

TotalSlots(config) ==
  LET sum == FoldSeq(LAMBDA n, total : total + Slots(n), 0, config)
  IN  IF sum > 0 THEN sum ELSE 4

TypeOK ==
  /\ installs \in Seq(Configs \cup {InitConfig})
  /\ installs # <<>>
  /\ writer \in Appliers \cup {NoProc}
  /\ arg \in [Appliers -> Configs \cup {InitConfig}]
  /\ maxConc \in {TotalSlots(c) : c \in Configs \cup {InitConfig}}
  /\ cache \in [snap : Snapshot, fresh : BOOLEAN]
  /\ rrIndex \in 0..(RRPeriod - 1)
  /\ mode \in [Callers -> Modes]
  /\ pc \in [Callers \cup Appliers -> CallerLabels \cup ApplierLabels]
  /\ seen \in [Callers -> Snapshot]
  /\ result \in [Callers -> SUBSET Instance]

Init ==
  /\ installs = <<InitConfig>>
  /\ writer = NoProc
  /\ arg = [a \in Appliers |-> InitConfig]
  /\ maxConc = TotalSlots(InitConfig)
  /\ cache = [snap |-> NoSnapshot, fresh |-> FALSE]
  /\ rrIndex = 0
  /\ mode = [p \in Callers |-> "route"]
  /\ pc = [p \in Callers \cup Appliers |-> "idle"]
  /\ seen = [p \in Callers |-> NoSnapshot]
  /\ result = [p \in Callers |-> {}]

Goto(p, label) == pc' = [pc EXCEPT ![p] = label]

\* RLock waits for a writer that holds the lock or has asked for it.
Readable == writer = NoProc

\* The goroutines that panicked between RLock and RUnlock.
Leaked == {p \in Callers : pc[p] = "panicked"}

-----------------------------------------------------------------------------
(* Mutants: plausible bugs, each standing in for a definition in one check. *)

\* mu is released before the capacity is set.
InvalidateUnlocks(a) ==
  /\ pc[a] = "invalidate"
  /\ cache' = [cache EXCEPT !.snap = NoSnapshot]
  /\ writer' = NoProc
  /\ Goto(a, "capacity")
  /\ UNCHANGED <<installs, arg, maxConc, rrIndex, mode, seen, result>>

\* A cached list is used whatever its age.
CacheHitForever == cache.snap # NoSnapshot

\* The index is taken from the status as if it were counted from 1.
IndexOffByOne(p, i) == i + 1

\* ApplyConfig returns without unlocking mu.
SetCapacityKeepsLock(a) ==
  /\ pc[a] = "capacity"
  /\ maxConc' = TotalSlots(arg[a])
  /\ Goto(a, "idle")
  /\ UNCHANGED <<installs, writer, arg, cache, rrIndex, mode, seen, result>>

-----------------------------------------------------------------------------
(* ApplyConfig.                                                            *)

StartApply(a, config) ==
  /\ pc[a] = "idle"
  /\ Gen + Cardinality({b \in Appliers : pc[b] \in {"lock", "install"}}) < MaxInstalls
  /\ arg' = [arg EXCEPT ![a] = config]
  /\ Goto(a, "lock")
  /\ UNCHANGED <<installs, writer, maxConc, cache, rrIndex, mode, seen, result>>

\* Lock excludes other writers and turns new readers away ...
Announce(a) ==
  /\ pc[a] = "lock"
  /\ writer = NoProc
  /\ writer' = a
  /\ Goto(a, "install")
  /\ UNCHANGED <<installs, arg, maxConc, cache, rrIndex, mode, seen, result>>

\* ... and returns when the readers it found are gone.
Install(a) ==
  /\ pc[a] = "install"
  /\ Leaked = {}
  /\ installs' = Append(installs, arg[a])
  /\ Goto(a, "invalidate")
  /\ UNCHANGED <<writer, arg, maxConc, cache, rrIndex, mode, seen, result>>

Invalidate(a) ==
  /\ pc[a] = "invalidate"
  /\ cache' = [snap |-> NoSnapshot, fresh |-> FALSE]
  /\ Goto(a, "capacity")
  /\ UNCHANGED <<installs, writer, arg, maxConc, rrIndex, mode, seen, result>>

SetCapacity(a) ==
  /\ pc[a] = "capacity"
  /\ maxConc' = TotalSlots(arg[a])
  /\ arg' = [arg EXCEPT ![a] = InitConfig]
  /\ writer' = NoProc
  /\ Goto(a, "idle")
  /\ UNCHANGED <<installs, cache, rrIndex, mode, seen, result>>

-----------------------------------------------------------------------------
(* Picking by index: pickWithRouter and pickWithSpecificRouter.            *)

StartCall(p, m) ==
  /\ pc[p] = "idle"
  /\ mode' = [mode EXCEPT ![p] = m]
  /\ result' = [result EXCEPT ![p] = {}]
  /\ Goto(p, IF m = "route" THEN "status" ELSE "cache")
  /\ UNCHANGED <<installs, writer, arg, maxConc, cache, rrIndex, seen>>

Finish(p, picked) ==
  /\ result' = [result EXCEPT ![p] = picked]
  /\ seen' = [seen EXCEPT ![p] = NoSnapshot]
  /\ mode' = [mode EXCEPT ![p] = "route"]
  /\ Goto(p, "idle")

\* ProviderStatus; no available provider ends the call.
ReadStatus(p) ==
  /\ pc[p] = "status"
  /\ Readable
  /\ \E up \in SUBSET (1..Len(Providers)) :
       IF up = {}
       THEN Finish(p, {})
       ELSE /\ seen' = [seen EXCEPT ![p] = [gen |-> Gen, up |-> up]]
            /\ Goto(p, "index")
            /\ UNCHANGED <<mode, result>>
  /\ UNCHANGED <<installs, writer, arg, maxConc, cache, rrIndex>>

\* The position in s.providers of the provider at i of the status.
IndexOf(p, i) == i

\* s.providers[i] with an i of the earlier status, under a new RLock that
\* nobody releases when the index is out of range.
PickByIndex(p) ==
  /\ pc[p] = "index"
  /\ Readable
  /\ \E i \in seen[p].up :
       IF IndexOf(p, i) <= Len(Providers)
       THEN Finish(p, {[gen |-> Gen, idx |-> IndexOf(p, i)]})
       ELSE Goto(p, "panicked") /\ UNCHANGED <<mode, seen, result>>
  /\ UNCHANGED <<installs, writer, arg, maxConc, cache, rrIndex>>

-----------------------------------------------------------------------------
(* AvailableProviders, and the three ways its result is used.              *)

CacheHit == cache.fresh

LoadCache(p) ==
  /\ pc[p] = "cache"
  /\ \/ /\ CacheHit
        /\ seen' = [seen EXCEPT ![p] = cache.snap]
        /\ Goto(p, "pick")
     \/ /\ ~CacheHit
        /\ Goto(p, "read")
        /\ UNCHANGED seen
  /\ UNCHANGED <<installs, writer, arg, maxConc, cache, rrIndex, mode, result>>

\* The list is read under RLock; the breakers are asked afterwards.
ReadProviders(p) ==
  /\ pc[p] = "read"
  /\ Readable
  /\ \E up \in SUBSET (1..Len(Providers)) :
       seen' = [seen EXCEPT ![p] = [gen |-> Gen, up |-> up]]
  /\ Goto(p, "store")
  /\ UNCHANGED <<installs, writer, arg, maxConc, cache, rrIndex, mode, result>>

StoreCache(p) ==
  /\ pc[p] = "store"
  /\ cache' = [snap |-> seen[p], fresh |-> TRUE]
  /\ Goto(p, "pick")
  /\ UNCHANGED <<installs, writer, arg, maxConc, rrIndex, mode, seen, result>>

Expire ==
  /\ cache.fresh
  /\ cache' = [cache EXCEPT !.fresh = FALSE]
  /\ UNCHANGED <<installs, writer, arg, maxConc, rrIndex, mode, pc, seen, result>>

Seen(p, i) == [gen |-> seen[p].gen, idx |-> i]

PickNone(p) ==
  /\ pc[p] = "pick"
  /\ seen[p].up = {}
  /\ Finish(p, {})
  /\ UNCHANGED <<installs, writer, arg, maxConc, cache, rrIndex>>

PickPrimary(p) ==
  /\ pc[p] = "pick"
  /\ mode[p] = "primary"
  /\ \E i \in seen[p].up :
       /\ \A j \in seen[p].up : i <= j
       /\ Finish(p, {Seen(p, i)})
  /\ UNCHANGED <<installs, writer, arg, maxConc, cache, rrIndex>>

\* available[(newVal - 1) % len(available)]
PickRoundRobin(p) ==
  /\ pc[p] = "pick"
  /\ mode[p] = "roundRobin"
  /\ seen[p].up # {}
  /\ rrIndex' = (rrIndex + 1) % RRPeriod
  /\ \E i \in seen[p].up :
       /\ Cardinality({j \in seen[p].up : j < i})
            = rrIndex % Cardinality(seen[p].up)
       /\ Finish(p, {Seen(p, i)})
  /\ UNCHANGED <<installs, writer, arg, maxConc, cache>>

\* Without a router the available providers are tried in order.  With one,
\* the indices of its sequence are looked up in the list as it is then, those
\* out of range are dropped, and the available providers are the fallback.
PickSequence(p) ==
  /\ pc[p] = "pick"
  /\ mode[p] = "sequence"
  /\ seen[p].up # {}
  /\ \/ Finish(p, {Seen(p, i) : i \in seen[p].up})
     \/ /\ Readable
        /\ \E chosen \in SUBSET (1..Len(Providers)) \ {{}} :
             Finish(p, {[gen |-> Gen, idx |-> i] : i \in chosen})
  /\ UNCHANGED <<installs, writer, arg, maxConc, cache, rrIndex>>

-----------------------------------------------------------------------------
ApplyStep(a) == Announce(a) \/ Install(a) \/ Invalidate(a) \/ SetCapacity(a)

CallStep(p) ==
  \/ ReadStatus(p) \/ PickByIndex(p)
  \/ LoadCache(p) \/ ReadProviders(p) \/ StoreCache(p)
  \/ PickNone(p) \/ PickPrimary(p) \/ PickRoundRobin(p) \/ PickSequence(p)

Next ==
  \/ \E a \in Appliers : ApplyStep(a) \/ \E c \in Configs : StartApply(a, c)
  \/ \E p \in Callers : CallStep(p) \/ \E m \in Modes : StartCall(p, m)
  \/ Expire

Spec == Init /\ [][Next]_vars

\* Goroutines are scheduled, and time passes.
Fairness ==
  /\ \A a \in Appliers : WF_vars(ApplyStep(a))
  /\ \A p \in Callers : WF_vars(CallStep(p))
  /\ WF_vars(Expire)

FairSpec == Spec /\ Fairness

=============================================================================
