-------------------------- MODULE RegistryProperties --------------------------
(***************************************************************************)
(* What replacing the provider list under running calls preserves.         *)
(***************************************************************************)
EXTENDS Registry

(* The capacity of the semaphore is the sum of the slots of the installed  *)
(* providers (scheduler.go 229-259) whenever no ApplyConfig is at work,    *)
(* also when several run at once.                                          *)
CapacityMatchesProviders == writer = NoProc => maxConc = TotalSlots(Providers)

(* A router's index goes through two read sections (scheduler.go 885 and   *)
(* 900 or 908); it falls out of range only when a shorter list was         *)
(* installed in between.                                                   *)
PanicOnlyAfterShrink ==
  \A p \in Leaked :
    \E g \in (seen[p].gen + 1)..Gen : Len(installs[g]) < Len(installs[seen[p].gen])

(* Two lists are never installed by halves: from the moment a list is in   *)
(* place until its capacity is, one ApplyConfig holds mu.                  *)
OneWriter ==
  \A a \in Appliers :
    pc[a] \in {"install", "invalidate", "capacity"} => writer = a

(* An ApplyConfig returns (scheduler.go 230-258) unless a caller panicked  *)
(* inside its read section and took the read lock with it.                 *)
ApplyReturnsUnlessLeaked ==
  \A a \in Appliers : pc[a] = "lock" ~> (pc[a] = "idle" \/ Leaked # {})

Current == [gen : {Gen}, idx : 1..MaxLen]

(* A fill of the cache that started before ApplyConfig overwrites its      *)
(* invalidation (scheduler.go 830-845 against 250), so calls may be given  *)
(* replaced providers; the TTL ends this: once configurations stop, there  *)
(* comes a time after which every call gets providers of the last one.     *)
Converges ==
  <>[][\A p \in Callers : result'[p] = result[p] \/ result'[p] \subseteq Current]_vars

(* A provider call path never panics (DESIGN.md, 2.2.2).                   *)
NoPanic == Leaked = {}

=============================================================================
