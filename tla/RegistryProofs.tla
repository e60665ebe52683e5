---------------------------- MODULE RegistryProofs ----------------------------
(***************************************************************************)
(* Proofs that the provider list and the capacity stay in step under the   *)
(* write lock, and that a call panics on an index only after a shorter     *)
(* list was installed.                                                     *)
(***************************************************************************)
EXTENDS RegistryProperties, SequenceTheorems, TLAPS

Config == Configs \cup {InitConfig}

(* The installed list is a configuration, no longer than MaxLen.           *)
LEMMA ProvidersType ==
  TypeOK => /\ Gen \in Nat \ {0}
            /\ Providers \in Config
            /\ 1..Len(Providers) \subseteq 1..MaxLen
<1> SUFFICES ASSUME TypeOK
             PROVE  Gen \in Nat \ {0} /\ Providers \in Config /\ 1..Len(Providers) \subseteq 1..MaxLen
  OBVIOUS
<1>1. Gen \in Nat \ {0} /\ Providers \in Config
  BY DEF TypeOK, Gen, Providers, Config
<1>2. Len(Providers) \in Nat /\ MaxLen \in Nat /\ Len(Providers) <= MaxLen
  BY <1>1, RegistryAssumption DEF Config
<1> QED
  BY <1>1, <1>2

-----------------------------------------------------------------------------
(* Type correctness, one step per action.                                  *)

LEMMA TypeInit == Init => TypeOK
<1> SUFFICES ASSUME Init PROVE TypeOK
  OBVIOUS
<1>1. installs \in Seq(Config) /\ installs # <<>>
  BY DEF Init, Config
<1>2. NoSnapshot \in Snapshot
  BY DEF NoSnapshot, Snapshot
<1>3. pc \in [Callers \cup Appliers -> CallerLabels \cup ApplierLabels]
  BY DEF Init, CallerLabels, ApplierLabels
<1>4. mode \in [Callers -> Modes]
  BY DEF Init, Modes
<1>5. cache \in [snap : Snapshot, fresh : BOOLEAN]
  BY <1>2 DEF Init
<1>6. rrIndex \in 0..(RRPeriod - 1)
  BY RegistryAssumption DEF Init
<1>7. result \in [Callers -> SUBSET Instance] /\ seen \in [Callers -> Snapshot]
  BY <1>2 DEF Init
<1>8. maxConc \in {TotalSlots(c) : c \in Config} /\ arg \in [Appliers -> Config]
  BY DEF Init, Config
<1> QED
  BY <1>1, <1>3, <1>4, <1>5, <1>6, <1>7, <1>8 DEF TypeOK, Init, Config

(* What a finished call leaves is well typed when what it picked is.       *)
LEMMA FinishType ==
  ASSUME TypeOK, NEW p \in Callers, NEW picked \in SUBSET Instance, Finish(p, picked)
  PROVE  /\ result' \in [Callers -> SUBSET Instance]
         /\ seen' \in [Callers -> Snapshot]
         /\ mode' \in [Callers -> Modes]
         /\ pc' \in [Callers \cup Appliers -> CallerLabels \cup ApplierLabels]
<1>1. NoSnapshot \in Snapshot /\ "route" \in Modes /\ "idle" \in CallerLabels
  BY DEF NoSnapshot, Snapshot, Modes, CallerLabels
<1> QED
  BY <1>1 DEF TypeOK, Finish, Goto

LEMMA TypeNext == TypeOK /\ [Next]_vars => TypeOK'
<1> SUFFICES ASSUME TypeOK, [Next]_vars PROVE TypeOK'
  OBVIOUS
<1> USE DEF TypeOK, Goto
<1>0. /\ {"idle", "status", "index", "cache", "read", "store", "pick", "panicked"}
            \subseteq CallerLabels \cup ApplierLabels
      /\ {"lock", "install", "invalidate", "capacity"} \subseteq CallerLabels \cup ApplierLabels
      /\ NoSnapshot \in Snapshot
  BY DEF CallerLabels, ApplierLabels, NoSnapshot, Snapshot
<1>p. Gen \in Nat /\ 1..Len(Providers) \subseteq 1..MaxLen
  BY ProvidersType
<1>s. ASSUME NEW up \in SUBSET (1..Len(Providers))
      PROVE  [gen |-> Gen, up |-> up] \in Snapshot
  BY <1>p DEF Snapshot
<1>1. ASSUME NEW a \in Appliers, NEW c \in Configs, StartApply(a, c) PROVE TypeOK'
  BY <1>0, <1>1 DEF StartApply
<1>2. ASSUME NEW a \in Appliers, Announce(a) PROVE TypeOK'
  BY <1>0, <1>2 DEF Announce
<1>3. ASSUME NEW a \in Appliers, Install(a) PROVE TypeOK'
  <2>1. installs' \in Seq(Config) /\ installs' # <<>>
    BY <1>3, SMTT(30) DEF Install, Config
  <2> QED
    BY <1>0, <1>3, <2>1, SMTT(30) DEF Install, Config
<1>4. ASSUME NEW a \in Appliers, Invalidate(a) PROVE TypeOK'
  BY <1>0, <1>4 DEF Invalidate
<1>5. ASSUME NEW a \in Appliers, SetCapacity(a) PROVE TypeOK'
  BY <1>0, <1>5 DEF SetCapacity
<1>6. ASSUME NEW p \in Callers, NEW m \in Modes, StartCall(p, m) PROVE TypeOK'
  BY <1>0, <1>6 DEF StartCall
<1>7. ASSUME NEW p \in Callers, ReadStatus(p) PROVE TypeOK'
  <2>1. PICK up \in SUBSET (1..Len(Providers)) :
          IF up = {}
          THEN Finish(p, {})
          ELSE /\ seen' = [seen EXCEPT ![p] = [gen |-> Gen, up |-> up]]
               /\ Goto(p, "index")
               /\ UNCHANGED <<mode, result>>
    BY <1>7 DEF ReadStatus
  <2>2. [gen |-> Gen, up |-> up] \in Snapshot
    BY <1>s
  <2>3. CASE up = {}
    BY <1>7, <2>1, <2>3, FinishType DEF ReadStatus
  <2>4. CASE up # {}
    <3>1. /\ seen' = [seen EXCEPT ![p] = [gen |-> Gen, up |-> up]]
          /\ pc' = [pc EXCEPT ![p] = "index"]
          /\ UNCHANGED <<mode, result>>
      BY <2>1, <2>4
    <3>2. seen' \in [Callers -> Snapshot]
      BY <2>2, <3>1
    <3>3. pc' \in [Callers \cup Appliers -> CallerLabels \cup ApplierLabels]
      BY <1>0, <3>1
    <3> QED
      BY <1>7, <3>1, <3>2, <3>3 DEF ReadStatus
  <2> QED
    BY <2>3, <2>4
<1>8. ASSUME NEW p \in Callers, PickByIndex(p) PROVE TypeOK'
  <2>1. PICK i \in seen[p].up :
          IF IndexOf(p, i) <= Len(Providers)
          THEN Finish(p, {[gen |-> Gen, idx |-> IndexOf(p, i)]})
          ELSE Goto(p, "panicked") /\ UNCHANGED <<mode, seen, result>>
    BY <1>8 DEF PickByIndex
  <2>2. {[gen |-> Gen, idx |-> i]} \in SUBSET Instance
    BY <1>p DEF Instance, Snapshot
  <2>3. CASE i <= Len(Providers)
    BY <1>8, <2>1, <2>2, <2>3, FinishType DEF PickByIndex, IndexOf
  <2>4. CASE ~(i <= Len(Providers))
    BY <1>0, <1>8, <2>1, <2>4 DEF PickByIndex, IndexOf
  <2> QED
    BY <2>3, <2>4
<1>9. ASSUME NEW p \in Callers, LoadCache(p) PROVE TypeOK'
  BY <1>0, <1>9 DEF LoadCache
<1>10. ASSUME NEW p \in Callers, ReadProviders(p) PROVE TypeOK'
  <2>1. PICK up \in SUBSET (1..Len(Providers)) :
          seen' = [seen EXCEPT ![p] = [gen |-> Gen, up |-> up]]
    BY <1>10 DEF ReadProviders
  <2>2. [gen |-> Gen, up |-> up] \in Snapshot
    BY <1>s
  <2> QED
    BY <1>0, <1>10, <2>1, <2>2 DEF ReadProviders
<1>11. ASSUME NEW p \in Callers, StoreCache(p) PROVE TypeOK'
  BY <1>0, <1>11 DEF StoreCache
<1>12. ASSUME NEW p \in Callers, PickNone(p) PROVE TypeOK'
  BY <1>12, FinishType DEF PickNone
<1>13. ASSUME NEW p \in Callers, PickPrimary(p) PROVE TypeOK'
  <2>1. PICK i \in seen[p].up : Finish(p, {Seen(p, i)})
    BY <1>13 DEF PickPrimary
  <2>2. {Seen(p, i)} \in SUBSET Instance
    BY DEF Seen, Instance, Snapshot
  <2> QED
    BY <1>13, <2>1, <2>2, FinishType DEF PickPrimary
<1>14. ASSUME NEW p \in Callers, PickRoundRobin(p) PROVE TypeOK'
  <2>1. PICK i \in seen[p].up : Finish(p, {Seen(p, i)})
    BY <1>14 DEF PickRoundRobin
  <2>2. {Seen(p, i)} \in SUBSET Instance
    BY DEF Seen, Instance, Snapshot
  <2>3. rrIndex' \in 0..(RRPeriod - 1)
    BY <1>14, RegistryAssumption DEF PickRoundRobin
  <2> QED
    BY <1>14, <2>1, <2>2, <2>3, FinishType DEF PickRoundRobin
<1>15. ASSUME NEW p \in Callers, PickSequence(p) PROVE TypeOK'
  <2>1. PICK picked \in SUBSET Instance : Finish(p, picked)
    <3>1. {Seen(p, i) : i \in seen[p].up} \in SUBSET Instance
      BY DEF Seen, Instance, Snapshot
    <3>2. ASSUME NEW chosen \in SUBSET (1..Len(Providers))
          PROVE  {[gen |-> Gen, idx |-> i] : i \in chosen} \in SUBSET Instance
      BY <1>p DEF Instance
    <3> QED
      BY <1>15, <3>1, <3>2 DEF PickSequence
  <2> QED
    BY <1>15, <2>1, FinishType DEF PickSequence
<1>16. CASE Expire
  BY <1>16 DEF Expire
<1>17. CASE UNCHANGED vars
  BY <1>17 DEF vars
<1> QED
  BY <1>1, <1>2, <1>3, <1>4, <1>5, <1>6, <1>7, <1>8, <1>9, <1>10, <1>11, <1>12,
     <1>13, <1>14, <1>15, <1>16, <1>17 DEF Next, ApplyStep, CallStep

(* Every variable keeps its type.                                          *)
THEOREM TypeCorrect == Spec => []TypeOK
  BY TypeInit, TypeNext, PTL DEF Spec

-----------------------------------------------------------------------------
(* The write lock, and what it protects.                                   *)

Critical == {"install", "invalidate", "capacity"}

LockInv ==
  /\ \A a \in Appliers : pc[a] \in Critical <=> writer = a
  /\ maxConc = TotalSlots(Providers)
       \/ \E a \in Appliers : pc[a] \in {"invalidate", "capacity"}
  /\ \A a \in Appliers : pc[a] \in {"invalidate", "capacity"} => arg[a] = Providers

(* Callers run other labels than appliers, and leave the lock alone.       *)
LEMMA CallerKeepsLock ==
  ASSUME TypeOK, LockInv, NEW p \in Callers, NEW label,
         pc' = [pc EXCEPT ![p] = label], UNCHANGED <<installs, writer, arg, maxConc>>
  PROVE  LockInv'
<1>1. \A a \in Appliers : pc'[a] = pc[a]
  BY RegistryAssumption DEF TypeOK
<1> QED
  BY <1>1 DEF LockInv, Providers, Gen

LEMMA LockInit == Init => LockInv
  BY RegistryAssumption DEF Init, LockInv, Critical, Providers, Gen

LEMMA LockNext == TypeOK /\ LockInv /\ [Next]_vars => LockInv'
<1> SUFFICES ASSUME TypeOK, LockInv, [Next]_vars PROVE LockInv'
  OBVIOUS
<1>a. ASSUME NEW a \in Appliers, NEW label, Goto(a, label)
      PROVE  /\ pc'[a] = label
             /\ \A b \in Appliers \ {a} : pc'[b] = pc[b]
  BY <1>a DEF Goto, TypeOK
<1>1. ASSUME NEW a \in Appliers, NEW c \in Configs, StartApply(a, c) PROVE LockInv'
  <2>1. pc[a] = "idle" /\ pc'[a] = "lock" /\ \A b \in Appliers \ {a} : pc'[b] = pc[b]
    BY <1>1, <1>a DEF StartApply
  <2>2. \A b \in Appliers \ {a} : arg'[b] = arg[b]
    BY <1>1 DEF StartApply, TypeOK
  <2> QED
    BY <1>1, <2>1, <2>2 DEF StartApply, LockInv, Critical, Providers, Gen
<1>2. ASSUME NEW a \in Appliers, Announce(a) PROVE LockInv'
  <2>1. pc[a] = "lock" /\ pc'[a] = "install" /\ \A b \in Appliers \ {a} : pc'[b] = pc[b]
    BY <1>2, <1>a DEF Announce
  <2>2. \A b \in Appliers : pc[b] \notin Critical
    BY <1>2, RegistryAssumption DEF Announce, LockInv
  <2> QED
    BY <1>2, <2>1, <2>2 DEF Announce, LockInv, Critical, Providers, Gen
<1>3. ASSUME NEW a \in Appliers, Install(a) PROVE LockInv'
  <2>1. pc[a] = "install" /\ pc'[a] = "invalidate"
          /\ \A b \in Appliers \ {a} : pc'[b] = pc[b]
    BY <1>3, <1>a DEF Install
  <2>2. \A b \in Appliers \ {a} : pc[b] \notin Critical
    BY <2>1 DEF LockInv, Critical
  <2>3. Providers' = arg[a]
    BY <1>3 DEF Install, Providers, Gen, TypeOK
  <2> QED
    BY <1>3, <2>1, <2>2, <2>3 DEF Install, LockInv, Critical
<1>4. ASSUME NEW a \in Appliers, Invalidate(a) PROVE LockInv'
  <2>1. pc[a] = "invalidate" /\ pc'[a] = "capacity"
          /\ \A b \in Appliers \ {a} : pc'[b] = pc[b]
    BY <1>4, <1>a DEF Invalidate
  <2> QED
    BY <1>4, <2>1 DEF Invalidate, LockInv, Critical, Providers, Gen
<1>5. ASSUME NEW a \in Appliers, SetCapacity(a) PROVE LockInv'
  <2>1. pc[a] = "capacity" /\ pc'[a] = "idle" /\ \A b \in Appliers \ {a} : pc'[b] = pc[b]
    BY <1>5, <1>a DEF SetCapacity
  <2>2. \A b \in Appliers \ {a} : pc[b] \notin Critical
    BY <2>1 DEF LockInv, Critical
  <2>3. maxConc' = TotalSlots(Providers) /\ UNCHANGED installs /\ writer' = NoProc
    BY <1>5, <2>1 DEF SetCapacity, LockInv
  <2>4. \A b \in Appliers : pc'[b] \notin Critical /\ b # NoProc
    BY <2>1, <2>2, RegistryAssumption DEF Critical
  <2> QED
    BY <2>3, <2>4 DEF LockInv, Critical, Providers, Gen
<1>6. ASSUME NEW p \in Callers, NEW m \in Modes, StartCall(p, m) PROVE LockInv'
  BY <1>6, CallerKeepsLock DEF StartCall, Goto
<1>7. ASSUME NEW p \in Callers, CallStep(p) PROVE LockInv'
  <2>1. \E label : pc' = [pc EXCEPT ![p] = label]
    BY <1>7 DEF CallStep, ReadStatus, PickByIndex, LoadCache, ReadProviders, StoreCache,
                PickNone, PickPrimary, PickRoundRobin, PickSequence, Finish, Goto
  <2>2. UNCHANGED <<installs, writer, arg, maxConc>>
    BY <1>7 DEF CallStep, ReadStatus, PickByIndex, LoadCache, ReadProviders, StoreCache,
                PickNone, PickPrimary, PickRoundRobin, PickSequence
  <2> QED
    BY <2>1, <2>2, CallerKeepsLock
<1>8. CASE Expire
  BY <1>8 DEF Expire, LockInv, Providers, Gen
<1>9. CASE UNCHANGED vars
  BY <1>9 DEF vars, LockInv, Providers, Gen
<1> QED
  BY <1>1, <1>2, <1>3, <1>4, <1>5, <1>6, <1>7, <1>8, <1>9 DEF Next, ApplyStep

(* One ApplyConfig at a time is between Lock and Unlock.                   *)
THEOREM OneWriterAtATime == Spec => []OneWriter
<1>1. LockInv => OneWriter
  BY DEF LockInv, OneWriter, Critical
<1> QED
  BY <1>1, TypeInit, TypeNext, LockInit, LockNext, PTL DEF Spec

(* However many ApplyConfig calls race, the capacity is that of the list   *)
(* that is installed.                                                      *)
THEOREM CapacityFollowsProviders == Spec => []CapacityMatchesProviders
<1>1. LockInv => CapacityMatchesProviders
  BY RegistryAssumption DEF LockInv, CapacityMatchesProviders, Critical
<1> QED
  BY <1>1, TypeInit, TypeNext, LockInit, LockNext, PTL DEF Spec

-----------------------------------------------------------------------------
(* An index leaves the list only when the list shrank.                     *)

\* A status refers to a list that was installed, and to indices it had.
StatusInv ==
  /\ \A p \in Callers :
       pc[p] = "index" => /\ seen[p].gen \in 1..Gen
                          /\ seen[p].up \subseteq 1..Len(installs[seen[p].gen])
  /\ \A p \in Leaked : seen[p].gen \in 1..Gen
  /\ PanicOnlyAfterShrink

LEMMA StatusInit == Init => StatusInv
  BY DEF Init, StatusInv, Leaked, PanicOnlyAfterShrink

\* The lists and the snapshot of q stay, and so does what is said of them.
LEMMA StatusUndisturbed ==
  ASSUME TypeOK, StatusInv, NEW q \in Callers, pc'[q] = pc[q], seen'[q] = seen[q],
         UNCHANGED installs
  PROVE  /\ pc'[q] = "index" => /\ seen'[q].gen \in 1..Gen'
                                /\ seen'[q].up \subseteq 1..Len(installs'[seen'[q].gen])
         /\ pc'[q] = "panicked" =>
              /\ seen'[q].gen \in 1..Gen'
              /\ \E g \in (seen'[q].gen + 1)..Gen' :
                    Len(installs'[g]) < Len(installs'[seen'[q].gen])
  BY DEF StatusInv, Leaked, PanicOnlyAfterShrink, Gen

\* StatusInv, caller by caller.
LEMMA StatusByCaller ==
  StatusInv <=>
    \A q \in Callers :
      /\ pc[q] = "index" => /\ seen[q].gen \in 1..Gen
                            /\ seen[q].up \subseteq 1..Len(installs[seen[q].gen])
      /\ pc[q] = "panicked" =>
           /\ seen[q].gen \in 1..Gen
           /\ \E g \in (seen[q].gen + 1)..Gen :
                 Len(installs[g]) < Len(installs[seen[q].gen])
  BY DEF StatusInv, Leaked, PanicOnlyAfterShrink

\* Only the caller that moves has to be looked at.
LEMMA StatusOfMover ==
  ASSUME TypeOK, StatusInv, NEW p \in Callers, UNCHANGED installs,
         \A q \in Callers \ {p} : pc'[q] = pc[q] /\ seen'[q] = seen[q],
         pc'[p] = "index" => /\ seen'[p].gen \in 1..Gen
                             /\ seen'[p].up \subseteq 1..Len(installs[seen'[p].gen]),
         pc'[p] = "panicked" =>
           /\ seen'[p].gen \in 1..Gen
           /\ \E g \in (seen'[p].gen + 1)..Gen : Len(installs[g]) < Len(installs[seen'[p].gen])
  PROVE  StatusInv'
<1>1. Gen' = Gen /\ installs' = installs
  BY DEF Gen
<1>2. \A q \in Callers :
        /\ pc'[q] = "index" => /\ seen'[q].gen \in 1..Gen'
                               /\ seen'[q].up \subseteq 1..Len(installs'[seen'[q].gen])
        /\ pc'[q] = "panicked" =>
             /\ seen'[q].gen \in 1..Gen'
             /\ \E g \in (seen'[q].gen + 1)..Gen' :
                   Len(installs'[g]) < Len(installs'[seen'[q].gen])
  <2>1. ASSUME NEW q \in Callers \ {p}
        PROVE  /\ pc'[q] = "index" => /\ seen'[q].gen \in 1..Gen'
                                      /\ seen'[q].up \subseteq 1..Len(installs'[seen'[q].gen])
               /\ pc'[q] = "panicked" =>
                    /\ seen'[q].gen \in 1..Gen'
                    /\ \E g \in (seen'[q].gen + 1)..Gen' :
                          Len(installs'[g]) < Len(installs'[seen'[q].gen])
    BY <2>1, StatusUndisturbed
  <2> QED
    BY <1>1, <2>1
<1> QED
  BY <1>2 DEF StatusInv, Leaked, PanicOnlyAfterShrink

LEMMA StatusNext == TypeOK /\ StatusInv /\ [Next]_vars => StatusInv'
<1> SUFFICES ASSUME TypeOK, StatusInv, [Next]_vars PROVE StatusInv'
  OBVIOUS
<1>g. Gen \in Nat \ {0} /\ installs[Gen] = Providers
  BY ProvidersType DEF Providers
<1>c. ASSUME NEW p \in Callers, NEW label, pc' = [pc EXCEPT ![p] = label]
      PROVE  pc'[p] = label /\ \A q \in Callers \ {p} : pc'[q] = pc[q]
  BY <1>c DEF TypeOK
<1>f. ASSUME NEW p \in Callers, NEW picked, Finish(p, picked), UNCHANGED installs
      PROVE  StatusInv'
  <2>1. \A q \in Callers \ {p} : seen'[q] = seen[q]
    BY <1>f DEF Finish, TypeOK
  <2>2. pc'[p] = "idle" /\ \A q \in Callers \ {p} : pc'[q] = pc[q]
    BY <1>f, <1>c DEF Finish, Goto
  <2> QED
    BY <1>f, <2>1, <2>2, StatusOfMover
<1>a. ASSUME NEW a \in Appliers, NEW label, Goto(a, label), UNCHANGED <<installs, seen>>
      PROVE  StatusInv'
  <2>1. \A q \in Callers : pc'[q] = pc[q]
    BY <1>a, RegistryAssumption DEF Goto, TypeOK
  <2>2. Gen' = Gen
    BY <1>a DEF Gen
  <2> QED
    BY <1>a, <2>1, <2>2 DEF StatusInv, Leaked, PanicOnlyAfterShrink
<1>1. ASSUME NEW a \in Appliers, NEW c \in Configs, StartApply(a, c) PROVE StatusInv'
  BY <1>1, <1>a DEF StartApply
<1>2. ASSUME NEW a \in Appliers, Announce(a) \/ Invalidate(a) \/ SetCapacity(a)
      PROVE  StatusInv'
  BY <1>2, <1>a DEF Announce, Invalidate, SetCapacity
<1>3. ASSUME NEW a \in Appliers, Install(a) PROVE StatusInv'
  <2>1. \A q \in Callers : pc'[q] = pc[q] /\ seen'[q] = seen[q]
    BY <1>3, RegistryAssumption DEF Install, Goto, TypeOK
  <2>2. Gen' = Gen + 1 /\ \A g \in 1..Gen : installs'[g] = installs[g]
    BY <1>3 DEF Install, Gen, TypeOK
  <2>3. \A q \in Leaked : \E g \in (seen[q].gen + 1)..Gen' :
          Len(installs'[g]) < Len(installs'[seen[q].gen])
    <3> SUFFICES ASSUME NEW q \in Leaked
                 PROVE  \E g \in (seen[q].gen + 1)..Gen' :
                          Len(installs'[g]) < Len(installs'[seen[q].gen])
      OBVIOUS
    <3>1. PICK g \in (seen[q].gen + 1)..Gen : Len(installs[g]) < Len(installs[seen[q].gen])
      BY DEF StatusInv, PanicOnlyAfterShrink
    <3>2. seen[q].gen \in 1..Gen
      BY DEF StatusInv
    <3>3. g \in 1..Gen /\ g \in (seen[q].gen + 1)..Gen'
      BY <1>g, <2>2, <3>1, <3>2
    <3> QED
      BY <2>2, <3>1, <3>2, <3>3
  <2>4. \A q \in Callers : seen[q].gen \in 1..Gen => seen[q].gen \in 1..Gen'
    BY <1>g, <2>2
  <2> QED
    BY <2>1, <2>2, <2>3, <2>4 DEF StatusInv, Leaked, PanicOnlyAfterShrink
<1>4. ASSUME NEW p \in Callers, NEW m \in Modes, StartCall(p, m) PROVE StatusInv'
  <2>1. UNCHANGED <<installs, seen>>
    BY <1>4 DEF StartCall
  <2>2. pc'[p] \in {"status", "cache"} /\ \A q \in Callers \ {p} : pc'[q] = pc[q]
    BY <1>4, <1>c DEF StartCall, Goto
  <2> QED
    BY <2>1, <2>2, StatusOfMover
<1>5. ASSUME NEW p \in Callers, ReadStatus(p) PROVE StatusInv'
  <2>1. PICK up \in SUBSET (1..Len(Providers)) :
          IF up = {}
          THEN Finish(p, {})
          ELSE /\ seen' = [seen EXCEPT ![p] = [gen |-> Gen, up |-> up]]
               /\ Goto(p, "index")
               /\ UNCHANGED <<mode, result>>
    BY <1>5 DEF ReadStatus
  <2>2. UNCHANGED installs
    BY <1>5 DEF ReadStatus
  <2>3. CASE up = {}
    BY <1>f, <2>1, <2>2, <2>3
  <2>4. CASE up # {}
    <3>1. /\ seen'[p] = [gen |-> Gen, up |-> up]
          /\ \A q \in Callers \ {p} : seen'[q] = seen[q]
      BY <2>1, <2>4 DEF TypeOK
    <3>2. pc'[p] = "index" /\ \A q \in Callers \ {p} : pc'[q] = pc[q]
      BY <2>1, <2>4, <1>c DEF Goto
    <3>3. seen'[p].gen \in 1..Gen /\ seen'[p].up \subseteq 1..Len(installs[seen'[p].gen])
      BY <1>g, <3>1
    <3> QED
      BY <2>2, <3>1, <3>2, <3>3, StatusOfMover
  <2> QED
    BY <2>3, <2>4
<1>6. ASSUME NEW p \in Callers, PickByIndex(p) PROVE StatusInv'
  <2>1. PICK i \in seen[p].up :
          IF i <= Len(Providers)
          THEN Finish(p, {[gen |-> Gen, idx |-> i]})
          ELSE Goto(p, "panicked") /\ UNCHANGED <<mode, seen, result>>
    BY <1>6 DEF PickByIndex, IndexOf
  <2>2. UNCHANGED installs /\ pc[p] = "index"
    BY <1>6 DEF PickByIndex
  <2>3. CASE i <= Len(Providers)
    BY <1>f, <2>1, <2>2, <2>3
  <2>4. CASE ~(i <= Len(Providers))
    <3>1. seen[p].gen \in 1..Gen /\ i \in 1..Len(installs[seen[p].gen])
      BY <2>1, <2>2 DEF StatusInv
    <3>2. Len(Providers) \in Nat /\ Len(installs[seen[p].gen]) \in Nat
      BY <1>g, <3>1, RegistryAssumption DEF TypeOK, Providers, Gen
    <3>3. Len(installs[Gen]) < Len(installs[seen[p].gen])
      BY <1>g, <2>4, <3>1, <3>2
    <3>4. Gen \in (seen[p].gen + 1)..Gen
      BY <1>g, <3>1, <3>2, <3>3
    <3>5. pc'[p] = "panicked" /\ \A q \in Callers \ {p} : pc'[q] = pc[q]
      BY <2>1, <2>4, <1>c DEF Goto
    <3>6. seen' = seen
      BY <2>1, <2>4
    <3> QED
      BY <2>2, <3>1, <3>3, <3>4, <3>5, <3>6, StatusOfMover
  <2> QED
    BY <2>3, <2>4
<1>7. ASSUME NEW p \in Callers, LoadCache(p) \/ ReadProviders(p) \/ StoreCache(p)
      PROVE  StatusInv'
  <2>1. \E label \in {"pick", "read", "store"} : pc' = [pc EXCEPT ![p] = label]
    BY <1>7 DEF LoadCache, ReadProviders, StoreCache, Goto
  <2>2. \A q \in Callers \ {p} : seen'[q] = seen[q]
    BY <1>7 DEF LoadCache, ReadProviders, StoreCache, TypeOK
  <2>3. UNCHANGED installs
    BY <1>7 DEF LoadCache, ReadProviders, StoreCache
  <2> QED
    BY <2>1, <2>2, <2>3, <1>c, StatusOfMover
<1>8. ASSUME NEW p \in Callers,
             PickNone(p) \/ PickPrimary(p) \/ PickRoundRobin(p) \/ PickSequence(p)
      PROVE  StatusInv'
  <2>1. (\E picked : Finish(p, picked)) /\ UNCHANGED installs
    BY <1>8 DEF PickNone, PickPrimary, PickRoundRobin, PickSequence
  <2> QED
    BY <2>1, <1>f
<1>9. CASE Expire \/ UNCHANGED vars
  <2>1. UNCHANGED <<installs, pc, seen>>
    BY <1>9 DEF Expire, vars
  <2> QED
    BY <2>1 DEF StatusInv, Leaked, PanicOnlyAfterShrink, Gen
<1> QED
  BY <1>1, <1>2, <1>3, <1>4, <1>5, <1>6, <1>7, <1>8, <1>9 DEF Next, ApplyStep, CallStep

(* A caller panics on an index only when a list shorter than the one its   *)
(* status described was installed after that status was read.              *)
THEOREM PanicNeedsShrink == Spec => []PanicOnlyAfterShrink
<1>1. StatusInv => PanicOnlyAfterShrink
  BY DEF StatusInv
<1> QED
  BY <1>1, TypeInit, TypeNext, StatusInit, StatusNext, PTL DEF Spec

(* When every configuration has the same number of providers, no call ever *)
(* panics, and so none leaves mu read-locked.                              *)
THEOREM NoPanicAtFixedLength ==
  ASSUME \A c, d \in Config : Len(c) = Len(d)
  PROVE  Spec => []NoPanic
<1>1. TypeOK /\ StatusInv => NoPanic
  <2> SUFFICES ASSUME TypeOK, StatusInv, NEW p \in Leaked PROVE FALSE
    BY DEF NoPanic
  <2>1. PICK g \in (seen[p].gen + 1)..Gen : Len(installs[g]) < Len(installs[seen[p].gen])
    BY DEF StatusInv, PanicOnlyAfterShrink
  <2>2. seen[p].gen \in 1..Gen /\ Gen \in Nat
    BY ProvidersType DEF StatusInv
  <2>3. g \in 1..Gen
    BY <2>1, <2>2
  <2>4. installs[g] \in Config /\ installs[seen[p].gen] \in Config
    BY <2>2, <2>3 DEF TypeOK, Config, Gen
  <2>5. Len(installs[g]) = Len(installs[seen[p].gen]) /\ Len(installs[g]) \in Nat
    BY <2>4, RegistryAssumption DEF Config
  <2> QED
    BY <2>1, <2>5
<1> QED
  BY <1>1, TypeInit, TypeNext, StatusInit, StatusNext, PTL DEF Spec

=============================================================================
