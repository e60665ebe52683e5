--------------------------- MODULE CallsProperties ---------------------------
(***************************************************************************)
(* What a call to one or more providers promises, however it ends.         *)
(***************************************************************************)
EXTENDS Calls

Returned(c) == pc[c] = "returned"

(* The slots a call answers for at this point of its code.                 *)
Held(c) ==
  CASE pc[c] \in {"call", "wait", "backoff", "release"} /\ kind[c] # "test" -> Weight(c)
    [] pc[c] \in {"available", "before", "record", "after"} /\ Chat(c)     -> 1
    [] pc[c] = "record" /\ Dual(c)                                          -> 2
    [] pc[c] = "leave"                                                      -> Weight(c)
    [] OTHER                                                                -> 0

(* No path through a call, with all its errors, panics and early returns,  *)
(* loses a slot or gives one back twice (scheduler.go 447, 589 and 697,    *)
(* audit.go 87 and 124): what is in use is what the calls hold.            *)
SlotsMatchCalls ==
  inUse = Cardinality({s \in Calls \X (1..2) : s[2] <= Held(s[1])})

Outbound == {s \in Calls \X Providers : kind[s[1]] # "test" /\ s[2] \in inflight[s[1]]}

(* The calls out at the providers at one time, those of TestProvider apart,*)
(* are never more than the slots taken, although dual and retried calls    *)
(* share one acquisition (scheduler.go 485, 699).  How far the slots taken *)
(* may exceed the capacity is OvershootBounded's, in SemaphoreProperties.  *)
OutboundWithinSlots == Cardinality(Outbound) <= inUse

(* A call that returned without panicking has recorded every provider it   *)
(* settled, once, in order, with its outcome and, in a fallback, the first *)
(* provider of the order; except that an audit that ends in an error has   *)
(* recorded nothing (audit.go 88, 112).                                    *)
HistoryFaithful ==
  \A c \in Calls :
    Returned(c) /\ result[c] # "panic" /\ kind[c] # "test" =>
      LET n == IF Audit(c) /\ result[c] # "ok" THEN 0 ELSE Cardinality(Settled(c))
      IN  /\ Len(records[c]) = n
          /\ \A i \in 1..n :
               records[c][i] =
                 [provider |-> order[c][i], ok |-> verdict[c][order[c][i]] = "ok",
                  from |-> IF Fallback(c) /\ i > 1 THEN order[c][1] ELSE NoProvider]

(* What a call makes of its answers is what happened, and only the hooks of*)
(* a chat or a fallback, which can neither hide a panic nor cause one, may *)
(* tell the caller another thing (interceptor.go 89-105).  A fallback fails*)
(* only after every provider of its order failed and stops at the first    *)
(* that answered (scheduler.go 562-617); a dual call fails when both fail; *)
(* an audit succeeds with its primary, whatever the second provider does,  *)
(* and loses an answered primary only when it cannot get its second slot.  *)
ResultFaithful ==
  \A c \in Calls : Returned(c) =>
    LET ok == {q \in Providers : verdict[c][q] = "ok"}
        asked == Settled(c)
    IN  /\ result[c] = "ok" => ok # {}
        /\ result[c] = "failed" => asked # {} /\ ok = {}
        /\ result[c] = "failed" /\ (Fallback(c) \/ Dual(c))
             => asked = {order[c][i] : i \in 1..Len(order[c])}
        /\ Fallback(c) /\ ok # {} =>
             /\ result[c] \in {"ok", "panic"}
             /\ ok = {order[c][Cardinality(asked)]}
        /\ Audit(c) /\ result[c] = "ok" => verdict[c][order[c][1]] = "ok"
        /\ result[c] \in {"closed", "noProvider", "hook"} => asked = {}
        /\ result[c] = "cancelled" /\ ok # {} => Audit(c) /\ Cardinality(asked) = 1
        /\ Told(c) # result[c] => Chat(c) \/ Fallback(c)
        /\ Told(c) = "panic" <=> result[c] = "panic"

(* A chat or a fallback that ran its BeforeRequest hooks and got as far as *)
(* a provider runs its AfterResponse hooks once, with any number of        *)
(* attempts and providers in between; only the panic of Record (scheduler. *)
(* go 479) takes them away from a chat.  A dual call never runs them (649) *)
(* and, when it has to do with a single provider, runs the first ones      *)
(* twice (649 and, through ChatComplete, 691).                             *)
HooksPaired ==
  \A c \in Calls :
    /\ after[c] <= before[c]
    /\ Returned(c) /\ Settled(c) # {} =>
         /\ Fallback(c) => before[c] = 1 /\ after[c] = 1
         /\ kind[c] = "chat" /\ result[c] # "panic" => before[c] = 1 /\ after[c] = 1
         /\ Dual(c) => before[c] = 1 /\ after[c] = 0
         /\ kind[c] = "single" /\ result[c] # "panic" => before[c] = 2 /\ after[c] = 1

(* A panic reaches a caller only from a history that Close closed while    *)
(* the call was on its way (scheduler.go 308-311), or before anybody was   *)
(* asked, while the router picked (scheduler.go 549, 657, 897-908 and      *)
(* 927-938), which audits and tests have nothing to do with.  Panics of the*)
(* providers never do, in any kind of call.                                *)
PanicOnlyFromPickOrHistory ==
  \A c \in Calls : result[c] = "panic" =>
    \/ historyClosed /\ Persistent /\ kind[c] # "test"
    \/ Settled(c) = {} /\ kind[c] \notin {"audit", "test"}

(* A provider is asked again only by DoRetry (retry_impl.go 48-111), only  *)
(* after errors that can be retried, at most MaxRetries times, and never   *)
(* once its outcome is settled.                                            *)
AsksBounded ==
  [][\A c \in Calls : \A q \in inflight'[c] \ inflight[c] :
       /\ verdict[c][q] = "none"
       /\ Len(tries[c]) <= Retries(c)
       /\ \A i \in 1..Len(tries[c]) : tries[c][i] = "transient"]_vars

(* Every call that was started returns: nobody waits for a slot while      *)
(* holding one, not even a dual call that degrades to a chat (scheduler.go *)
(* 692) or an audit between its two providers; unless others stopped       *)
(* waiting before it and it sleeps on, beside a semaphore all of whose     *)
(* slots are free, with nobody left to release one (semaphore.go 148).     *)
EveryCallReturns ==
  \A c \in Calls :
    pc[c] # "new" ~> (Returned(c) \/ [](c \in forgotten /\ inUse = 0))

=============================================================================
