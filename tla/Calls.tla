-------------------------------- MODULE Calls --------------------------------
(***************************************************************************)
(* The calls of internal/engine/scheduler.go and audit.go that send a      *)
(* request to one or more providers and return: ChatComplete, the same     *)
(* with a router, ChatCompleteWithFallback, ChatCompleteDual, Audit and    *)
(* TestProvider, together with Close.                                      *)
(*                                                                         *)
(* A call is made once, by a goroutine of its own.  The semaphore may grant*)
(* what it is asked for at any time, also beyond its capacity, which its   *)
(* unsynchronised additions exceed, and after a cancellation it may forget *)
(* those that wait (module Semaphore has its steps and finds both).  The   *)
(* providers a call may use are any member of Orders (module Registry has  *)
(* how they are picked).  A provider answers with any outcome, and a       *)
(* provider call ends: it runs under a timeout.  Hooks return anything.    *)
(* Record sends on a channel that Close closes, and a send on a closed     *)
(* channel panics; this needs a history with a storage.                    *)
(***************************************************************************)
EXTENDS Integers, Sequences, FiniteSets

CONSTANTS
  Calls,       \* the calls that are ever made
  Kinds,       \* what they are: a subset of AllKinds
  Providers,
  Orders,      \* the sequences of providers that picking may yield
  Capacity,    \* of the semaphore: what fits in it is granted in the end
  MaxRetries,  \* the retries of DoRetry
  Cancellable, \* the calls whose context may be cancelled
  Persistent,  \* the history has a storage
  NoProvider   \* an empty FallbackFrom

AllKinds == {"chat", "fallback", "dual", "audit", "test"}

ASSUME CallsAssumption ==
  /\ IsFiniteSet(Calls)
  /\ Kinds \subseteq AllKinds
  /\ NoProvider \notin Providers
  /\ Orders \subseteq Seq(Providers) \ {<<>>}
  /\ \A o \in Orders : \A i, j \in 1..Len(o) : o[i] = o[j] => i = j
  /\ Capacity \in Nat \ {0}
  /\ MaxRetries \in Nat
  /\ Cancellable \subseteq Calls
  /\ Persistent \in BOOLEAN

VARIABLES
  closed,        \* the scheduler is closed
  historyClosed, \* the channel of the history is closed
  inUse,         \* slots of the semaphore that are taken
  forgotten,     \* waiters that nobody wakes before the next release
  cancelled,     \* the calls whose ctx is done
  pc,
  kind,          \* "single" is a dual call that found one provider only
  order,         \* the providers a call is going to ask
  inflight,      \* those it is waiting for
  tries,         \* the answers so far of the one it keeps asking
  verdict,       \* what became of each provider
  records,       \* what the call has put into the history
  before,        \* how often the BeforeRequest hooks ran to their end
  after,         \* how often the AfterResponse hooks ran
  result,        \* what the call makes of all this
  handed         \* what its AfterResponse hooks make of that

shared == <<closed, historyClosed, inUse, forgotten, cancelled>>
plan == <<kind, order>>
work == <<inflight, tries, verdict>>
hooks == <<before, after, handed>>
vars == <<shared, pc, plan, work, records, hooks, result>>

Labels == {"new", "available", "before", "pair", "acquire", "call", "wait",
           "backoff", "release", "record", "after", "leave", "returned"}
Outcomes == {"ok", "transient", "permanent", "panic"}
Verdicts == {"none", "ok", "failed"}
Results == {"none", "ok", "failed", "cancelled", "closed", "noProvider",
            "hook", "panic"}

CallRecord == [provider : Providers, ok : BOOLEAN, from : Providers \cup {NoProvider}]

TypeOK ==
  /\ closed \in BOOLEAN /\ historyClosed \in BOOLEAN
  /\ inUse \in Nat
  /\ forgotten \subseteq Calls
  /\ cancelled \subseteq Cancellable
  /\ pc \in [Calls -> Labels]
  /\ kind \in [Calls -> AllKinds \cup {"single"}]
  /\ order \in [Calls -> Seq(Providers)]
  /\ inflight \in [Calls -> SUBSET Providers]
  /\ tries \in [Calls -> Seq(Outcomes)]
  /\ verdict \in [Calls -> [Providers -> Verdicts]]
  /\ records \in [Calls -> Seq(CallRecord)]
  /\ before \in [Calls -> Nat] /\ after \in [Calls -> Nat]
  /\ result \in [Calls -> Results] /\ handed \in [Calls -> Results]

Init ==
  /\ closed = FALSE /\ historyClosed = FALSE
  /\ inUse = 0
  /\ forgotten = {}
  /\ cancelled = {}
  /\ pc = [c \in Calls |-> "new"]
  /\ kind = [c \in Calls |-> "chat"]
  /\ order = [c \in Calls |-> <<>>]
  /\ inflight = [c \in Calls |-> {}]
  /\ tries = [c \in Calls |-> <<>>]
  /\ verdict = [c \in Calls |-> [q \in Providers |-> "none"]]
  /\ records = [c \in Calls |-> <<>>]
  /\ before = [c \in Calls |-> 0] /\ after = [c \in Calls |-> 0]
  /\ result = [c \in Calls |-> "none"]
  /\ handed = [c \in Calls |-> "none"]

Goto(c, label) == pc' = [pc EXCEPT ![c] = label]

\* The result is settled; what is left of the call begins at label.
Settle(c, r, label) ==
  /\ result' = [result EXCEPT ![c] = r]
  /\ Goto(c, label)

Chat(c) == kind[c] \in {"chat", "single"}
Fallback(c) == kind[c] = "fallback"
Dual(c) == kind[c] = "dual"
Audit(c) == kind[c] = "audit"

\* Mutant: a dual call takes one slot for its two requests.
WeightOne(c) == 1

\* The slots asked for in one request.
Weight(c) == IF Dual(c) THEN 2 ELSE 1

\* Only these calls go through DoRetry.
Retries(c) == IF Chat(c) \/ Fallback(c) THEN MaxRetries ELSE 0

Settled(c) == {q \in Providers : verdict[c][q] # "none"}

\* The providers that are asked next: both, or the first not asked before.
Asked(c) == IF Dual(c) THEN {order[c][1], order[c][2]}
                       ELSE {order[c][Cardinality(Settled(c)) + 1]}

\* Where a call goes that ends before it has asked anybody.
Exit(c) == IF Chat(c) THEN "leave" ELSE "returned"

-----------------------------------------------------------------------------
(* Mutants: plausible bugs, each standing in for a definition in one check. *)

\* The slots are given back at the end of the function, without a defer.
UnwoundNotDeferred(c) == CASE Fallback(c) -> "after" [] OTHER -> "returned"

\* The fallback runs its hooks at the end of the function, without a defer.
UnwoundSkipsHooks(c) == IF Chat(c) \/ Dual(c) THEN "leave" ELSE "returned"

\* The first attempt, too, is recorded as a fallback.
RecordOfOffByOne(c, i) ==
  [provider |-> order[c][i], ok |-> verdict[c][order[c][i]] = "ok",
   from |-> IF Fallback(c) /\ i >= 1 THEN order[c][1] ELSE NoProvider]

\* The error of the first provider hides the answer of the second.
OutcomeOfFirst(c) == verdict[c][order[c][1]]

\* attempt <= maxRetries is all that ends the retries.
MayRetryOnceMore(c, outcome) == outcome = "transient" /\ Len(tries[c]) <= Retries(c)

\* defer sem.Release() in the loop: the slots of a fallback add up.
ReleaseDeferred(c) ==
  /\ pc[c] = "release"
  /\ Goto(c, IF Fallback(c) THEN "record" ELSE "returned")
  /\ UNCHANGED <<shared, plan, work, records, hooks, result>>

-----------------------------------------------------------------------------
(* From the beginning of a call to its slot.                               *)

AfterStart(k) == IF k = "chat" THEN "acquire" ELSE "available"

\* checkClosed, which TestProvider does not call.
Start(c, k) ==
  /\ pc[c] = "new"
  /\ kind' = [kind EXCEPT ![c] = k]
  /\ IF closed /\ k # "test"
     THEN Settle(c, "closed", "returned")
     ELSE Goto(c, AfterStart(k)) /\ UNCHANGED result
  /\ UNCHANGED <<shared, order, work, records, hooks>>

NoneAvailable(c) ==
  /\ pc[c] = "available"
  /\ Settle(c, "noProvider", Exit(c))
  /\ UNCHANGED <<shared, plan, work, records, hooks>>

\* A chat takes one provider, a fallback all, an audit a primary and perhaps
\* another one, out of two or more.  A dual call picks its pair later.
Pick(c, o) ==
  /\ pc[c] = "available"
  /\ Audit(c) => Len(o) >= 2
  /\ \E n \in IF Fallback(c) THEN {Len(o)}
              ELSE IF Audit(c) THEN 1..2 ELSE {IF Dual(c) THEN 0 ELSE 1} :
       order' = [order EXCEPT ![c] = SubSeq(o, 1, n)]
  /\ Goto(c, CASE Audit(c)          -> "acquire"
               [] kind[c] = "test"  -> "call"
               [] OTHER             -> "before")
  /\ UNCHANGED <<shared, kind, work, records, hooks, result>>

\* The router has chosen from a snapshot of a list that ApplyConfig shortens
\* before it is indexed, or panics itself: nothing has been deferred by now
\* but the release of the slot.
PickPanics(c) ==
  /\ pc[c] = "available"
  /\ Chat(c)
  /\ Settle(c, "panic", "leave")
  /\ UNCHANGED <<shared, plan, work, records, hooks>>

BeforeFails(c) ==
  /\ pc[c] = "before"
  /\ Settle(c, "hook", Exit(c))
  /\ UNCHANGED <<shared, plan, work, records, hooks>>

Before(c) ==
  /\ pc[c] = "before"
  /\ before' = [before EXCEPT ![c] = @ + 1]
  /\ Goto(c, CASE Chat(c) -> "call" [] Fallback(c) -> "acquire" [] Dual(c) -> "pair")
  /\ UNCHANGED <<shared, plan, work, records, after, handed, result>>

\* Others ask the router for a sequence, after their hooks; it may panic, as
\* the one of core/router.go does that has counted to 2^63.
SequencePanics(c) ==
  /\ \/ pc[c] = "pair" /\ Settle(c, "panic", "returned")
     \/ /\ pc[c] = "acquire" /\ Fallback(c) /\ Settled(c) = {}
        /\ Settle(c, "panic", "after")
  /\ UNCHANGED <<shared, plan, work, records, hooks>>

PairNone(c) ==
  /\ pc[c] = "pair"
  /\ Settle(c, "noProvider", "returned")
  /\ UNCHANGED <<shared, plan, work, records, hooks>>

Pair(c, o) ==
  /\ pc[c] = "pair"
  /\ Len(o) >= 2
  /\ order' = [order EXCEPT ![c] = SubSeq(o, 1, 2)]
  /\ Goto(c, "acquire")
  /\ UNCHANGED <<shared, kind, work, records, hooks, result>>

\* No second provider, there being one only or other calls having moved the
\* round robin on: ChatComplete, which looks at closed again.
Degrade(c) ==
  /\ pc[c] = "pair"
  /\ kind' = [kind EXCEPT ![c] = "single"]
  /\ IF closed
     THEN Settle(c, "closed", "returned")
     ELSE Goto(c, "acquire") /\ UNCHANGED result
  /\ UNCHANGED <<shared, order, work, records, hooks>>

Fits(c) == inUse + Weight(c) <= Capacity

\* Granted, perhaps beyond the capacity.
Acquire(c) ==
  /\ pc[c] = "acquire" /\ c \notin forgotten
  /\ inUse' = inUse + Weight(c)
  /\ Goto(c, IF Chat(c) THEN "available" ELSE "call")
  /\ UNCHANGED <<closed, historyClosed, forgotten, cancelled, plan, work, records, hooks, result>>

\* An audit waits for its slots under the timeout of the provider call.  One
\* that stops waiting may have been granted already: it takes the grant, or
\* its place at the head of the queue, away without waking those behind it.
AcquireFails(c) ==
  /\ pc[c] = "acquire"
  /\ c \in cancelled \/ Audit(c)
  /\ Settle(c, "cancelled", IF Fallback(c) THEN "after" ELSE "returned")
  /\ \E others \in SUBSET {d \in Calls : pc[d] = "acquire"} :
       forgotten' = (forgotten \cup others) \ {c}
  /\ UNCHANGED <<closed, historyClosed, inUse, cancelled, plan, work, records, hooks>>

-----------------------------------------------------------------------------
(* Asking providers.                                                       *)

\* Where a call goes that has heard from everybody it asked.
AfterWait(c) == CASE Chat(c) \/ Dual(c)     -> "record"
                  [] Fallback(c) \/ Audit(c) -> "release"
                  [] OTHER                   -> "returned"

Verdict(c, q, ok) ==
  verdict' = [verdict EXCEPT ![c][q] = IF ok THEN "ok" ELSE "failed"]

\* DoRetry does not even start when ctx is done.
NotAsked(c) ==
  /\ pc[c] = "call"
  /\ Retries(c) > 0 /\ c \in cancelled
  /\ \A q \in Asked(c) : Verdict(c, q, FALSE)
  /\ Goto(c, AfterWait(c))
  /\ UNCHANGED <<shared, plan, inflight, tries, records, hooks, result>>

Ask(c) ==
  /\ pc[c] = "call"
  /\ ~(Retries(c) > 0 /\ c \in cancelled)
  /\ inflight' = [inflight EXCEPT ![c] = Asked(c)]
  /\ Goto(c, "wait")
  /\ UNCHANGED <<shared, plan, tries, verdict, records, hooks, result>>

\* DoRetry tries again after a retryable error while attempts are left.
MayRetry(c, outcome) == outcome = "transient" /\ Len(tries[c]) < Retries(c)

AnswerRetryable(c, q, outcome) ==
  /\ MayRetry(c, outcome)
  /\ inflight' = [inflight EXCEPT ![c] = {}]
  /\ tries' = [tries EXCEPT ![c] = Append(@, outcome)]
  /\ Goto(c, "backoff")
  /\ UNCHANGED <<shared, plan, verdict, records, hooks, result>>

\* A panic of the provider is recovered and counts as an error.
AnswerFinal(c, q, outcome) ==
  /\ ~MayRetry(c, outcome)
  /\ inflight' = [inflight EXCEPT ![c] = @ \ {q}]
  /\ tries' = [tries EXCEPT ![c] = <<>>]
  /\ Verdict(c, q, outcome = "ok")
  /\ IF inflight[c] = {q}
     THEN IF kind[c] = "test"
          THEN Settle(c, IF outcome = "ok" THEN "ok" ELSE "failed", "returned")
          ELSE Goto(c, AfterWait(c)) /\ UNCHANGED result
     ELSE UNCHANGED <<pc, result>>
  /\ UNCHANGED <<shared, plan, records, hooks>>

Answer(c) ==
  /\ pc[c] = "wait"
  /\ \E q \in inflight[c], outcome \in Outcomes :
       AnswerRetryable(c, q, outcome) \/ AnswerFinal(c, q, outcome)

AskAgain(c) ==
  /\ pc[c] = "backoff"
  /\ inflight' = [inflight EXCEPT ![c] = Asked(c)]
  /\ Goto(c, "wait")
  /\ UNCHANGED <<shared, plan, tries, verdict, records, hooks, result>>

\* The timeout of the provider call, or ctx, ends the wait between attempts.
GiveUp(c) ==
  /\ pc[c] = "backoff"
  /\ tries' = [tries EXCEPT ![c] = <<>>]
  /\ \A q \in Asked(c) : Verdict(c, q, FALSE)
  /\ Goto(c, AfterWait(c))
  /\ UNCHANGED <<shared, plan, inflight, records, hooks, result>>

-----------------------------------------------------------------------------
(* From the last answer to the end of the call.                            *)

\* A release wakes all that fit.
GiveBack(c) ==
  /\ inUse' = inUse - Weight(c)
  /\ forgotten' = {}
  /\ UNCHANGED <<closed, historyClosed, cancelled>>

Primary(c) == verdict[c][order[c][1]]
AllSettled(c) == Cardinality(Settled(c)) = Len(order[c])

\* An audit asks the second provider only when the first one answered.
Release(c) ==
  /\ pc[c] = "release"
  /\ GiveBack(c)
  /\ CASE Fallback(c) -> Goto(c, "record") /\ UNCHANGED result
       [] Audit(c) /\ Primary(c) = "failed" -> Settle(c, "failed", "returned")
       [] Audit(c) /\ Primary(c) # "failed" ->
            Goto(c, IF AllSettled(c) THEN "record" ELSE "acquire") /\ UNCHANGED result
  /\ UNCHANGED <<plan, work, records, hooks>>

\* fallbackFrom is the first provider of the order, from the second on.
RecordOf(c, i) ==
  [provider |-> order[c][i], ok |-> verdict[c][order[c][i]] = "ok",
   from |-> IF Fallback(c) /\ i > 1 THEN order[c][1] ELSE NoProvider]

AnyOk(c) == \E q \in Settled(c) : verdict[c][q] = "ok"
Outcome(c) == IF AnyOk(c) THEN "ok" ELSE "failed"

\* What follows once the history has what there is to record.
AfterRecord(c) ==
  CASE Chat(c) \/ (Fallback(c) /\ (AnyOk(c) \/ AllSettled(c)))
                   -> Settle(c, Outcome(c), "after")
    [] Fallback(c) /\ ~AnyOk(c) /\ ~AllSettled(c)
                   -> Goto(c, "acquire") /\ UNCHANGED result
    [] Dual(c)     -> Settle(c, Outcome(c), "leave")
    [] Audit(c)    -> Settle(c, "ok", "returned")

\* Where a panic in Record leads: Release and ApplyAfter are deferred, but
\* the ApplyAfter of ChatComplete follows Record in the same function.
Unwound(c) == CASE Fallback(c) -> "after" [] Audit(c) -> "returned" [] OTHER -> "leave"

\* The buffer is written before the send that may panic.
Record(c) ==
  /\ pc[c] = "record"
  /\ records' = [records EXCEPT ![c] = Append(@, RecordOf(c, Len(@) + 1))]
  /\ CASE Persistent /\ historyClosed -> Settle(c, "panic", Unwound(c))
       [] ~(Persistent /\ historyClosed) /\ Len(records[c]) + 1 < Cardinality(Settled(c))
            -> UNCHANGED <<pc, result>>
       [] OTHER -> AfterRecord(c)
  /\ UNCHANGED <<shared, plan, work, hooks>>

\* The hooks replace an answer, make one out of an error and an error out of
\* an answer, by a panic too, which is recovered; not out of a panic.
Rewritten(c) == IF result[c] = "panic" THEN {"panic"} ELSE {result[c], "ok", "failed"}

After(c) ==
  /\ pc[c] = "after"
  /\ after' = [after EXCEPT ![c] = @ + 1]
  /\ \E r \in Rewritten(c) : handed' = [handed EXCEPT ![c] = r]
  /\ Goto(c, IF Chat(c) THEN "leave" ELSE "returned")
  /\ UNCHANGED <<shared, plan, work, records, before, result>>

\* What the caller is told.
Told(c) == IF after[c] > 0 THEN handed[c] ELSE result[c]

Leave(c) ==
  /\ pc[c] = "leave"
  /\ GiveBack(c)
  /\ Goto(c, "returned")
  /\ UNCHANGED <<plan, work, records, hooks, result>>

-----------------------------------------------------------------------------
(* Close, and the contexts of the callers.                                 *)

CloseScheduler ==
  /\ ~closed
  /\ closed' = TRUE
  /\ UNCHANGED <<historyClosed, inUse, forgotten, cancelled, pc, plan, work, records, hooks, result>>

CloseHistory ==
  /\ closed /\ ~historyClosed
  /\ historyClosed' = TRUE
  /\ UNCHANGED <<closed, inUse, forgotten, cancelled, pc, plan, work, records, hooks, result>>

Cancel(c) ==
  /\ pc[c] \notin {"new", "returned"}
  /\ cancelled' = cancelled \cup {c}
  /\ UNCHANGED <<closed, historyClosed, inUse, forgotten, pc, plan, work, records, hooks, result>>

-----------------------------------------------------------------------------
\* The steps a call has to take, sooner or later.
Runs(c) ==
  \/ NoneAvailable(c) \/ (\E o \in Orders : Pick(c, o)) \/ PickPanics(c)
  \/ BeforeFails(c) \/ Before(c)
  \/ PairNone(c) \/ (\E o \in Orders : Pair(c, o)) \/ Degrade(c)
  \/ AcquireFails(c)
  \/ NotAsked(c) \/ Ask(c) \/ Answer(c) \/ AskAgain(c) \/ GiveUp(c)
  \/ Release(c) \/ Record(c) \/ After(c) \/ Leave(c)

CallStep(c) == Runs(c) \/ Acquire(c) \/ SequencePanics(c)

Next ==
  \/ \E c \in Calls : CallStep(c) \/ \E k \in Kinds : Start(c, k)
  \/ \E c \in Cancellable \ cancelled : Cancel(c)
  \/ CloseScheduler \/ CloseHistory

Spec == Init /\ [][Next]_vars

\* Goroutines are scheduled, and providers answer before their timeout.  What
\* fits is granted, to a waiter that is not forgotten.
Fairness == \A c \in Calls : WF_vars(Runs(c)) /\ WF_vars(Acquire(c) /\ Fits(c))

FairSpec == Spec /\ Fairness

=============================================================================
