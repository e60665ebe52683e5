-------------------------- MODULE BreakerProperties --------------------------
(***************************************************************************)
(* What the circuit breaker and the health checks promise.                 *)
(***************************************************************************)
EXTENDS Breaker

Open == failUntil # Unset
AtRest == Within(Reporting \ {"add", "load"}) = {}

(* The two atomics of the breaker and the events it emits agree whenever   *)
(* no report is under way (providers.go 214-253): the cooldown was started *)
(* exactly if the threshold is reached, and listeners heard of it last.    *)
(* Failures may overlap one another, and successes; only a success that    *)
(* overlaps a failure may leave them in disagreement.                      *)
ConsistentUnlessMixed ==
  AtRest /\ ~mixed =>
    /\ Open <=> failCount = MaxFailures
    /\ Open <=> heard = "open"

(* There is one health loop at most, however StartHealthCheck and Close    *)
(* interleave (scheduler.go 331-361).                                      *)
OneLoop == Cardinality(Running) <= 1

(* When Close has returned no health check touches a provider any more,    *)
(* not even from a loop that StartHealthCheck starts during Close or later *)
(* (scheduler.go 301-305, 341-346 and 396).                                *)
SilentAfterClose ==
  pc[Closer] = "closed" => \A l \in Loops : pc[l] \in {"off", "select", "next"}

(* A provider is not locked out for ever: unless health checks keep        *)
(* failing it becomes available time and again, also after reports that    *)
(* overlapped (providers.go 259-268).                                      *)
CooldownEnds ==
  <>[][\A l \in Loops : ~(pc[l] = "call" /\ pc'[l] = "add")]_vars => []<>IsAvailable

(* StartHealthCheck and Close return although they wait, under             *)
(* healthCheckMu, for a loop that may be busy (scheduler.go 349-361).      *)
StoppingEnds ==
  \A c \in Stoppers : pc[c] = "lock" ~> pc[c] \in {"idle", "closed"}

=============================================================================
