---------------------------- MODULE LatencyCell ----------------------------
(***************************************************************************)
(* What updateLatency promises of the latency of a backend                 *)
(* (privacy/model/loadbalancer.go 238-251): every measurement is folded    *)
(* into the value that is there, at one instant.                           *)
(***************************************************************************)
EXTENDS Integers

CONSTANTS
  Backends,
  Durations,  \* what a call may take
  Default     \* defaultLatencyNs

VARIABLE latency

\* int64(old*(1-ewmaAlpha) + d*ewmaAlpha), with ewmaAlpha = 0.3.
Ewma(old, d) == (7 * old + 3 * d) \div 10

Init == latency = [b \in Backends |-> Default]

Observe(b, d) == latency' = [latency EXCEPT ![b] = Ewma(@, d)]

Spec == Init /\ [][\E b \in Backends, d \in Durations : Observe(b, d)]_latency

=============================================================================
