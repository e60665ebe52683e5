------------------------- MODULE DetectorProperties -------------------------
(***************************************************************************)
(* What the detector promises to the gateway.                              *)
(***************************************************************************)
EXTENDS Detector

(* Failover is complete: a stage ends without an answer only when every    *)
(* backend was down, or was marked by somebody else, at some time from its *)
(* start to its end, unless its own context ended (loadbalancer.go         *)
(* 151-226): whatever other calls and the health checks mark meanwhile,    *)
(* and wherever the order starts.                                          *)
FailoverComplete ==
  \A c \in Calls :
    pc[c] = "check" /\ order[c] = <<>> => usable[c] = {} \/ expired[c]

(* The compare-and-swap loop folds every measurement into the latency at   *)
(* one instant, whatever calls interleave (loadbalancer.go 238-251).       *)
ImplementsCell == Cell!Spec

(* The marks follow the backends: one that works for good is healthy in    *)
(* the end, however often calls and stale checks have marked it, and one   *)
(* that is down for good is not (loadbalancer.go 379-422).                 *)
HealthConverges ==
  [](loop # "stopped") =>
    \A b \in Backends :
      /\ <>[](b \in up) => <>[](b \in healthy)
      /\ <>[](b \notin up) => <>[](b \notin healthy)

=============================================================================
