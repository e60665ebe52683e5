SPECIFICATION FairSpec
CONSTANTS
  N = 2
  Calls = {"batch", "single"}
  TextsOf <- MCTextsOf
  Strategies = {"RoundRobin", "LeastLatency"}
  Hasty = {"single"}
  Retries = 1
  Half = 2
  Duration <- MCDuration
  Default = 100
  Flaky = {1}
  MaxFlips = 1
INVARIANTS
  FailoverComplete
PROPERTIES
  ImplementsCell
  HealthConverges
\* Calls end, and the loop stops when the balancer is closed.
CHECK_DEADLOCK FALSE
