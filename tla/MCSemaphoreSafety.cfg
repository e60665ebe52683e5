SPECIFICATION Spec
CONSTANTS
  Procs = {p1, p2, p3}
  Weights = {1, 2}
  MaxWeight = 2
  Capacities = {0, 2, 3}
  InitCap = 2
  MaxCap = 3
  Cancellable = {p1, p2, p3}
  NoProc = NoProc
INVARIANTS
  SlotsAccounted
  OvershootBounded
  NobodyForgotten
\* At capacity 1 every process may wait for two slots.
CHECK_DEADLOCK FALSE
