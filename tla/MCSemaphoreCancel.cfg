SPECIFICATION Spec
CONSTANTS
  Procs = {p1, p2, p3}
  Weights = {1}
  MaxWeight = 1
  Capacities = {}
  InitCap = 1
  MaxCap = 1
  Cancellable = {p1, p2, p3}
  NoProc = NoProc
INVARIANT NoLostWakeup
