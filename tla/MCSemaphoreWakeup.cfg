SPECIFICATION FairSpec
CONSTANTS
  Procs = {p1, p2, p3}
  Weights = {1, 2}
  MaxWeight = 2
  Capacities = {2, 3}
  InitCap = 2
  MaxCap = 3
  Cancellable = {}
  NoProc = NoProc
INVARIANT NoLostWakeup
PROPERTY ServedOnceUncontended
