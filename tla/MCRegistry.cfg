SPECIFICATION FairSpec
CONSTANTS
  Callers = {c1}
  Appliers = {a1, a2}
  Configs <- MCConfigs
  InitConfig <- MCInitConfig
  MaxLen = 2
  MaxInstalls = 4
  RRPeriod = 2
  NoProc = NoProc
INVARIANTS
  CapacityMatchesProviders
  PanicOnlyAfterShrink
PROPERTIES
  ApplyReturnsUnlessLeaked
  Converges
\* Callers that panicked never run again and may leave an applier waiting.
CHECK_DEADLOCK FALSE
