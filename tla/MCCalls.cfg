SPECIFICATION FairSpec
CONSTANTS
  a = a
  b = b
  Calls = {c1, c2}
  Kinds = {"chat", "fallback", "dual", "audit", "test"}
  Providers = {a, b}
  Orders <- MCOrders
  Capacity = 2
  MaxRetries = 1
  Cancellable = {c1}
  Persistent = TRUE
  NoProvider = NoProvider
INVARIANTS
  SlotsMatchCalls
  OutboundWithinSlots
  HistoryFaithful
  ResultFaithful
  HooksPaired
PROPERTIES
  AsksBounded
  EveryCallReturns
\* Every call may have returned.
CHECK_DEADLOCK FALSE
