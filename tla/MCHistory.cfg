SPECIFICATION FairSpec
CONSTANTS
  Providers = {a, b}
  MaxSize = 2
  QueueCap = 1
  Workers = {w1, w2}
  Readers = {r1}
  MaxRecords = 3
  NoRecord = NoRecord
  Exited = Exited
INVARIANTS
  Accounted
PROPERTIES
  ImplementsLog
  DrainsAfterClose
\* After Close the workers end, and MaxRecords bounds the rest.
CHECK_DEADLOCK FALSE
