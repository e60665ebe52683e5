SPECIFICATION FairSpec
CONSTANTS
  Streams = {s1}
  Capacity = 1
  Chunks = 4
  ChSize = 2
  WrapSize = 1
INVARIANTS
  SlotsMatchStreams
  ChunksInOrder
PROPERTIES
  StreamEnds
  ProducerEndsUnlessStuck
\* Every stream may have ended, and the scheduler be closed.
CHECK_DEADLOCK FALSE
