SPECIFICATION FairSpec
CONSTANTS
  Callers = {p1}
  Loops = {l1, l2}
  Controllers = {d1}
  Closer = closer
  Nobody = nobody
  MaxFailures = 2
  Cooldown = 2
INVARIANTS
  ConsistentUnlessMixed
  SilentAfterClose
PROPERTIES
  CooldownEnds
  StoppingEnds
