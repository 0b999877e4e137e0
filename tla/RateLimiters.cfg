SPECIFICATION PairSpec

CONSTANTS
  Worker = {w1}
  Address = {home, cafe}
  MaxAttempts = 3
  Window = 2
  Cooldown = 3
  MaxTime = 7

PROPERTIES
  ImplementsThrottle
  MemoryImplementsThrottle
  BlocksHold

CHECK_DEADLOCK FALSE
