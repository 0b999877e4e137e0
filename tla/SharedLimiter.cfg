SPECIFICATION Spec

CONSTANTS
  Worker = {w1, w2}
  Address = {home}
  MaxAttempts = 2
  Window = 2
  Cooldown = 3
  MaxTime = 7

PROPERTY
  BlocksHold

CHECK_DEADLOCK FALSE
