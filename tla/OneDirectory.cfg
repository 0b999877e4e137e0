SPECIFICATION Spec

CONSTANTS
  w1 = w1
  w2 = w2
  t1 = t1
  t2 = t2
  t3 = t3
  Worker = {w1, w2}
  Transfer = {t1, t2}
  Routes <- OneEach
  Size = 2
  MaxInbound = 1
  MaxReconnects = 0
  MaxOnWire = 2
  MaxStuck = 0

INVARIANT SavedAsSent

CHECK_DEADLOCK FALSE
