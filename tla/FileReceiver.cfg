SPECIFICATION Spec

CONSTANTS
  w1 = w1
  w2 = w2
  t1 = t1
  t2 = t2
  t3 = t3
  Worker = {w1, w2}
  Transfer = {t1, t2, t3}
  Routes <- BothRoutes
  Size = 2
  MaxInbound = 2
  MaxReconnects = 1
  MaxOnWire = 2
  MaxStuck = 1

INVARIANTS
  ReceivedIsWhole
  FilesAccountedFor
  SlotsAreOwed

SYMMETRY Symmetry

CHECK_DEADLOCK FALSE
