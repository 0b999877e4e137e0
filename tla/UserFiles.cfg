SPECIFICATION Spec

CONSTANTS
  Worker = {w1, w2}
  Peer = {bob, carol}
  MaxEntries = 3
  MaxCrashes = 1

INVARIANTS
  HistoryDurable
  PinsSurvive

SYMMETRY Symmetry

CHECK_DEADLOCK FALSE
