SPECIFICATION Spec

CONSTANTS
  Worker = {w1, w2}
  Peer = {bob, carol}
  MaxEntries = 2
  MaxCrashes = 0

INVARIANT
  SavedPinsStay

CHECK_DEADLOCK FALSE
