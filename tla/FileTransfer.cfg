SPECIFICATION FileFairSpec

CONSTANTS
  MaxConnections = 3
  Parts = 3

INVARIANTS
  StrayIsLast
  ReadsOwnSession
  StopUnblocks

PROPERTIES
  StopEnds
  HandshakeEnds

CHECK_DEADLOCK FALSE
