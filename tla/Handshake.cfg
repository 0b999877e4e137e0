SPECIFICATION FairSpec

CONSTANTS
  Client = Client
  Server = Server
  MaxConnections = 3
  MaxQuits = 1
  MaxEdits = 1
  MaxAttempts = 2

INVARIANTS
  KeysMeet
  NoFalseAlarm

PROPERTIES
  PenaltyIsDeserved
  Settles

CHECK_DEADLOCK FALSE
