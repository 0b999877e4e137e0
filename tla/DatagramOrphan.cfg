SPECIFICATION Spec

CONSTANTS
  Initiator = alice
  Responder = bob
  NoPub = NoPub
  Quota <- Duplex41
  MaxDamage = 0
  RekeyInterval = 1
  WindowSize = 4
  MaxSkip = 4
  MaxRetainedChains = 2

INVARIANT NoOrphanFrames

CHECK_DEADLOCK FALSE
