SPECIFICATION Spec

CONSTANTS
  Initiator = alice
  Responder = bob
  NoPub = NoPub
  Quota <- Duplex21
  MaxDamage = 1
  RekeyInterval = 2
  WindowSize = 3
  MaxSkip = 4
  MaxRetainedChains = 2

PROPERTY DamageBurnsNothing

CHECK_DEADLOCK FALSE
