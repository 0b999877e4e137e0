SPECIFICATION ChatSpec

CONSTANTS
  Initiator = alice
  Responder = bob
  NoPub = NoPub
  Quota <- Each4
  RekeyInterval = 2
  WindowSize = 2
  MaxSkip = 4
  MaxRetainedChains = 2

INVARIANTS
  ChatNeverAlerts
  NoMutualWait

PROPERTIES
  QuitEndsBoth
  HangupIsNoticed
