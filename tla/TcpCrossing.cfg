SPECIFICATION Spec

CONSTANTS
  Initiator = alice
  Responder = bob
  NoPub = NoPub
  Quota <- Each3
  RekeyInterval = 2
  WindowSize = 4
  MaxSkip = 4
  MaxRetainedChains = 3

INVARIANTS
  AnnouncementsOpen

CHECK_DEADLOCK FALSE
