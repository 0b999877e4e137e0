SPECIFICATION GuiSpec

CONSTANTS
  Initiator = alice
  Responder = bob
  NoPub = NoPub
  Quota <- Uneven32
  RekeyInterval = 2
  WindowSize = 2
  MaxSkip = 4
  MaxRetainedChains = 2

INVARIANTS
  RekeyNotTorn

CHECK_DEADLOCK FALSE
