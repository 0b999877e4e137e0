SPECIFICATION Spec

CONSTANTS
  Initiator = alice
  Responder = bob
  NoPub = NoPub
  Quota <- Duplex42
  MaxDamage = 1
  RekeyInterval = 4
  WindowSize = 3
  MaxSkip = 1
  MaxRetainedChains = 2

INVARIANTS
  Ledger
  WindowExact
  UsedKeysAreGone
  LateFrameOpens
  NoKeyReuse
  HealsOnReply

PROPERTIES
  RejectionBurnsNothing
  OnlyExcessIsEvicted
  ImplementsMessageChannel

CHECK_DEADLOCK FALSE
