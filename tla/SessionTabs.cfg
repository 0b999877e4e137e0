CONSTANTS
  Session = {s1, s2}
  NoSession = NoSession
  MaxRounds = 3
SPECIFICATION TabsFairSpec
INVARIANT OneHome
INVARIANT InputFollowsSession
PROPERTY SlotIsFreed
PROPERTY PromptIsAnswered
CHECK_DEADLOCK FALSE
