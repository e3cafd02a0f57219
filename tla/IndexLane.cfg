SPECIFICATION LaneSpec
CONSTANTS
  home = home
  mount = mount
  MaxTokens = 3
  Root <- TwoRoots
  Modes <- BothModes
  Spawns <- Throws
INVARIANTS
  Attended
  NeverDropped
  Truthful
PROPERTIES
  KeepsPromise
  EveryQueryAnswered
  ProcessAnswers
CHECK_DEADLOCK FALSE
