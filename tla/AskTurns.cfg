SPECIFICATION FairSpec
CONSTANTS
  MaxPrompts = 2
  MaxSteers = 2
  MaxToggles = 0
  MaxPermissions = 0
  MaxSessions = 2
INVARIANTS
  TurnsInStep
  SteerAcknowledged
PROPERTIES
  SteersOwnTurn
  DraftsKept
  TurnEnds
CHECK_DEADLOCK FALSE
