SPECIFICATION Spec
CONSTANTS
  MaxPrompts = 1
  MaxSteers = 0
  MaxToggles = 2
  MaxPermissions = 2
  MaxSessions = 2
INVARIANTS
  DialogsMatch
  ModesAgree
  SwitchAcknowledged
PROPERTIES
  Consented
VIEW Present
CHECK_DEADLOCK FALSE
