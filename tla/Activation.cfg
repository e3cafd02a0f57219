SPECIFICATION FairSpec
CONSTANTS
  Agent = {"codex"}
  Activation = {1}
  Address = {"0x1", "0x2"}
  Pid = {101}
  MaxRoster = 1
  MaxDesktop = 3
INVARIANTS
  FocusConfirmed
PROPERTIES
  LaunchJustified
  ActivationEnds
CHECK_DEADLOCK FALSE
