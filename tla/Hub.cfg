SPECIFICATION FairSpec
CONSTANTS
  Endpoint = {"a", "b"}
  MaxConns = 3
  MaxConfigs = 2
  MaxFailures = 2
  MaxLines = 3
  MaxChunk = 2
INVARIANTS
  RosterOfEndpoint
  OneWay
  WindowFollows
PROPERTIES
  Recovers
CHECK_DEADLOCK FALSE
