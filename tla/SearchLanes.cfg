SPECIFICATION StalledMountSpec
CONSTANTS
  MaxRequests = 2
  NMounts = 1
  Path <- NoPath
  Modified <- NewerIsWorse
  MaxLocal = 1
  MaxMounted = 1
  MaxConcurrent = 2
  MaxHelpers = 2
  MaxEvidence = 1
  MaxResults = 1
  EnableIndex = FALSE
INVARIANTS
  LanesHold
  NoIdleLane
PROPERTIES
  LocalScansStart
  QuerySettles
CHECK_DEADLOCK FALSE
