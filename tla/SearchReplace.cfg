SPECIFICATION Spec
CONSTANTS
  MaxRequests = 2
  NMounts = 0
  Path <- OnePath
  Modified <- NewerIsWorse
  MaxLocal = 1
  MaxMounted = 1
  MaxConcurrent = 2
  MaxHelpers = 2
  MaxEvidence = 1
  MaxResults = 1
  EnableIndex = TRUE
INVARIANT
  SettledTruth
PROPERTY
  OnlyCurrentQuery
VIEW Present
CHECK_DEADLOCK FALSE
