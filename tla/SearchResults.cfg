SPECIFICATION Spec
CONSTANTS
  MaxRequests = 2
  NMounts = 0
  Path <- TwoPaths
  Modified <- NewerIsWorse
  MaxLocal = 1
  MaxMounted = 1
  MaxConcurrent = 2
  MaxHelpers = 0
  MaxEvidence = 1
  MaxResults = 1
  EnableIndex = TRUE
INVARIANTS
  BestKept
  ShownIsUpToDate
VIEW Present
CHECK_DEADLOCK FALSE
