SPECIFICATION Spec
CONSTANTS
  MaxRequests = 2
  NMounts = 0
  Path <- NoPath
  Modified <- NewerIsWorse
  MaxLocal = 1
  MaxMounted = 1
  MaxConcurrent = 2
  MaxHelpers = 4
  MaxEvidence = 1
  MaxResults = 1
  EnableIndex = FALSE
INVARIANT
  CompleteMeansExhausted
CHECK_DEADLOCK FALSE
