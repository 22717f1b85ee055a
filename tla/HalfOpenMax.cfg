SPECIFICATION BreakerSpec
CONSTANTS
  Callers = {c1, c2, c3, c4}
  FailureThreshold = 2
  SuccessThreshold = 2
  HalfOpenMaxCalls = 2
INVARIANT
  HalfOpenWithinMax
