SPECIFICATION FairBreakerSpec
CONSTANTS
  Callers = {c1, c2, c3, c4}
  FailureThreshold = 2
  SuccessThreshold = 4
  HalfOpenMaxCalls = 2
INVARIANTS
  BreakerTypeOK
  CountersInRange
  ProbesAccounted
PROPERTIES
  ImplementsContract
  KeepsDeciding
