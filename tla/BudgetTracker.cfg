SPECIFICATION Spec
CONSTANTS
  Ids = {r1, r2, r3}
  SessionBudget = 5
  PerRequestBudget = 3
  Estimates <- MCEstimates
  Actuals <- MCActuals
  Recorded <- MCRecorded
  NaN = NaN
  Infinity = Infinity
  NegInfinity = NegInfinity
  Providers = {openai, groq}
  Phases = {execute, fallback}
  MaxEvents = 2
SYMMETRY MCSymmetry
INVARIANTS
  TypeOK
  ReservedIsSum
  LedgerAgrees
  CommittedWithinOverrun
  SpendNotified
