SPECIFICATION FairSpec
CONSTANTS
  r1 = r1
  r2 = r2
  openai = openai
  groq = groq
  Requests = {r1, r2}
  Providers = {openai, groq}
  Route <- MCRoute
  Ids <- MCIds
  SessionBudget = 4
  PerRequestBudget = 3
  FailureThreshold = 2
  SuccessThreshold = 2
  HalfOpenMaxCalls = 1
  MaxRetries = 2
  RetryNetworkErrors = TRUE
  AllowFallback = TRUE
  MaxFallbackCost = 3
  Structured = {r1}
  MaxRepairAttempts = 1
  EarlierBreakers <- MCEarlierBreakers
PROPERTY
  NoRetryAfterDeadline
