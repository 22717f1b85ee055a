SPECIFICATION PeersSpec
CONSTANTS
  MaxRequests = 3
  MaxLateTools = 1
  Fetches = {1, 2, 3}
  Origins = {1}
  MaxConnections = 1
  MaxSockets = 2
  Requests = {1, 2, 3, 4}
INVARIANTS
  PeersTypeOK
  HooksTruthful
  TransportsAccounted
PROPERTIES
  StoppedRequestsEnd
  CutCallsSettle
CHECK_DEADLOCK FALSE
