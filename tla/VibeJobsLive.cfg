CONSTANTS
  c1 = c1
  c2 = c2
  c3 = c3
  g1 = g1
  n1 = n1
  n2 = n2
  n3 = n3
  NoJob = NoJob
  Calls <- MCTwoCalls
  Managers <- MCOneManager
  Names <- MCOneName
  RequestMaps <- MCAnyRequests
  MaxRunning = 2
  MaxRepairs = 1
  MaxRestarts = 1
SPECIFICATION FairSpec
PROPERTY ClaimedCallsEnd
CHECK_DEADLOCK FALSE
