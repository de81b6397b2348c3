CONSTANTS
  c1 = c1
  c2 = c2
  c3 = c3
  g1 = g1
  n1 = n1
  n2 = n2
  n3 = n3
  NoJob = NoJob
  Calls <- MCCalls
  Managers <- MCOneManager
  Names <- MCNames
  RequestMaps <- MCDistinctRequests
  MaxRunning = 2
  MaxRepairs = 0
  MaxRestarts = 1
SPECIFICATION Spec
SYMMETRY MCSymmetry
INVARIANTS TypeOK   
PROPERTY ImplementsVibeSites
CHECK_DEADLOCK FALSE
