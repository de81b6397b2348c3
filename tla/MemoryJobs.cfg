CONSTANTS
  w1 = w1
  w2 = w2
  None = None
  Workers <- MCWorkers
  CompactInterval = 2
  Lease = 1
  Backoff = 1
  MaxAttempts = 2
  MaxTurns = 2
  Configs <- MCConfigs
SPECIFICATION Spec
SYMMETRY MCSymmetry
INVARIANTS TypeOK TurnsAreDiarised SourcesAreFolded WindowsAreDisjoint
