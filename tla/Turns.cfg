CONSTANTS
  m1 = m1
  m2 = m2
  d1 = d1
  d2 = d2
  r1 = r1
  r2 = r2
  NoMessage = NoMessage
  NoTask = NoTask
  Messages <- MCMessages
  Deliveries <- MCTwoDeliveries
  Reactions <- MCNoReactions
  ReplyMaps <- MCReplyMaps
  MaxToggles = 2
  MaxCrashes = 1
SPECIFICATION Spec
SYMMETRY MCSymmetry
INVARIANTS TypeOK CancelledOnlyIfStopRequested
CHECK_DEADLOCK FALSE
