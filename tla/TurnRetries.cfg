CONSTANTS
  m1 = m1
  m2 = m2
  d1 = d1
  d2 = d2
  r1 = r1
  r2 = r2
  NoMessage = NoMessage
  NoTask = NoTask
  Messages <- MCOneMessage
  Deliveries <- MCOneDelivery
  Reactions <- MCTwoReactions
  ReplyMaps <- MCNoReplies
  MaxToggles = 2
  MaxCrashes = 1
SPECIFICATION FairSpec
INVARIANTS OneExecutorPerTurn AttemptsAgree  SuccessMarkIsEarned
PROPERTIES ImplementsTurnLifecycle CancelledRunEnds
CHECK_DEADLOCK FALSE
