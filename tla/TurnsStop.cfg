CONSTANTS
  m1 = m1
  m2 = m2
  d1 = d1
  d2 = d2
  r1 = r1
  r2 = r2
  NoMessage = NoMessage
  NoTask = NoTask
  Messages <- MCOneMessage
  Deliveries <- MCOneDelivery
  Reactions <- MCOneReaction
  ReplyMaps <- MCNoReplies
  MaxToggles = 1
  MaxCrashes = 0
SPECIFICATION Spec
INVARIANT NoRunInStoppedConversation
CHECK_DEADLOCK FALSE
