CONSTANTS
  t1 = t1
  t2 = t2
  t3 = t3
  Turns <- MCTurns
  MaxClock = 2
  NoPrompt = NoPrompt
SPECIFICATION Spec
SYMMETRY MCSymmetry
INVARIANT NoLaterReplyInPrompt
CHECK_DEADLOCK FALSE
