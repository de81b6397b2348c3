CONSTANTS
  t1 = t1
  t2 = t2
  t3 = t3
  alice = alice
  Turns <- MCTurns
  MaxClock = 1
  NoPrompt = NoPrompt
  Keys <- MCKeys
  Prompts <- MCPrompts
  NoText = ""
  Users <- MCUsers
  People <- MCPeople
SPECIFICATION InputSpec
SYMMETRY MCSymmetry
INVARIANT EffectiveInstructionsAreUsed
CHECK_DEADLOCK FALSE
