\* Two pitches of one session, two agents, two polls.
SPECIFICATION FairSpec
CONSTANTS
  p1 = p1
  p2 = p2
  None = None
  Pitches = {p1, p2}
  Dimensions = 2
  MaxAttempts = 2
  Grace = 1
  MaxTime = 3
INVARIANTS
  TypeOK
  
PROPERTIES
  PollAnswersRecovery
  FlowSettles
CHECK_DEADLOCK FALSE
