\* One criterion, two requests to resolve it, the sweeps and every fault.
SPECIFICATION FairSpec
CONSTANTS
  c1 = c1
  q1 = q1
  s1 = s1
  None = None
  Criteria = {c1}
  Resolvers = {q1}
  Submitters = {s1}
  MaxRestarts = 1
  MongoMayFail = TRUE
  FounderMayDelete = TRUE
INVARIANTS
  TypeOK
  EvidenceMatchesResolution
  RemindersBounded
PROPERTIES
  ResolutionSurvivesSweep
  SilenceIsRecorded
CHECK_DEADLOCK FALSE
