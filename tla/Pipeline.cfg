\* Three agents, the Verifier in either mode, every fault.
SPECIFICATION FairSpec
CONSTANTS
  a1 = a1
  a2 = a2
  a3 = a3
  Agents = {a1, a2, a3}
  MongoMayFail = TRUE
  ProcessMayDie = TRUE
INVARIANTS
  TypeOK
  StoredIsComplete
  FinalMatchesReport
  CostCountedOnce
  StreamIsWhole
PROPERTIES
  ReportIsSaved
  StreamEnds
  ImplementsAnalysis
CHECK_DEADLOCK FALSE
