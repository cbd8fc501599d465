\* Market runs alone, with every fault: the lock makes record_snapshot atomic.
SPECIFICATION FairSpec
CONSTANTS
  m1 = m1
  m2 = m2
  m3 = m3
  timing = timing
  problem = problem
  risk = risk
  Initial = Initial
  None = None
  Nobody = Nobody
  Abandoned = Abandoned
  MarketRuns = {m1, m2, m3}
  EvidenceRuns = {}
  RescoreRuns = {}
  MarketDims = {timing}
  EvidenceDims = {problem}
  NeverDims = {risk}
  MongoMayFail = TRUE
  ProcessMayDie = TRUE
  FounderMayDelete = FALSE
INVARIANTS
  MarketRunsAreSerial
  CarriedForward
PROPERTIES
  ImplementsAtomicRescore
  PointerOnlyAdvances
CHECK_DEADLOCK FALSE
