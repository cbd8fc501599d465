\* A scheduled run and an evidence run overlap.
SPECIFICATION Spec
CONSTANTS
  m1 = m1
  e1 = e1
  timing = timing
  problem = problem
  risk = risk
  Initial = Initial
  None = None
  Nobody = Nobody
  Abandoned = Abandoned
  MarketRuns = {m1}
  EvidenceRuns = {e1}
  RescoreRuns = {}
  MarketDims = {timing}
  EvidenceDims = {problem}
  NeverDims = {risk}
  MongoMayFail = FALSE
  ProcessMayDie = FALSE
  FounderMayDelete = FALSE
INVARIANT CarriedForward
CHECK_DEADLOCK FALSE
