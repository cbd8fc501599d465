\* A run of each kind, every fault, deletion.
SPECIFICATION Spec
CONSTANTS
  m1 = m1
  e1 = e1
  c1 = c1
  timing = timing
  problem = problem
  risk = risk
  Initial = Initial
  None = None
  Nobody = Nobody
  Abandoned = Abandoned
  MarketRuns = {m1}
  EvidenceRuns = {e1}
  RescoreRuns = {c1}
  MarketDims = {timing}
  EvidenceDims = {problem}
  NeverDims = {risk}
  MongoMayFail = TRUE
  ProcessMayDie = TRUE
  FounderMayDelete = TRUE
INVARIANTS
  TypeOK
  ScoreMovesOnlyOnEvidence
  PointerNamesWrittenSnapshot
CHECK_DEADLOCK FALSE
