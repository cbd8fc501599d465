\* The founder deletes an idea in the log while a re-run of it is in progress.
SPECIFICATION PromotedSpec
CONSTANTS
  m1 = m1
  timing = timing
  problem = problem
  risk = risk
  Initial = Initial
  None = None
  Nobody = Nobody
  Abandoned = Abandoned
  MarketRuns = {m1}
  EvidenceRuns = {}
  RescoreRuns = {}
  MarketDims = {timing}
  EvidenceDims = {problem}
  NeverDims = {risk}
  MongoMayFail = FALSE
  ProcessMayDie = FALSE
  FounderMayDelete = TRUE
INVARIANT DeletedMeansGone
CHECK_DEADLOCK FALSE
