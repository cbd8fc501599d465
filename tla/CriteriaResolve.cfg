\* Two requests resolve the same criterion.
SPECIFICATION Spec
CONSTANTS
  c1 = c1
  q1 = q1
  q2 = q2
  None = None
  Criteria = {c1}
  Resolvers = {q1, q2}
  Submitters = {}
  MaxRestarts = 0
  MongoMayFail = FALSE
  FounderMayDelete = FALSE
INVARIANT ResolvedOnce
CHECK_DEADLOCK FALSE
