CONSTANTS
  Sessions = {s1, s2}
  Emails = {e1, e2}
  Ideas = {i1}
  Tokens = {t1, t2}
  Verifies = {v1, v2}
  None = None
  MaxRestarts = 1
  BothMayFail = FALSE
SPECIFICATION Spec
SYMMETRY Symmetry
CHECK_DEADLOCK FALSE
INVARIANTS TypeOK RedeemedOncePerCopy OwnershipIsProven
PROPERTY FounderKeepsIdeas
