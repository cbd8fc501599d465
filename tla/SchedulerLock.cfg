\* Three runs, each of which fits in the TTL of the lock.
SPECIFICATION FairSpec
CONSTANTS
  r1 = r1
  r2 = r2
  r3 = r3
  Runs = {r1, r2, r3}
  TTL = 2
  RunBound = 2
  MaxTime = 7
  Nobody = Nobody
  Abandoned = Abandoned
INVARIANTS
  TypeOK
  MutualExclusion
PROPERTIES
  ImplementsRunMutex
  AbandonedLockExpires
CHECK_DEADLOCK FALSE
