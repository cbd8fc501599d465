\* Two ideas, one of them without a snapshot; one forced re-run in a window of
\* two ticks, and two requests; an interval of two ticks.
CONSTANTS
  i1 = i1
  i2 = i2
  r1 = r1
  r2 = r2
  Ideas = {i1, i2}
  Snapshotless = {i2}
  Asked = {i1}
  Requests = {r1, r2}
  Scheduler = Scheduler
  Nobody = Nobody
  Abandoned = Abandoned
  ListLimit = 2
  Interval = 2
  Window = 2
  MaxReruns = 1
  MaxFaults = 2
SPECIFICATION FairSpec
INVARIANTS TypeOK ScheduledRunsApart RerunsWithinCap
PROPERTY DueIdeaIsRerun
