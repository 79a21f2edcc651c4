SPECIFICATION FairSpec
CONSTANTS
  c1 = c1
  c2 = c2
  r1 = r1
  r2 = r2
  CronJobs = {c1, c2}
  Schedule <- MCSchedule
  Once = {c2}
  Rows = {r1, r2}
  Targets <- MCTargets
  None = None
  MaxMinute = 3
  MaxPublished = 2
  MaxFailures = 1
INVARIANTS
  IInv
  MissedOnlyIfDisturbed
PROPERTIES
  ImplementsAtLeastOnce
  EveryJobIsSettled
CHECK_DEADLOCK FALSE
