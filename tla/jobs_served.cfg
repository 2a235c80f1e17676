CONSTANTS
  r1 = r1
  r2 = r2
  Reqs <- MCReqs
  Workers = {w1}
  Loader = loader
  NoJob = NoJob
  Targets <- MCTargets
  Calls <- SharedCalls
  MaxReloads = 0
  UnsafeCollections = FALSE
SPECIFICATION FairSpec
INVARIANTS OpenIsScheduled
PROPERTIES ServedUnlessStopped NeverReopened
CHECK_DEADLOCK FALSE
