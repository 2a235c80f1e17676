CONSTANTS
  r1 = r1
  r2 = r2
  Reqs <- MCReqs
  Workers = {w1, w2}
  Loader = loader
  NoJob = NoJob
  Targets <- MCTargets
  Calls <- ClassCalls
  MaxReloads = 0
  UnsafeCollections = FALSE
SPECIFICATION Spec
INVARIANTS OneOpenJob
CHECK_DEADLOCK FALSE
