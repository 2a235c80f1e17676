CONSTANTS
  r1 = r1
  r2 = r2
  Reqs <- MCReqs
  Workers = {w1, w2}
  Loader = loader
  NoJob = NoJob
  Targets <- MCTargets
  Calls <- MixedCalls
  MaxReloads = 0
  UnsafeCollections = TRUE
SPECIFICATION Spec
SYMMETRY Symmetry
INVARIANTS NoLostWakeup WorkingIsTrue
CHECK_DEADLOCK FALSE
