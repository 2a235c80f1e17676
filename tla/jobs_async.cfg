CONSTANTS
  r1 = r1
  r2 = r2
  Reqs <- MCReqs
  Workers = {w1, w2}
  Loader = loader
  NoJob = NoJob
  Targets <- MCTargets
  Calls <- AsyncCalls
  MaxReloads = 1
  UnsafeCollections = FALSE
SPECIFICATION Spec
SYMMETRY Symmetry
INVARIANTS TypeOK ProcessedOnce EveryoneAnswered KafkaAnswered
CHECK_DEADLOCK FALSE
