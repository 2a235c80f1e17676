SPECIFICATION FairSpec
CONSTANTS
  l1 = l1
  l2 = l2
  l3 = l3
  Loads = {l1, l2, l3}
  FirstLoad = l1
  Notices = notices
  ListSize = 2
  CorePoolSize = 2
  MaxPoolSize = 3
  QueueCapacity = 2
  AtOnce = 1
INVARIANTS TypeOK AwaitedIsScheduled PoolMovesOn
CHECK_DEADLOCK FALSE
PROPERTIES LoadEnds
