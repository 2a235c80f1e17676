CONSTANTS
  e1 = e1  r1 = r1  r2 = r2
  Entities = {e1}
  Requests <- MCRequests
  Worker = worker
  Jobs <- MCJobs
  j1 = j1  j2 = j2
  MaxTime = 3
  MaxChanges = 1
  MaxRows = 3
  MaxRestarts = 1
SPECIFICATION Spec
SYMMETRY Symmetry
INVARIANTS TypeOK OnlyLateIsSkipped OpenWillRun AllUnlessShared
PROPERTIES RecordedIsFinal
CHECK_DEADLOCK FALSE
