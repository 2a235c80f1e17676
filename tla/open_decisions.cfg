CONSTANTS
  m1 = m1  m2 = m2  x = x  y = y  r1 = r1  r2 = r2
  Mains <- MCMains
  Related <- MCRelated
  Remote <- MCRemote
  Requests <- MCRequests
SPECIFICATION Spec
SYMMETRY Symmetry
INVARIANTS TypeOK MergedOnce NothingHidden ClosedIsSent
PROPERTIES ClosedIsFinal ImplementsService
CHECK_DEADLOCK FALSE
