SPECIFICATION Spec
CONSTANTS
  e1 = e1
  e2 = e2
  c1 = c1
  c2 = c2
  Entities = {e1, e2}
  Classes = {c1, c2}
  ClassOf <- TwoClasses
  Versions = {v1, v2}
  Blank = blank
  None = none
  Handlers = {"fuseki", "trellis"}
  MaxLoads = 3
  MaxChanges = 1
SYMMETRY Symmetry
INVARIANTS TypeOK CacheConverges Searchable RestartLosesNothing
CHECK_DEADLOCK FALSE
