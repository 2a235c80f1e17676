SPECIFICATION Spec
CONSTANTS
  e1 = e1
  e2 = e2
  c1 = c1
  c2 = c2
  Entities = {e1, e2}
  Classes = {c1}
  ClassOf <- OneClass
  Versions = {v1, v2}
  Blank = blank
  None = none
  Handlers = {"fuseki"}
  MaxLoads = 3
  MaxChanges = 1
INVARIANTS LastVersionInCache
CHECK_DEADLOCK FALSE
