SPECIFICATION Spec
CONSTANTS
  Places = {p}
  Storages = {a}
  Items = {i, j, k}
  PAGE_CAP = 2
  BatchBound = 2
  MaxTime = 6
  Span = 2
  MaxRev = 2
  Allowed = {}
SYMMETRY Sym
INVARIANTS
  CaughtUp
  CompleteUpToCursor
CHECK_DEADLOCK FALSE
