SPECIFICATION Spec
CONSTANTS
  Places = {p}
  Storages = {a}
  Items = {}
  PAGE_CAP = 2
  BatchBound = 2
  MaxTime = 2
  Span = 1
  MaxRev = 1
  Allowed = {"join"}
SYMMETRY Sym
INVARIANTS
  CaughtUp
CHECK_DEADLOCK FALSE
