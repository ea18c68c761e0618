SPECIFICATION Spec
CONSTANTS
  Places = {p}
  Storages = {a, b}
  Items = {}
  PAGE_CAP = 1
  BatchBound = 2
  MaxTime = 2
  Span = 1
  MaxRev = 2
  Allowed = {"overlap", "late", "join", "move"}
SYMMETRY Sym
PROPERTIES
  PagesAdvance
CHECK_DEADLOCK FALSE
