SPECIFICATION StoragesSpec
CONSTANTS
  StorageIds = {a, b, c}
  NoStorage = NoStorage
  MAX_DEPTH = 1
  ItemIds = {}
  Users = {u}
  Borrowers = {}
  Nobody = Nobody
  StorageRequests = {r1, r2}
  PatchIds = FALSE
  PathBound = 3
SYMMETRY Sym
INVARIANTS
  StoragesTypeOK
  LevelIsDepth
  PathEndsAtParent
  BreadcrumbsResolve
