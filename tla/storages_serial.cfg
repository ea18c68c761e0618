SPECIFICATION StoragesSpec
CONSTANTS
  StorageIds = {a, b, c, d, e}
  NoStorage = NoStorage
  MAX_DEPTH = 3
  ItemIds = {}
  Users = {u}
  Borrowers = {}
  Nobody = Nobody
  StorageRequests = {r1}
  PatchIds = FALSE
  PathBound = 5
SYMMETRY Sym
INVARIANTS
  PathIsAncestry
  DepthCapped
  TreeShowsAll
PROPERTIES
  ImplementsForest
