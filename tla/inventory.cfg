SPECIFICATION MCSpec
CONSTANTS
  StorageIds = {a, b}
  NoStorage = NoStorage
  MAX_DEPTH = 1
  ItemIds = {i}
  Users = {u, v, w}
  Viewers = {w}
  Borrowers = {x, y}
  Nobody = Nobody
  ItemRequests = {q1}
  Concurrency = 2
  StorageRequests = {r1}
  PatchIds = TRUE
  PathBound = 2
SYMMETRY Sym
INVARIANTS
  TypeOK
  SerialItemsInLiveStorages
  SerialViewsAgree
PROPERTIES
  SerialMovesAreRecorded
  TombstonesStay
CHECK_DEADLOCK FALSE
