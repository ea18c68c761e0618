SPECIFICATION MCSpec
CONSTANTS
  MediaIds = {a, b}
  Null = Null
  Users = {u, v}
  Photos = {p, q}
  Items = {i}
  Requests = {r1, r2}
  MaxImages = 2
  MaxUploads = 2
SYMMETRY Sym
INVARIANTS
  MediaInv
  HandedBackIsStored
  SerialOneRowPerPhoto
PROPERTIES
  ImplementsLibrary
  SerialCoverStays
CHECK_DEADLOCK FALSE
