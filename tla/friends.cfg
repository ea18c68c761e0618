SPECIFICATION MCSpec
CONSTANTS
  Users = {u, v, w}
  Rows = {f1, f2}
  NoRow = NoRow
  Slots = {r1, r2}
SYMMETRY Sym
INVARIANTS
  ConsentInv
  FriendsConsented
  SerialOneRowPerPair
PROPERTIES
  SerialBlocksHold
CHECK_DEADLOCK FALSE
