SPECIFICATION MCSpec
CONSTANTS
  Users = {o, u}
  Owner = o
  Friends <- AllFriends
  Invites = {i}
  Nothing = Nothing
  Slots = {r1, r2}
SYMMETRY Sym
INVARIANTS
  OwnerInv
  OwnerUnlessRedeemed
  AddresseeOnly
PROPERTIES
  SerialRolesChangedByOwner
CHECK_DEADLOCK FALSE
