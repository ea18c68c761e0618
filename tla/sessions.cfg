SPECIFICATION MCSpec
CONSTANTS
  Tokens = {t1, t2, t3, t4}
  NoToken = NoToken
  Slots = {r1, r2}
  MaxPasswords = 1
  Interruptions = TRUE
SYMMETRY Sym
INVARIANTS
  TypeOK
  RotationChains
  SerialOneLivePerLogin
  SerialPasswordEndsSessions
PROPERTIES
  RevokedForGood
CHECK_DEADLOCK FALSE
