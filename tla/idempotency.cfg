SPECIFICATION Spec
CONSTANTS
  Attempts = {a1, a2, a3, a4}
  Targets = {t}
  Bodies = {x, y}
  NoOne = NoOne
  Faults = {"crash", "store", "late"}
SYMMETRY Sym
INVARIANTS
  KeyInv
  OneRunner
  ReplaysFaithful
  SavedOnce
CHECK_DEADLOCK FALSE
