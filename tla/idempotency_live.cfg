SPECIFICATION FairSpec
CONSTANTS
  Attempts = {a1, a2, a3}
  Targets = {t}
  Bodies = {x}
  NoOne = NoOne
  Faults = {"crash", "store", "late", "slow"}
PROPERTIES
  PendingIsTemporary
  EveryAttemptEnds
CHECK_DEADLOCK FALSE
