SPECIFICATION Spec
CONSTANTS
  Procs = {p1}
  Contents = {a}
  None = None
  Bad = Bad
  MaxEdits = 0
  MaxRuns = 1
  MaxDamage = 0
  MaxKills = 0
  MaxSignals = 1
CHECK_DEADLOCK FALSE
PROPERTY InterruptedStoresNothing
