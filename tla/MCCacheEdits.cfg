SPECIFICATION Spec
CONSTANTS
  Procs = {p1, p2}
  Contents = {a, b}
  None = None
  Bad = Bad
  MaxEdits = 2
  MaxRuns = 2
  MaxDamage = 0
  MaxKills = 0
  MaxSignals = 1
CHECK_DEADLOCK FALSE
SYMMETRY Symmetry
INVARIANTS TypeOK EntriesMatchKeys KeysAreSnapshots
