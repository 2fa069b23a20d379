SPECIFICATION FairSpec
CONSTANTS
  Procs = {p1, p2}
  Contents = {a}
  None = None
  Bad = Bad
  MaxEdits = 0
  MaxRuns = 3
  MaxDamage = 1
  MaxKills = 1
  MaxSignals = 0
CHECK_DEADLOCK FALSE
INVARIANTS LostOnlyToOthers LeftoversAreOfKilled
PROPERTIES EntriesStay RunsEnd
