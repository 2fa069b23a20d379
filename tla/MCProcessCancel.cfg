SPECIFICATION FairCancelSpec
CONSTANTS
  Commands = 2
  Helpers = {h1, h2}
  Kinds = {INT, TERM}
  KillAt = 1
  GiveUpAt = 3
CHECK_DEADLOCK FALSE
INVARIANT NothingLeftRunning
PROPERTY CancelEnds
