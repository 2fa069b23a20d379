CONSTANTS
  Batch = 3
  ResetCycles = 2
  MsCycles = 2
  MaxDelay = 1
  PublishMs = 2
  Limit = 14
  HasReset = TRUE
  Scripts <- MCScripts
  StepSizes = {1, 4}
  MaxCommands = 4
  MaxFailures = 1
SPECIFICATION Spec
INVARIANT NeverStranded
INVARIANT ScriptExact
INVARIANT EndsOnTime
INVARIANT ButtonIsOwners
INVARIANT RealtimePaced
INVARIANT RestingShowsNow
PROPERTY RunEnds
PROPERTY FinishIsAnnounced
