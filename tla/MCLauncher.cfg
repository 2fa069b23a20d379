SPECIFICATION Spec
CONSTANTS
  MaxRows = 2
  Ports <- MCPorts
  Names <- MCNames
  SignalOf <- MCSignalOf
  NoSignal = "none"
  Value <- MCValue
  Emits <- MCEmits
  MaxWatches = 2
  Dashed <- MCDashed
  VerilogFile <- MCVerilogFile
  ConstraintsFile <- MCConstraintsFile
  InlineOf <- MCInlineOf
  FramesOf <- MCFramesOf
  SendOf <- MCSendOf
  EventOf <- MCEventOf
  PresetOf <- MCPresetOf
  CommandLines <- MCCommandLines
  Options <- MCOptions
  Startup = 1
  FrameCycles = 2
  BatchSizes = {1, 3}
  MaxCycle = 5
  MaxUser = 3
CHECK_DEADLOCK FALSE
INVARIANTS ViewIsStory SnapshotOfOneCycle LogFileWhole ShotOrTold CommandLineAsMeant
PROPERTY FinishedLeaves
