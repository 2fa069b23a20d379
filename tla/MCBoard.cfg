CONSTANTS
  Bit = 2
  DataBits = 1
  Bytes <- OnePayload
  Chunk = 4
  Persist = 4
  Dark = " "
  Decode <- MCDecode
  Inputs <- MCInputs
  Leds <- MCLeds
  Digits <- MCDigits
  HasUartTx = TRUE
  DesignInit <- MuxInit
  DesignCycle <- MuxCycle
  DesignPins <- MuxPins
  TickSizes = {1, 3, 6}
  MaxCycle = 13
  MaxSends = 2
  MaxPokes = 1
  MaxDirect = 1
SPECIFICATION Spec
INVARIANT PartitionIndependent
INVARIANT LogOrdered
INVARIANT SegmentAdvances
PROPERTY ImplementsDriver
CHECK_DEADLOCK FALSE
