CONSTANTS
  Bit = 3
  DataBits <- MCDataBits
  Bytes <- MCBytes
  MaxCycle = 40
  MaxSends = 3
SPECIFICATION Spec
INVARIANT StampExact
INVARIANT FramesDisjoint
PROPERTY ImplementsLine
CHECK_DEADLOCK FALSE
