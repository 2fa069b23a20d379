CONSTANTS
  Bit = 10417
  DataBits = 8
  Bytes <- MCBytes
  Chunk = 1000
  TxBits = {10416, 10417}
  Gaps <- MCGaps
  GlitchLengths = {1, 1001, 5208}
  MaxPulses = 2
  MaxCycle = 250000
SPECIFICATION Spec
INVARIANT ReportedIsSent
INVARIANT ReportedByStop
CHECK_DEADLOCK FALSE
