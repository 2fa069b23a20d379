CONSTANTS
  Frame = 2
  Texts <- MCTexts
  TxValues <- MCTxValues
  Newline = "n"
  LineBytes = 2
  Lines = 2
  Pending = 3
  MaxCycle = 4
  MaxTx = 2
  MaxOps = 3
SPECIFICATION Spec
CHECK_DEADLOCK FALSE
INVARIANT RowsAreTraffic
