SPECIFICATION Spec
CONSTANTS
  PortOrder <- MCPortOrder
  Inputs = {"aux", "sw"}
  Clock = "clk"
  Inner = {"top.line"}
  Names = {"vs", "top.line", "top.memory"}
  Width <- MCWidth
  WordBits = 5
  RegsInits <- MCRegsInits
  RegsAfter <- MCRegsAfter
  Value <- MCValue
  Amounts = {0, 1, 2, 3, 4, 5, 6, 7}
  WatchLists <- MCWatchLists
  PokeValues = {0, 1, 2, 3, 6}
  HTotal = 5
  VTotal = 4
  Columns = 2
  Rows = 2
  HVisible = 2
  VBlank = 1
  Black = "black"
  Drivers = {"SW0", "SW1", "BTNC"}
  VgaPins <- MCVgaPins
  Driving = {"SW0", "SW1", "BTNC"}
  RangeOf <- MCRangeOf
  ResourceOf <- MCResourceOf
  NumberOf <- MCNumberOf
  NumeralOf <- MCNumeralOf
  Chunk = 7
  Limits <- MCLimits
  TextsOf <- MCTextsOf
CHECK_DEADLOCK FALSE
INVARIANTS FrameHealthExact PictureIsSignal InputsMatchPins ConstraintsRoundTrip
PROPERTY EngineImplements
