SPECIFICATION CatalystSpec
CONSTANTS
  Collector = {w1, w2}
  Ticker = {1, 2}
  Event = {1, 2}
  TickerOf <- MCTickerOf
  Style = {"bulk", "ticker"}
  FetchBack = 2
  Back = 1
  Ahead = 1
  MaxAge = 0
  Dates = {0, 1}
  MaxTime = 1
  MaxRev = 3
  MaxCapture = 1
  Nil = Nil
SYMMETRY Same
INVARIANTS ManifestReadable HistoryContiguous NoLockCycle
PROPERTY BoundaryStable
CHECK_DEADLOCK FALSE
