CONSTANTS
  Signal = {s1}
  Worker = {w1}
  Resolver = resolver
  Serial = TRUE
  Faults = TRUE
  Snapshot <- Lives
  DailyBar <- Bars
  Window = 2
  Horizons <- RealHorizons
  Slots = 2
  MaxDay = 4
  MaxQuote = 2
SPECIFICATION Spec
CHECK_DEADLOCK FALSE
INVARIANTS NoLookAhead FirstTouch
PROPERTIES BookSpec
