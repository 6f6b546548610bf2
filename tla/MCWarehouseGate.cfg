SPECIFICATION Spec
CONSTANTS
  DayLen = 5
  OpenTime = 1
  CloseTime = 4
  Session = {0, 1, 2}
  a = a
  b = b
  c = c
  Plans <- MCPlans
  Master = {b, c}
  Core = {a}
  Theme = {b}
  Rotation = {a}
  MinMaster = 50
  MinTheme = 0
  MinLive = 50
  DailyBars = 1
  MinBars = 2
  Age = 1
  LiveAge = 2
  DailyDays = 2
  LiveDays = 1
  MasterMinimum = 2
  Starts = {1, 5, 11, 12}
  Begins = {13}
  MaxBad = 1
  MaxLate = 1
  MaxGate = 2
  MaxTime = 15
  None = None
INVARIANTS ConsumersServed PublishedOnFreshInputs
PROPERTY InputsOnlyAge
CHECK_DEADLOCK FALSE
