CONSTANTS
  Ticker = {t1, t2}
  Silent = {}
  Movers = {t1}
  Offered <- OfferedSets
  Entered <- EnteredSignals
  MaxDay = 6
  Mature = 1
  Horizon = 2
  Window = 3
  MinTotal = 2
  MinPositive = 1
  MinMonitored = 1
  Recent = 1
  MinHealthy = 1
  MinDaily = 1
  StaleAfter = 1
  StallAfter = 2
  MaxFailures = 1
  MaxOrders = 1
  Symbol = {t1}
  Book = {"pick","challenger","flow","quant"}
  Strategy = {"s1", "s2"}
  Setup = {l1}
  Slots = 3
  Weekend = {2}
  Refresh = {3, 5}
  LastDay = 3
  From = 1
  Until = 1
  Hold = 2
  Period = 2
  MaxRuns = 2
  MaxTouches = 2
  MaxDelay = 1
  Levels = {l1}
  Facts <- Observed
  Cycles = 3
  DeskDays = 2
  Approved = {1, 2}
  Cohorts <- Outcomes
  MinOutcomes = 3
  MinTrainSessions = 1
  MinHoldoutSessions = 1
  MinCandidate = 1
  MinBaseline = 1
  MinChallenger = 1
  MinHoldout = 1
  MinFutureSessions = 1
  LastSession = 6
  Candidates <- Ranked
  MaxRows = 4
  MaxPositions = 3
  MaxSectorPositions = 2
  MaxThemePositions = 2
  RiskBudget = 4
  TotalRiskLimit = 9
  MaxNotional = 20
  MinSamples = 1
  MaxSamples = 1
  Reviews = 3
  MaxShort = 1
SPECIFICATION Spec
INVARIANTS FirstTouchDecides OneSelectionADay OverdueIsClosed OneAlertASession JudgedOnTheFuture PlanIsMaximal PacketFollowsItsGates
PROPERTIES CohortFrozen LabelSettles RetrainingServesTheSame DegradedIsRolledBack OutcomesFollowEntry VerdictStands
CHECK_DEADLOCK FALSE
