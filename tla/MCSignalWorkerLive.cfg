CONSTANTS
  Signal = {s1, s2}
  Worker = {w1}
  Messenger = {}
  Snapshot <- Starts
  MaxQuote = 2
  Faults = FALSE
SPECIFICATION FairSpec
PROPERTIES EveryMoveAudited
