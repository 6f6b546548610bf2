CONSTANTS
  Run = {r1}
  NoRun = NoRun
  Missing = Missing
  Dataset <- FreshDataset
  Required <- FreshRequired
  Signal = {"sig"}
  Current <- FreshCurrent
  Symbol <- FreshSymbol
  Critical = {"k"}
  Payload <- FreshPayload
  Stage <- FreshStage
  SeedStage = "prep"
  Parents <- FreshParents
  Output <- FreshOutput
  Serial = TRUE
  Reruns = FALSE
  MaxPasses = 3
SPECIFICATION Spec
INVARIANTS ExcludedNowhere PublishedInOrder
CHECK_DEADLOCK FALSE
