CONSTANTS
  Run = {r1, r2, r3}
  NoRun = NoRun
  Missing = Missing
  Dataset <- SeedDataset
  Required <- SeedDataset
  Signal = {"sig"}
  Current = {"sig"}
  Symbol = {"n"}
  Critical = {}
  Payload <- SeedPayload
  Stage = {"prep"}
  SeedStage = "prep"
  Parents <- SeedParents
  Output <- SeedOutput
  Serial = TRUE
  Reruns = FALSE
  MaxPasses = 2
SPECIFICATION Spec
SYMMETRY RunSymmetry
INVARIANTS HeadIsComplete
PROPERTIES NothingCarriedBack ImplementsRegister
CHECK_DEADLOCK FALSE
