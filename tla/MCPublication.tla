--------------------------- MODULE MCPublication ---------------------------
(* Two instances of the publication plane.                                  *)
(*   Fresh: one run, three datasets: sig carries observations, rec repeats   *)
(* its symbols, day is neither; symbol k is critical; three others can       *)
(* expire one freshness pass after the other.                                *)
(*   Seed: three runs, one stage that seeds or writes, two required datasets *)
(* and two symbols, so that a run can be overtaken by two publications.      *)
EXTENDS PublicationControl, TLC

FreshDataset == {"sig", "rec", "day"}
FreshRequired == {"sig", "day"}
FreshCurrent == {"sig", "rec"}
FreshSymbol == {"k", "l", "m", "n"}
FreshPayload == [d \in FreshDataset |->
  CASE d = "sig" -> {{"k", "m"}, {"l", "m", "n"}} [] d = "rec" -> {{"n"}, {"m"}}
    [] OTHER -> {{"k"}}]
FreshStage == {"prep", "scan"}
FreshParents == [s \in FreshStage |-> IF s = "scan" THEN {"prep"} ELSE {}]
FreshOutput == [s \in FreshStage |-> IF s = "scan" THEN FreshCurrent ELSE FreshDataset]

SeedDataset == {"sig", "day"}
SeedPayload == [d \in SeedDataset |-> IF d = "day" THEN {{}, {"n"}} ELSE {{"n"}}]
SeedParents == [s \in {"prep"} |-> {}]
SeedOutput == [s \in {"prep"} |-> SeedDataset]

RunSymmetry == Permutations(Run)
=============================================================================
