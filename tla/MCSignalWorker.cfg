CONSTANTS
  Signal = {s1}
  Worker = {w1, w2}
  Messenger <- AllWorkers
  Snapshot <- Endings
  MaxQuote = 3
  Faults = TRUE
SPECIFICATION Spec
SYMMETRY Same
INVARIANTS SentOnce MarkedIsDelivered
