SPECIFICATION Spec
CONSTANTS
  Writer = {w1, w2}
  Instrument = {i1, i2}
  Symbol = {AAA, BBB}
  Universe = {u1, u2}
  Capture = {c1}
  None = None
  MaxXid = 2
  MaxRow = 3
  MaxClock = 1
SYMMETRY Swaps
INVARIANT ReplaysCapture
CHECK_DEADLOCK FALSE
