\* A failed write, and the scanner picks the symbol again.
SPECIFICATION Spec
CONSTANTS
  None = None
  Symbols = {s1}
  Consumers = {c1, c2}
  MinuteLength = 2
  MaxLag = 1
  LastSecond = 4
  MaxScans = 2
  MaxTrades = 1
  MaxFailures = 1
  MaxDisconnects = 0
  MaxEvents = 1
SYMMETRY MCSymmetry
CHECK_DEADLOCK FALSE
INVARIANTS OneTracker
