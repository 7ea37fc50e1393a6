\* A fill is announced by the stream and found by the poll.
SPECIFICATION Spec
CONSTANTS
  None = None
  Symbols = {s1}
  RunStrategies = {r1}
  RunAllStrategies = {a1}
  OrderIds = {o1, o2}
  OrderQty = 1
  Sources = {"stream", "lingering"}
  PartialFills = FALSE
  Disciplined = TRUE
  CallbackSuspends = FALSE
  MaxSaveFailures = 0
  MaxLost = 0
  MaxNotices = 0
  MaxRestarts = 0
SYMMETRY MCSymmetry
INVARIANTS CountedOnce
