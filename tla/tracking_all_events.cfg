\* Every kind of event at once, undisciplined strategies.
SPECIFICATION Spec
CONSTANTS
  None = None
  Symbols = {s1}
  RunStrategies = {r1}
  RunAllStrategies = {a1}
  OrderIds = {o1, o2}
  OrderQty = 1
  Sources = {"stream", "bars", "lingering"}
  PartialFills = TRUE
  Disciplined = FALSE
  CallbackSuspends = FALSE
  MaxSaveFailures = 1
  MaxLost = 1
  MaxNotices = 1
  MaxRestarts = 1
SYMMETRY MCSymmetry
INVARIANTS TrackedWithItsStrategy LedgerAgrees
