\* An order is partly filled and no more.
SPECIFICATION FairSpec
CONSTANTS
  None = None
  Symbols = {s1}
  RunStrategies = {r1}
  RunAllStrategies = {a1}
  OrderIds = {o1}
  OrderQty = 2
  Sources = {"stream", "lingering"}
  PartialFills = TRUE
  Disciplined = TRUE
  CallbackSuspends = FALSE
  MaxSaveFailures = 0
  MaxLost = 0
  MaxNotices = 0
  MaxRestarts = 0
PROPERTIES EventuallyUntracked
