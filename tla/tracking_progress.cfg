\* Stream and poll together, orders filled at once or not at all; callbacks await.
SPECIFICATION FairSpec
CONSTANTS
  None = None
  Symbols = {s1}
  RunStrategies = {r1}
  RunAllStrategies = {a1}
  OrderIds = {o1, o2}
  OrderQty = 2
  Sources = {"stream", "lingering"}
  PartialFills = FALSE
  Disciplined = TRUE
  CallbackSuspends = TRUE
  MaxSaveFailures = 0
  MaxLost = 0
  MaxNotices = 0
  MaxRestarts = 0
PROPERTIES EventuallyUntracked
