\* Partial fills, and one source of news: the poll, or the stream.
SPECIFICATION MCSpec
CONSTANTS
  None = None
  Symbols = {s1, s2}
  RunStrategies = {r1}
  RunAllStrategies = {a1}
  OrderIds = {o1, o2, o3}
  OrderQty = 2
  Sources = {"stream"}
  PartialFills = TRUE
  Disciplined = TRUE
  CallbackSuspends = TRUE
  MaxSaveFailures = 0
  MaxLost = 0
  MaxNotices = 0
  MaxRestarts = 0
SYMMETRY MCSymmetry
INVARIANTS StreamForgetsNothing
PROPERTIES ImplementsOrderBook
