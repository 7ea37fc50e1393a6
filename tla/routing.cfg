\* Two symbols, failing subscriptions and writes, a trade or a reconnect.
SPECIFICATION Spec
CONSTANTS
  None = None
  Symbols = {s1, s2}
  Consumers = {c1, c2, c3}
  MinuteLength = 2
  MaxLag = 1
  LastSecond = 4
  MaxScans = 3
  MaxTrades = 1
  MaxFailures = 1
  MaxDisconnects = 1
  MaxEvents = 1
SYMMETRY MCSymmetry
CHECK_DEADLOCK FALSE
INVARIANTS HeldWhereRouted OneMovePerFailure
PROPERTIES BarsInOrder
