\* One order of one consumer, two notices, two faults; an application of two consumers.
SPECIFICATION MCSpec
CONSTANTS
  None = None
  Producer = producer
  NumConsumers = 1
  Orders = {o1}
  MaxNotices = 2
  MaxFaults = 2
CHECK_DEADLOCK FALSE
INVARIANTS ToldInOrder OnlyOwnOrders
PROPERTIES  CloseReturns PicksRouted InterruptEnds
