\* Two tasks, two portfolios and a balance; a brokerage account's four orders; a polled order.
SPECIFICATION MCSpec
CONSTANTS
  None = None
  Tasks = {t1, t2}
  Portfolios = {p1, p2}
  MaxAccounts = 2
  Amounts = {1, 2}
  Size = 2
  Credit = 1
  Connections = 3
  MaxCalls = 2
  MaxOrders = 4
  MaxPushbacks = 2
CHECK_DEADLOCK FALSE
INVARIANTS BalanceAgrees OverdrawnOnlyByRace OneAccountEach PushbacksAccounted
PROPERTIES CallsReturn PollSettles
