\* A replay of two days, an optimizer of two parameters, reports, candles and an index.
\* Reports of four days, the third without a session.
\* A chart of up to six bars over up to ten bins of two minutes, six of which are a day.
SPECIFICATION MCSpec
CONSTANTS
  None = None
  Symbols = {s1, s2}
  ScannerList <- MCScannerList
  StrategyList <- MCStrategyList
  RunAll = {"atOnce"}
  NumDays = 2
  Ticks = 2
  DayLength = 3
  AskedQty <- MCAskedQty
  MaxTrades = 2
  NumParams = 2
  Lowest = 1
  Highest = 3
  Steps = {1, 2}
  Concurrency = 2
  MaxPool = 4
  MaxPrice = 7
  LastDay = 3
  Closed = {2}
  Quantities = {1, 2}
  Amounts = {2}
  PortfolioSize = 5
  MaxRows = 3
  MaxTransactions = 2
  BarPrices = {1, 2}
  Gaps = {1, 2, 3}
  MaxBars = 6
  BinLength = 2
  ChartDay = 12
  Window = 5
  Companies = {"a", "b", "c"}
  IndexRows = 2
CHECK_DEADLOCK FALSE
INVARIANTS PositionsAreTrades ReportsAgree ChartsAgree
PROPERTIES RunAllSeesHoldings ScannersOnTime GridReplayed PatternsExclude ConstituentsOfThen
