\* One entry, two consumers, a commit that lags, a failed scan.
SPECIFICATION FairSpec
CONSTANTS
  None = None
  PortfolioOf <- MCPortfolioOf
  Entries = {e1}
  FileStrategies = {f1}
  Consumers = {c1, c2}
  Portfolios = {p1}
  FileOnly = FALSE
  LastTick = 2
  CommitLag = 1
  MaxFailures = 1
INVARIANTS TypeOK DispatchedOnce OneCopyOfNew
PROPERTIES NewEntryHandled
