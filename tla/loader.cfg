\* Two trading days with a closed one between them, two reads of a column.  A
\* history of two requests, the second of which begins in the middle of a minute.
\* A stream of two minutes and four trades, a few of which come too late or at once.
\* A calendar of three months.  A miner of two pages, one of them full.  A scanner
\* of two chunks, a minute before 9:30 and two after it.
SPECIFICATION MCSpec
CONSTANTS
  None = None
  Days = 3
  PerDay = 2
  TradingDays = {0, 2}
  PointsPerLoad = 2
  MaxReads = 2
  Length = 6
  PerPeriod = 2
  PerMinute = 2
  Limit = 2
  MaxTrades = 4
  MaxSeconds = 5
  MinuteLength = 3
  Lateness = 2
  Lengths <- MCLengths
  Refused = Refused
  MaxTicker = 3
  PerPage = 2
  Sectors = {"", "tech"}
  MaxChanges = 1
  MaxRuns = 2
  Total = 2
  ChunkSize = 1
  Open = 1
  LastMinute = 3
  MaxPuts = 1
  MaxRestarts = 1
CHECK_DEADLOCK FALSE
INVARIANTS SliceComplete KeyIsNewest LoadingHeals GeminiBars CalendarAnswers MinedIsFound ReplayIsLive
