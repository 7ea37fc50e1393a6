---------------------------- MODULE MCMarketData ----------------------------
(***************************************************************************)
(* Where market data comes from: the loader's table of bars, the history   *)
(* Gemini answers and its stream, Tradier's calendar, the miner of          *)
(* companies, and the picks of the momentum scanner.  They share nothing: a *)
(* state is of one of them.                                                *)
(***************************************************************************)
EXTENDS DataLoader

\* What each part is instantiated with: see there.
CONSTANTS
  Length, PerPeriod, PerMinute, Limit, MaxTrades,               \* GeminiHistory
  MaxSeconds, MinuteLength, Lateness,                           \* GeminiStream
  Lengths, Refused,                                             \* TradierCalendar
  MaxTicker, PerPage, Sectors, MaxChanges, MaxRuns,             \* Universe
  Total, ChunkSize, Open, LastMinute, MaxPuts, MaxRestarts      \* Momentum

VARIABLES
  part,     \* whose state it is
  clock, trades, answer, failed, askedAt, returned,
  today, open, last,
  listing, sector, relisted, runs, phase, fetched, tickers, asked, info,
  ticker_data, steady, unknown,
  minute, snapshot, others, scanner, unanswered, fits, broken, puts, queue, adding,
  symbols, trending, reason, restarts,
  second, made, running_task, socket, wakes, routed, waiting, time_tick, known, row,
  volume_today, lost

Gemini == INSTANCE GeminiHistory WITH now <- clock

ASSUME GeminiAssumption == Gemini!ConstantsAssumption

Calendar == INSTANCE TradierCalendar

ASSUME CalendarAssumption == Calendar!ConstantsAssumption

Miner == INSTANCE Universe

ASSUME MinerAssumption == Miner!ConstantsAssumption

Momentum == INSTANCE Momentum WITH market <- snapshot, table <- trending

ASSUME MomentumAssumption == Momentum!ConstantsAssumption

Streaming == INSTANCE GeminiStream

ASSUME StreamingAssumption == Streaming!ConstantsAssumption

\* The second month is two days shorter than the first.
MCLengths == <<4, 2, 3>>

gemini == <<clock, trades, answer, failed, askedAt, returned>>
calendar == <<today, open, last>>
miner ==
  <<listing, sector, relisted, runs, phase, fetched, tickers, asked, info,
    ticker_data, steady, unknown>>

momentum ==
  <<minute, snapshot, others, scanner, unanswered, fits, broken, puts, queue, adding,
    symbols, trending, reason, restarts>>

stream ==
  <<second, made, running_task, socket, wakes, routed, waiting, time_tick, known, row,
    volume_today, lost>>

MCInit ==
  /\ part \in {"loader", "gemini", "calendar", "miner", "momentum", "stream"}
  /\ IF part = "loader" THEN TRUE ELSE market = {} /\ concurrent = FALSE
  /\ IF part = "calendar" THEN TRUE ELSE open = Calendar!Dates
  /\ IF part = "miner" THEN TRUE ELSE listing = {} /\ sector = [t \in 1 .. MaxTicker |-> ""]
  /\ IF part = "momentum" THEN TRUE
     ELSE snapshot = [s \in 1 .. Total |-> "misses"] /\ others = FALSE
  /\ IF part = "stream" THEN TRUE ELSE known = FALSE
  /\ Init /\ Gemini!Init /\ Calendar!Init /\ Miner!Init /\ Momentum!Init
  /\ Streaming!Init

MCNext ==
  \/ part = "loader" /\ Next /\ UNCHANGED <<part, gemini, calendar, miner, momentum, stream>>
  \/ part = "gemini" /\ Gemini!Next /\ UNCHANGED <<part, vars, calendar, miner, momentum, stream>>
  \/ part = "calendar" /\ Calendar!Next /\ UNCHANGED <<part, vars, gemini, miner, momentum, stream>>
  \/ part = "miner" /\ Miner!Next /\ UNCHANGED <<part, vars, gemini, calendar, momentum, stream>>
  \/ part = "momentum" /\ Momentum!Next /\ UNCHANGED <<part, vars, gemini, calendar, miner, stream>>
  \/ part = "stream" /\ Streaming!Next /\ UNCHANGED <<part, vars, gemini, calendar, miner, momentum>>

MCSpec == MCInit /\ [][MCNext]_<<part, vars, gemini, calendar, miner, momentum, stream>>

\* Gemini's bars: those of a range are in order, and whole but where an answer was
\* cut; the row of a minute that was streamed is made of its first trade.
GeminiBars ==
  /\ part = "gemini" => Gemini!HistoryIsWhole
  /\ part = "stream" => Streaming!MinuteHasItsRow

\* The last trading day is the newest one the search looks at, and the trading
\* days of a range are all of it.
CalendarAnswers ==
  part = "calendar" => Calendar!LastTradingIsPrevious /\ Calendar!RangeIsWhole

\* A mined company is found by its sector, unless it is on the last page.
MinedIsFound == part = "miner" => Miner!MinedIsFound

\* A backtest's momentum scanner picks what the live one had picked by then.
ReplayIsLive == part = "momentum" => Momentum!ReplayIsLive
=============================================================================
