------------------------------ MODULE Backtest ------------------------------
(***************************************************************************)
(* A replay of trading days (liualgotrader/enhanced_backtest.py): at every   *)
(* tick the scanners that are due pick symbols, then every strategy is       *)
(* called, with run_all() once or with run() symbol by symbol, and what it   *)
(* asks for is executed at the price of the moment.  Positions are a global  *)
(* of the process; trades are written to new_trades.                         *)
(***************************************************************************)
EXTENDS Integers, Sequences

CONSTANTS
  Symbols,
  ScannerList,   \* scanners in order: [recurrence, target]; 0 is no recurrence
  StrategyList,  \* names of the strategies, in order
  RunAll,        \* those with should_run_all()
  NumDays,       \* days of the calendar
  Ticks,         \* ticks of a trading day
  DayLength,     \* ticks from one opening to the next
  AskedQty,      \* quantities strategies ask for, negative ones among them
  MaxTrades,     \* bound: executed operations
  None

Strategies == {StrategyList[i] : i \in DOMAIN StrategyList}
Targets == Strategies \cup {"_all"}
Scanners == DOMAIN ScannerList

ASSUME CalendarAssumption ==
  {NumDays, Ticks, DayLength} \subseteq Nat \ {0} /\ Ticks <= DayLength
ASSUME ListsAssumption ==
  /\ ScannerList \in Seq([recurrence : Nat, target : Targets])
  /\ StrategyList \in Seq(Strategies)
ASSUME NoneAssumption == None \notin Symbols \cup Targets \cup Nat
ASSUME QuantityAssumption == AskedQty \subseteq Int
ASSUME BoundAssumption == MaxTrades \in Nat

VARIABLES
  day, tick,    \* current_time
  stage,        \* what backtest_day does: <<"scan" or "strategy", index>>
  lastRun,      \* run_scanners: when a scanner ran last
  symbols,      \* picks per target strategy, None for a missing key
  prefetched,   \* symbols loaded since the day began
  loaded,       \* the last day whose bars a symbol was loaded for
  positions,    \* trading_data.positions, with its keys
  pending,      \* what is left of the call of a strategy
  shown,        \* symbols_position of the last run_all()
  recorded,     \* net quantity per symbol in new_trades
  reversed,     \* that of its rows with a negative quantity alone
  unsaved,      \* history: moves of positions whose row was not stored
  trades

vars == <<day, tick, stage, lastRun, symbols, prefetched, loaded, positions,
          pending, shown, recorded, reversed, unsaved, trades>>

Sides == {"buy", "sell"}
Asks == [symbol : Symbols, side : Sides \cup {"run"}]

Stages ==
  ({"scan"} \X (1 .. Len(ScannerList) + 1))
    \cup ({"strategy"} \X (1 .. Len(StrategyList) + 1))
    \cup ({"call"} \X DOMAIN StrategyList)
    \cup {<<"done", 0>>, <<"aborted", 0>>}

TypeOK ==
  /\ day \in 1 .. NumDays /\ tick \in 0 .. Ticks
  /\ stage \in Stages
  /\ lastRun \in [Scanners -> Nat \cup {None}]
  /\ \A t \in Targets : symbols[t] = None \/ symbols[t] \subseteq Symbols
  /\ prefetched \subseteq Symbols
  /\ loaded \in [Symbols -> 0 .. NumDays]
  /\ DOMAIN positions \subseteq Symbols
  /\ \A s \in DOMAIN positions : positions[s] \in Int
  /\ pending \subseteq Asks
  /\ stage[1] # "call" => pending = {}
  /\ recorded \in [Symbols -> Int] /\ reversed \in [Symbols -> Int]
  /\ unsaved \in [Symbols -> Int]
  /\ trades \in 0 .. MaxTrades

Init ==
  /\ day = 1 /\ tick = 0 /\ stage = <<"scan", 1>>
  /\ lastRun = [i \in Scanners |-> None]
  /\ symbols = [t \in Targets |-> None]
  /\ prefetched = {} /\ loaded = [s \in Symbols |-> 0]
  /\ positions = << >> /\ pending = {} /\ shown = << >>
  /\ recorded = [s \in Symbols |-> 0] /\ reversed = recorded /\ unsaved = recorded
  /\ trades = 0

Now == day * DayLength + tick
DayOf(t) == t \div DayLength
Picked(t) == IF symbols[t] = None THEN {} ELSE symbols[t]
Position(s) == IF s \in DOMAIN positions THEN positions[s] ELSE 0
clock == <<day, tick>>
ledger == <<recorded, reversed, unsaved, trades>>
books == <<positions, ledger>>

(***************************************************************************)
(* do_scanners.                                                             *)
(***************************************************************************)
Due_Late(i) ==
  lastRun[i] # None =>
    IF ScannerList[i].recurrence = 0 THEN DayOf(lastRun[i]) # day
    ELSE Now - lastRun[i] > ScannerList[i].recurrence
Due(i) ==
  lastRun[i] # None =>
    IF ScannerList[i].recurrence = 0 THEN DayOf(lastRun[i]) # day
    ELSE Now - lastRun[i] >= ScannerList[i].recurrence

\* The picks of a scanner replace those its target has.
RunScanner(i, picks) ==
  /\ stage = <<"scan", i>> /\ i \in Scanners /\ Due(i)
  /\ lastRun' = [lastRun EXCEPT ![i] = Now]
  /\ symbols' = [symbols EXCEPT ![ScannerList[i].target] = picks]
  /\ stage' = <<"scan", i + 1>>
  /\ UNCHANGED <<clock, prefetched, loaded, pending, shown, books>>

SkipScanner(i) ==
  /\ stage = <<"scan", i>> /\ i \in Scanners /\ ~Due(i)
  /\ stage' = <<"scan", i + 1>>
  /\ UNCHANGED <<clock, lastRun, symbols, prefetched, loaded, pending, shown,
                 books>>

\* A scanner that raises ends the replay.
ScannerFails(i) ==
  /\ stage = <<"scan", i>> /\ i \in Scanners /\ Due(i)
  /\ lastRun' = [lastRun EXCEPT ![i] = Now]
  /\ stage' = <<"aborted", 0>>
  /\ UNCHANGED <<clock, symbols, prefetched, loaded, pending, shown, books>>

(***************************************************************************)
(* backtest_day, once the scanners ran: positions that were closed are       *)
(* forgotten, the bars of the day of new picks are loaded.                   *)
(***************************************************************************)
AllPicked == UNION {Picked(t) : t \in Targets}

Prefetch ==
  /\ stage = <<"scan", Len(ScannerList) + 1>>
  /\ positions' = [s \in {p \in DOMAIN positions : positions[p] # 0}
                     |-> positions[s]]
  /\ prefetched' = prefetched \cup AllPicked
  /\ loaded' = [s \in Symbols |-> IF s \in AllPicked \ prefetched THEN day
                                  ELSE loaded[s]]
  /\ stage' = <<"strategy", 1>>
  /\ UNCHANGED <<clock, lastRun, symbols, pending, shown, ledger>>

\* A symbol without bars that day: the ValueError is caught by nobody.
PrefetchFails ==
  /\ stage = <<"scan", Len(ScannerList) + 1>>
  /\ AllPicked \ prefetched # {}
  /\ stage' = <<"aborted", 0>>
  /\ UNCHANGED <<clock, lastRun, symbols, prefetched, loaded, pending, shown,
                 books>>

(***************************************************************************)
(* do_strategy.                                                             *)
(***************************************************************************)
Strategy(i) == StrategyList[i]
Offered(i) == Picked("_all") \cup Picked(Strategy(i))

\* positions |= {symbol: 0 ...}, for the picks that have no position.
WithPicks_Reset(i) ==
  [s \in DOMAIN positions \cup Offered(i) |->
     IF s \in Offered(i) THEN 0 ELSE positions[s]]
WithPicks(i) ==
  [s \in DOMAIN positions \cup Offered(i) |-> Position(s)]

\* symbols_position: zeros for the picks, then every position there is.
SymbolsPosition_OfPicks(i, held) == [s \in Offered(i) |-> held[s]]
SymbolsPosition(i, held) ==
  [s \in Offered(i) \cup DOMAIN held |->
     IF s \in DOMAIN held THEN held[s] ELSE 0]

\* do_strategy_all: one call, a dictionary of at most one ask per symbol.
CallRunAll(i, asks) ==
  /\ stage = <<"strategy", i>> /\ i \in DOMAIN StrategyList
  /\ Strategy(i) \in RunAll
  /\ positions' = WithPicks(i)
  /\ shown' = SymbolsPosition(i, positions')
  /\ pending' = asks
  /\ stage' = <<"call", i>>
  /\ UNCHANGED <<clock, lastRun, symbols, prefetched, loaded, ledger>>

\* do_strategy_by_symbol: run() for every pick, in any order.
CallBySymbol(i) ==
  /\ stage = <<"strategy", i>> /\ i \in DOMAIN StrategyList
  /\ Strategy(i) \notin RunAll
  /\ positions' = WithPicks(i)
  /\ pending' = {[symbol |-> s, side |-> "run"] : s \in Offered(i)}
  /\ stage' = <<"call", i>>
  /\ UNCHANGED <<clock, lastRun, symbols, prefetched, loaded, shown, ledger>>

\* run_all() raises: the replay ends.
RunAllFails(i) ==
  /\ stage = <<"strategy", i>> /\ i \in DOMAIN StrategyList
  /\ Strategy(i) \in RunAll
  /\ positions' = WithPicks(i)
  /\ stage' = <<"aborted", 0>>
  /\ UNCHANGED <<clock, lastRun, symbols, prefetched, loaded, pending, shown,
                 ledger>>

\* run() raises, or an ask has no quantity: the replay ends.
RunFails ==
  /\ stage[1] = "call" /\ pending # {}
  /\ pending' = {}
  /\ stage' = <<"aborted", 0>>
  /\ UNCHANGED <<clock, lastRun, symbols, prefetched, loaded, shown, books>>

\* run_all(): the sells of the dictionary go first.
Turn(a) ==
  a \in pending /\ (a.side = "buy" => \A b \in pending : b.side # "sell")

\* do_strategy_result.  An ask whose limit the price does not meet, or whose
\* callback raises, is not executed; nor is there one when run() declines, raises
\* a ValueError or the symbol has no bars.
NotExecuted(a) ==
  /\ stage[1] = "call" /\ Turn(a)
  /\ pending' = pending \ {a}
  /\ UNCHANGED <<clock, stage, lastRun, symbols, prefetched, loaded, shown,
                 books>>

\* How a position moves: by the size of the quantity, up for a buy and down for a
\* sell, whatever the sign of the quantity.
Sign(side, qty) ==
  IF (side = "buy" /\ qty > 0) \/ (side = "sell" /\ qty < 0) THEN 1 ELSE -1
Moved(side, qty) == Sign(side, qty) * qty

\* How a row of new_trades counts for those who add the rows up: it has the
\* quantity as it was asked for.
Counted(side, qty) == IF side = "buy" THEN qty ELSE -qty

Add(table, s, n) == [table EXCEPT ![s] = @ + n]

\* The callback returned: the position changes, then the row is saved.
Operate(a, side, qty) ==
  /\ stage[1] = "call" /\ Turn(a)
  /\ a.side \in {"run", side}
  /\ trades < MaxTrades /\ trades' = trades + 1
  /\ positions' = [s \in DOMAIN positions \cup {a.symbol} |->
                     IF s = a.symbol THEN Position(s) + Moved(side, qty)
                                     ELSE positions[s]]
  /\ UNCHANGED <<clock, lastRun, symbols, prefetched, loaded, shown>>

Executed(a, side, qty) ==
  /\ Operate(a, side, qty)
  /\ recorded' = Add(recorded, a.symbol, Counted(side, qty))
  /\ reversed' = IF qty < 0 THEN Add(reversed, a.symbol, Counted(side, qty)) ELSE reversed
  /\ pending' = pending \ {a}
  /\ UNCHANGED <<stage, unsaved>>

\* The row is not stored.  That ends the replay, but for a ValueError (asyncpg's
\* DataError is one) under do_strategy_by_symbol, which goes on with the next
\* symbol.
SaveFails(a, side, qty) ==
  /\ Operate(a, side, qty)
  /\ unsaved' = Add(unsaved, a.symbol, Moved(side, qty))
  /\ \/ pending' = {} /\ stage' = <<"aborted", 0>>
     \/ /\ Strategy(stage[2]) \notin RunAll
        /\ pending' = pending \ {a} /\ UNCHANGED stage
  /\ UNCHANGED <<recorded, reversed>>

EndCall ==
  /\ stage[1] = "call" /\ pending = {}
  /\ stage' = <<"strategy", stage[2] + 1>>
  /\ shown' = << >>
  /\ UNCHANGED <<clock, lastRun, symbols, prefetched, loaded, pending, books>>

(***************************************************************************)
(* The clock of backtest_day and backtest_time_range.                       *)
(***************************************************************************)
AllCalled == stage = <<"strategy", Len(StrategyList) + 1>>

NextTick ==
  /\ AllCalled /\ tick + 1 < Ticks
  /\ tick' = tick + 1
  /\ stage' = <<"scan", 1>>
  /\ UNCHANGED <<day, lastRun, symbols, prefetched, loaded, pending, shown,
                 books>>

NextDay ==
  /\ AllCalled /\ tick + 1 = Ticks /\ day < NumDays
  /\ day' = day + 1 /\ tick' = 0
  /\ prefetched' = {}
  /\ stage' = <<"scan", 1>>
  /\ UNCHANGED <<lastRun, symbols, loaded, pending, shown, books>>

Done ==
  /\ AllCalled /\ tick + 1 = Ticks /\ day = NumDays
  /\ stage' = <<"done", 0>>
  /\ UNCHANGED <<clock, lastRun, symbols, prefetched, loaded, pending, shown,
                 books>>

Dictionaries ==
  UNION {{{[symbol |-> s, side |-> f[s]] : s \in S} : f \in [S -> Sides]} :
           S \in SUBSET Symbols}

Scan ==
  \E i \in Scanners :
    \/ \E picks \in SUBSET Symbols : RunScanner(i, picks)
    \/ SkipScanner(i) \/ ScannerFails(i)
Call ==
  \E i \in DOMAIN StrategyList :
    CallBySymbol(i) \/ RunAllFails(i) \/ \E asks \in Dictionaries : CallRunAll(i, asks)
Execute ==
  \E a \in pending :
    \/ NotExecuted(a)
    \/ \E side \in Sides, qty \in AskedQty : Executed(a, side, qty) \/ SaveFails(a, side, qty)

Next ==
  \/ Scan \/ Prefetch \/ PrefetchFails
  \/ Call \/ RunFails \/ Execute \/ EndCall
  \/ NextTick \/ NextDay \/ Done

Spec == Init /\ [][Next]_vars

(***************************************************************************)
(* Properties.                                                              *)
(***************************************************************************)

\* What was executed of a symbol, by its rows: one of a negative quantity moved the
\* position the other way, and some rows were not stored.
Held(s) == recorded[s] - 2 * reversed[s] + unsaved[s]

\* The positions the strategies are called with are those the trades of the
\* batch add up to, through the keys that come and go at every tick; they differ
\* from the sum of new_trades by the rows of a negative quantity, which count
\* twice, and by the rows that were lost, and by nothing else.
PositionsAreTrades == \A s \in Symbols : Position(s) = Held(s)

\* run_all() is shown every symbol in which something is held, picked at this
\* tick or not, with what is held.
RunAllSeesHoldings ==
  [][\A i \in DOMAIN StrategyList, asks \in Dictionaries :
       CallRunAll(i, asks) =>
         \A s \in Symbols :
           Held(s) # 0 => s \in DOMAIN shown' /\ shown'[s] = Held(s)]_vars

\* When the strategies are called each scanner ran this day, or, if it recurs,
\* less than its recurrence ago; and no scanner ran sooner than that.
ScannersOnTime ==
  [][/\ stage'[1] = "strategy" =>
          \A i \in Scanners :
            lastRun[i] # None /\
              IF ScannerList[i].recurrence = 0 THEN DayOf(lastRun[i]) = day
              ELSE Now - lastRun[i] < ScannerList[i].recurrence
     /\ \A i \in Scanners :
          lastRun[i] # None /\ lastRun'[i] # lastRun[i] =>
            IF ScannerList[i].recurrence = 0
              THEN DayOf(lastRun'[i]) # DayOf(lastRun[i])
              ELSE lastRun'[i] - lastRun[i] >= ScannerList[i].recurrence]_vars
=============================================================================
