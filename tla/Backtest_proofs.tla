----------------------------- MODULE Backtest_proofs -----------------------------
(***************************************************************************)
(* Proofs about a replay (Backtest), for every calendar, every list of       *)
(* scanners and of strategies and every bound on the trades; about the       *)
(* candle patterns it may use (Candles), for all prices; about what is made   *)
(* of it, the charts (Charts) and the reports (Returns); and about the       *)
(* optimizer (Optimizer) and the index at a date (Constituents).             *)
(***************************************************************************)
EXTENDS MCBacktesting, SequenceTheorems, FiniteSetTheorems, NaturalsInduction,
        WellFoundedInduction, TLAPS

(***************************************************************************)
(* Arithmetic of the clock.                                                 *)
(***************************************************************************)

\* A moment of a day that has not reached the next opening is of that day.
LEMMA DayOfMoment ==
  ASSUME NEW d \in Nat, NEW len \in Nat \ {0}, NEW t \in Nat, t < len
  PROVE  (d * len + t) \div len = d
<1> DEFINE n == d * len + t
           q == n \div len
<1>1. n \in Nat
  OBVIOUS
<1>2. q \in Int /\ len * q <= n /\ n < len * q + len
  BY <1>1
<1>3. ~(q < d)
  <2> SUFFICES ASSUME q + 1 <= d PROVE FALSE
    BY <1>2
  <2>1. len * (q + 1) <= len * d
    BY <1>2
  <2>2. len * (q + 1) = len * q + len /\ len * d = d * len
    BY <1>2
  <2> QED  BY <1>1, <1>2, <2>1, <2>2
<1>4. ~(q > d)
  <2> SUFFICES ASSUME d + 1 <= q PROVE FALSE
    BY <1>2
  <2>1. len * (d + 1) <= len * q
    BY <1>2
  <2>2. len * (d + 1) = len * d + len /\ len * d = d * len
    OBVIOUS
  <2> QED  BY <1>1, <1>2, <2>1, <2>2
<1> QED  BY <1>2, <1>3, <1>4

(***************************************************************************)
(* Type correctness.  The clock never stands at the end of a day, and every  *)
(* target has its key.                                                       *)
(***************************************************************************)
TypeInv ==
  /\ TypeOK
  /\ tick < Ticks
  /\ symbols \in [Targets -> {None} \cup SUBSET Symbols]

\* The time is a number, and of the day it is.
LEMMA NowIsToday == TypeInv => Now \in Nat /\ DayOf(Now) = day
<1> SUFFICES ASSUME TypeInv PROVE Now \in Nat /\ DayOf(Now) = day
  OBVIOUS
<1>1. /\ day \in Nat /\ tick \in Nat /\ DayLength \in Nat \ {0}
      /\ tick < DayLength
  BY CalendarAssumption DEF TypeInv, TypeOK
<1>2. Now \in Nat
  BY <1>1 DEF Now
<1> QED  BY <1>1, <1>2, DayOfMoment DEF Now, DayOf

\* What a strategy is offered, and what was picked at all, are symbols.
LEMMA PicksAreSymbols ==
  ASSUME TypeInv
  PROVE  /\ AllPicked \subseteq Symbols
         /\ \A i \in DOMAIN StrategyList : Offered(i) \subseteq Symbols
<1>1. \A t \in Targets : Picked(t) \subseteq Symbols
  BY DEF TypeInv, Picked
<1>2. AllPicked \subseteq Symbols
  BY <1>1 DEF AllPicked
<1>3. ASSUME NEW i \in DOMAIN StrategyList PROVE Offered(i) \subseteq Symbols
  <2>1. Strategy(i) \in Targets /\ "_all" \in Targets
    BY DEF Strategy, Targets, Strategies
  <2> QED  BY <1>1, <2>1 DEF Offered
<1> QED  BY <1>2, <1>3

\* The dictionary of run_all() asks for symbols, on one of the two sides.
LEMMA DictionariesAreAsks == \A asks \in Dictionaries : asks \subseteq Asks
  BY DEF Dictionaries, Asks

\* Indices of the two lists, one past the end included.
LEMMA StepsOfLists ==
  /\ Len(ScannerList) \in Nat /\ Len(StrategyList) \in Nat
  /\ \A i \in Scanners : i \in 1 .. Len(ScannerList)
  /\ \A i \in DOMAIN StrategyList : i \in 1 .. Len(StrategyList)
  BY ListsAssumption DEF Scanners

LEMMA StagesAre ==
  /\ \A i \in 1 .. Len(ScannerList) + 1 : <<"scan", i>> \in Stages
  /\ \A i \in 1 .. Len(StrategyList) + 1 : <<"strategy", i>> \in Stages
  /\ \A i \in DOMAIN StrategyList : <<"call", i>> \in Stages
  /\ <<"done", 0>> \in Stages /\ <<"aborted", 0>> \in Stages
  /\ \A g \in Stages : g[1] = "call" => g[2] \in 1 .. Len(StrategyList)
  BY StepsOfLists DEF Stages

\* How far an operation moves a position, and how its row counts, are numbers; they
\* are the same, or opposite if the quantity is negative.
LEMMA MovesAreNumbers ==
  ASSUME NEW side \in Sides, NEW qty \in AskedQty
  PROVE  /\ Moved(side, qty) \in Int /\ Counted(side, qty) \in Int
         /\ Moved(side, qty) = IF qty < 0 THEN -Counted(side, qty) ELSE Counted(side, qty)
<1>1. qty \in Int /\ (side = "buy" \/ side = "sell")
  BY QuantityAssumption DEF Sides
<1>2. CASE side = "buy"
  BY <1>1, <1>2 DEF Moved, Sign, Counted
<1>3. CASE side = "sell"
  BY <1>1, <1>3 DEF Moved, Sign, Counted
<1> QED  BY <1>1, <1>2, <1>3

LEMMA TypeInit == Init => TypeInv
<1> SUFFICES ASSUME Init PROVE TypeInv
  OBVIOUS
<1>1. 1 \in 1 .. NumDays /\ 0 \in 0 .. Ticks /\ 0 < Ticks /\ 0 \in 0 .. NumDays
  BY CalendarAssumption
<1>2. stage \in Stages
  <2>1. 1 \in 1 .. Len(ScannerList) + 1
    BY StepsOfLists
  <2> QED  BY <2>1, StagesAre DEF Init
<1>3. DOMAIN positions = {} /\ 0 \in 0 .. MaxTrades
  BY BoundAssumption DEF Init
<1> QED  BY <1>1, <1>2, <1>3 DEF Init, TypeInv, TypeOK

LEMMA TypeStep == TypeInv /\ [Next]_vars => TypeInv'
<1> SUFFICES ASSUME TypeInv, [Next]_vars PROVE TypeInv'
  OBVIOUS
<1> USE CalendarAssumption
<1>1. ASSUME NEW i \in Scanners, NEW picks \in SUBSET Symbols, RunScanner(i, picks)
      PROVE  TypeInv'
  <2>1. lastRun' \in [Scanners -> Nat \cup {None}]
    BY <1>1, NowIsToday DEF RunScanner, TypeInv, TypeOK
  <2>2. symbols' \in [Targets -> {None} \cup SUBSET Symbols]
    BY <1>1 DEF RunScanner, TypeInv
  <2>3. stage' = <<"scan", i + 1>> /\ i + 1 \in 1 .. Len(ScannerList) + 1
        /\ pending' = {}
    <3>1. stage' = <<"scan", i + 1>> /\ stage[1] # "call" /\ pending' = pending
      BY <1>1 DEF RunScanner
    <3>2. pending = {}
      BY <3>1 DEF TypeInv, TypeOK
    <3>3. i \in 1 .. Len(ScannerList) /\ Len(ScannerList) \in Nat
      BY StepsOfLists
    <3>4. i + 1 \in 1 .. Len(ScannerList) + 1
      BY <3>3
    <3> QED  BY <3>1, <3>2, <3>4
  <2>4. stage' \in Stages /\ stage'[1] # "call"
    BY <2>3, StagesAre
  <2> QED  BY <1>1, <2>1, <2>2, <2>3, <2>4 DEF RunScanner, TypeInv, TypeOK, clock, books, ledger
<1>2. ASSUME NEW i \in Scanners, SkipScanner(i) PROVE TypeInv'
  <2>1. stage' = <<"scan", i + 1>> /\ i + 1 \in 1 .. Len(ScannerList) + 1
        /\ pending' = {}
    BY <1>2, StepsOfLists DEF SkipScanner, TypeInv, TypeOK
  <2>2. stage' \in Stages /\ stage'[1] # "call"
    BY <2>1, StagesAre
  <2> QED  BY <1>2, <2>1, <2>2 DEF SkipScanner, TypeInv, TypeOK, clock, books, ledger
<1>3. ASSUME NEW i \in Scanners, ScannerFails(i) PROVE TypeInv'
  BY <1>3, NowIsToday, StagesAre DEF ScannerFails, TypeInv, TypeOK, clock, books, ledger
<1>4. CASE Prefetch
  <2>1. DOMAIN positions' \subseteq Symbols
        /\ \A s \in DOMAIN positions' : positions'[s] \in Int
    BY <1>4 DEF Prefetch, TypeInv, TypeOK
  <2>2. loaded' \in [Symbols -> 0 .. NumDays] /\ prefetched' \subseteq Symbols
    <3>1. /\ loaded' = [s \in Symbols |-> IF s \in AllPicked \ prefetched THEN day
                                         ELSE loaded[s]]
          /\ prefetched' = prefetched \cup AllPicked
      BY <1>4 DEF Prefetch
    <3>2. /\ day \in 0 .. NumDays /\ loaded \in [Symbols -> 0 .. NumDays]
          /\ prefetched \subseteq Symbols
      BY DEF TypeInv, TypeOK
    <3>3. AllPicked \subseteq Symbols
      BY PicksAreSymbols
    <3> QED  BY <3>1, <3>2, <3>3
  <2>3. stage' = <<"strategy", 1>> /\ 1 \in 1 .. Len(StrategyList) + 1
        /\ pending' = {}
    BY <1>4, StepsOfLists DEF Prefetch, TypeInv, TypeOK
  <2>4. stage' \in Stages /\ stage'[1] # "call"
    BY <2>3, StagesAre
  <2> QED  BY <1>4, <2>1, <2>2, <2>3, <2>4 DEF Prefetch, TypeInv, TypeOK, clock, ledger
<1>5. CASE PrefetchFails
  BY <1>5, StagesAre DEF PrefetchFails, TypeInv, TypeOK, clock, books, ledger
<1>6. ASSUME NEW i \in DOMAIN StrategyList,
             \/ CallBySymbol(i) \/ RunAllFails(i)
             \/ \E asks \in Dictionaries : CallRunAll(i, asks)
      PROVE  TypeInv'
  <2>1. positions' = WithPicks(i) /\ Offered(i) \subseteq Symbols
    BY <1>6, PicksAreSymbols DEF CallRunAll, CallBySymbol, RunAllFails
  <2>2. DOMAIN positions' \subseteq Symbols
        /\ \A s \in DOMAIN positions' : positions'[s] \in Int
    BY <2>1 DEF WithPicks, Position, TypeInv, TypeOK
  <2>3. pending' \subseteq Asks /\ (stage'[1] # "call" => pending' = {})
    BY <1>6, <2>1, DictionariesAreAsks
    DEF CallRunAll, CallBySymbol, RunAllFails, TypeInv, TypeOK, Asks
  <2>4. stage' \in Stages
    BY <1>6, StagesAre DEF CallRunAll, CallBySymbol, RunAllFails
  <2> QED  BY <1>6, <2>2, <2>3, <2>4
           DEF CallRunAll, CallBySymbol, RunAllFails, TypeInv, TypeOK, clock, ledger
<1>7. CASE RunFails
  BY <1>7, StagesAre DEF RunFails, TypeInv, TypeOK, clock, books, ledger
<1>8. ASSUME NEW a \in pending, NotExecuted(a) PROVE TypeInv'
  BY <1>8, StagesAre DEF NotExecuted, TypeInv, TypeOK, clock, books, ledger
<1>9. ASSUME NEW a \in pending, NEW side \in Sides, NEW qty \in AskedQty,
             Executed(a, side, qty) \/ SaveFails(a, side, qty)
      PROVE  TypeInv'
  <2>1. Operate(a, side, qty)
    BY <1>9 DEF Executed, SaveFails
  <2>2. a.symbol \in Symbols
    BY DEF TypeInv, TypeOK, Asks
  <2>3. DOMAIN positions' \subseteq Symbols
        /\ \A s \in DOMAIN positions' : positions'[s] \in Int
    <3>1. \A s \in DOMAIN positions : s \in Symbols /\ positions[s] \in Int
      BY DEF TypeInv, TypeOK
    <3>2. Position(a.symbol) + Moved(side, qty) \in Int
      BY <3>1, MovesAreNumbers DEF Position
    <3>3. positions' = [s \in DOMAIN positions \cup {a.symbol} |->
                         IF s = a.symbol THEN Position(s) + Moved(side, qty)
                                         ELSE positions[s]]
      BY <2>1 DEF Operate
    <3> QED  BY <2>2, <3>1, <3>2, <3>3
  <2>4. /\ recorded' \in [Symbols -> Int] /\ reversed' \in [Symbols -> Int]
        /\ unsaved' \in [Symbols -> Int]
    <3>1. /\ recorded \in [Symbols -> Int] /\ reversed \in [Symbols -> Int]
          /\ unsaved \in [Symbols -> Int]
      BY DEF TypeInv, TypeOK
    <3>2. Moved(side, qty) \in Int /\ Counted(side, qty) \in Int
      BY MovesAreNumbers
    <3> QED  BY <1>9, <2>2, <3>1, <3>2 DEF Executed, SaveFails, Add
  <2>5. trades' \in 0 .. MaxTrades
    BY <2>1, BoundAssumption DEF Operate, TypeInv, TypeOK
  <2>6. pending' \subseteq Asks /\ (stage'[1] # "call" => pending' = {})
        /\ stage' \in Stages
    BY <1>9, <2>1, StagesAre DEF Executed, SaveFails, Operate, TypeInv, TypeOK
  <2> QED  BY <2>1, <2>3, <2>4, <2>5, <2>6 DEF Operate, TypeInv, TypeOK, clock
<1>10. CASE EndCall
  <2>1. stage[2] \in 1 .. Len(StrategyList)
    BY <1>10, StagesAre DEF EndCall, TypeInv, TypeOK
  <2>2. stage' = <<"strategy", stage[2] + 1>> /\ stage[2] + 1 \in 1 .. Len(StrategyList) + 1
    BY <1>10, <2>1, StepsOfLists DEF EndCall
  <2>3. stage' \in Stages /\ stage'[1] # "call"
    BY <2>2, StagesAre
  <2> QED  BY <1>10, <2>3 DEF EndCall, TypeInv, TypeOK, clock, books, ledger
<1>11. CASE NextTick
  <2>1. <<"scan", 1>> \in Stages /\ pending' = {}
    BY <1>11, StagesAre, StepsOfLists DEF NextTick, AllCalled, TypeInv, TypeOK
  <2>2. tick' \in 0 .. Ticks /\ tick' < Ticks
    BY <1>11 DEF NextTick, TypeInv, TypeOK
  <2> QED  BY <1>11, <2>1, <2>2 DEF NextTick, TypeInv, TypeOK, books, ledger
<1>12. CASE NextDay
  <2>1. <<"scan", 1>> \in Stages /\ pending' = {}
    BY <1>12, StagesAre, StepsOfLists DEF NextDay, AllCalled, TypeInv, TypeOK
  <2>2. tick' \in 0 .. Ticks /\ tick' < Ticks /\ day' \in 1 .. NumDays
    BY <1>12 DEF NextDay, TypeInv, TypeOK
  <2> QED  BY <1>12, <2>1, <2>2 DEF NextDay, TypeInv, TypeOK, books, ledger
<1>13. CASE Done
  BY <1>13, StagesAre DEF Done, AllCalled, TypeInv, TypeOK, clock, books, ledger
<1>14. CASE UNCHANGED vars
  BY <1>14 DEF vars, TypeInv, TypeOK
<1>15. CASE Scan
  BY <1>1, <1>2, <1>3, <1>15 DEF Scan
<1>16. CASE Call
  BY <1>6, <1>16 DEF Call
<1>17. CASE Execute
  BY <1>8, <1>9, <1>17 DEF Execute
<1> QED
  BY <1>4, <1>5, <1>7, <1>10, <1>11, <1>12, <1>13, <1>14, <1>15, <1>16, <1>17
  DEF Next

\* Every state of a replay is well typed.
THEOREM BacktestTypeCorrect == Spec => []TypeOK
<1>1. TypeInv => TypeOK
  BY DEF TypeInv
<1> QED  BY <1>1, TypeInit, TypeStep, PTL DEF Spec

(***************************************************************************)
(* Positions.                                                               *)
(***************************************************************************)

\* The keys that are added before a strategy is called change no position.
LEMMA PicksKeepPositions ==
  ASSUME NEW i, positions' = WithPicks(i), NEW s
  PROVE  Position(s)' = Position(s)
  BY DEF WithPicks, Position

\* What is forgotten before the strategies are called was closed.
LEMMA PrefetchKeepsPositions ==
  ASSUME Prefetch, NEW s
  PROVE  Position(s)' = Position(s)
  BY DEF Prefetch, Position

\* What was executed changes with the tables only.
LEMMA HeldKept ==
  ASSUME UNCHANGED <<recorded, reversed, unsaved>>, NEW s
  PROVE  Held(s)' = Held(s)
  BY DEF Held

\* An operation adds to what is held as much as it moves the position, whether its
\* row is stored, stored with a negative quantity, or lost.
LEMMA OperationsAdd ==
  ASSUME TypeInv, NEW a \in pending, NEW side \in Sides, NEW qty \in AskedQty,
         Executed(a, side, qty) \/ SaveFails(a, side, qty), NEW s \in Symbols
  PROVE  /\ s = a.symbol => Held(s)' = Held(s) + Moved(side, qty)
         /\ s # a.symbol => Held(s)' = Held(s)
<1>1. /\ recorded \in [Symbols -> Int] /\ reversed \in [Symbols -> Int]
      /\ unsaved \in [Symbols -> Int] /\ a.symbol \in Symbols /\ qty \in Int
  BY QuantityAssumption DEF TypeInv, TypeOK, Asks
<1>2. /\ Moved(side, qty) \in Int /\ Counted(side, qty) \in Int
      /\ Moved(side, qty) = IF qty < 0 THEN -Counted(side, qty) ELSE Counted(side, qty)
  BY MovesAreNumbers
<1>3. CASE Executed(a, side, qty)
  <2>1. /\ recorded' = [recorded EXCEPT ![a.symbol] = @ + Counted(side, qty)]
        /\ reversed' = IF qty < 0
                       THEN [reversed EXCEPT ![a.symbol] = @ + Counted(side, qty)]
                       ELSE reversed
        /\ unsaved' = unsaved
    BY <1>3 DEF Executed, Add
  <2>2. CASE s = a.symbol
    <3>1. /\ recorded'[s] = recorded[s] + Counted(side, qty) /\ unsaved'[s] = unsaved[s]
          /\ reversed'[s] = reversed[s] + (IF qty < 0 THEN Counted(side, qty) ELSE 0)
      BY <1>1, <1>2, <2>1, <2>2
    <3>2. recorded[s] \in Int /\ reversed[s] \in Int /\ unsaved[s] \in Int
      BY <1>1
    <3> QED  BY <1>1, <1>2, <2>2, <3>1, <3>2 DEF Held
  <2>3. CASE s # a.symbol
    BY <1>1, <2>1, <2>3 DEF Held
  <2> QED  BY <2>2, <2>3
<1>4. CASE SaveFails(a, side, qty)
  <2>1. /\ unsaved' = [unsaved EXCEPT ![a.symbol] = @ + Moved(side, qty)]
        /\ recorded' = recorded /\ reversed' = reversed
    BY <1>4 DEF SaveFails, Add
  <2>2. recorded[s] \in Int /\ reversed[s] \in Int /\ unsaved[s] \in Int
    BY <1>1
  <2> QED  BY <1>1, <1>2, <2>1, <2>2 DEF Held
<1> QED  BY <1>3, <1>4

PositionsInv == TypeInv /\ PositionsAreTrades

LEMMA PositionsStep == PositionsInv /\ [Next]_vars => PositionsInv'
<1> SUFFICES ASSUME PositionsInv, [Next]_vars PROVE PositionsAreTrades'
  BY TypeStep DEF PositionsInv
<1> SUFFICES ASSUME NEW s \in Symbols PROVE Position(s)' = Held(s)'
  BY DEF PositionsAreTrades
<1>1. Position(s) = Held(s)
  BY DEF PositionsInv, PositionsAreTrades
<1>2. CASE UNCHANGED <<positions, recorded, reversed, unsaved>>
  BY <1>1, <1>2, HeldKept DEF Position
<1>3. CASE Scan
  BY <1>2, <1>3 DEF Scan, RunScanner, SkipScanner, ScannerFails, books, ledger
<1>4. CASE Prefetch
  BY <1>1, <1>4, HeldKept, PrefetchKeepsPositions DEF Prefetch, ledger
<1>5. ASSUME NEW i \in DOMAIN StrategyList,
             \/ CallBySymbol(i) \/ RunAllFails(i)
             \/ \E asks \in Dictionaries : CallRunAll(i, asks)
      PROVE  Position(s)' = Held(s)'
  <2>1. positions' = WithPicks(i) /\ UNCHANGED <<recorded, reversed, unsaved>>
    BY <1>5 DEF CallBySymbol, RunAllFails, CallRunAll, ledger
  <2> QED  BY <1>1, <2>1, HeldKept, PicksKeepPositions
<1>6. ASSUME NEW a \in pending, NEW side \in Sides, NEW qty \in AskedQty,
             Executed(a, side, qty) \/ SaveFails(a, side, qty)
      PROVE  Position(s)' = Held(s)'
  <2>1. positions' = [r \in DOMAIN positions \cup {a.symbol} |->
                       IF r = a.symbol THEN Position(r) + Moved(side, qty)
                                       ELSE positions[r]]
    BY <1>6 DEF Executed, SaveFails, Operate
  <2>2. Position(s)' = IF s = a.symbol THEN Position(s) + Moved(side, qty)
                                       ELSE Position(s)
    BY <2>1 DEF Position
  <2>3. /\ s = a.symbol => Held(s)' = Held(s) + Moved(side, qty)
        /\ s # a.symbol => Held(s)' = Held(s)
    BY <1>6, OperationsAdd DEF PositionsInv
  <2> QED  BY <1>1, <2>2, <2>3
<1>7. ASSUME NEW a \in pending, NotExecuted(a) PROVE Position(s)' = Held(s)'
  BY <1>2, <1>7 DEF NotExecuted, books, ledger
<1>8. CASE PrefetchFails \/ RunFails \/ EndCall
  BY <1>2, <1>8 DEF PrefetchFails, RunFails, EndCall, books, ledger
<1>9. CASE NextTick \/ NextDay \/ Done
  BY <1>2, <1>9 DEF NextTick, NextDay, Done, books, ledger
<1>10. CASE UNCHANGED vars
  BY <1>2, <1>10 DEF vars
<1> QED
  BY <1>3, <1>4, <1>5, <1>6, <1>7, <1>8, <1>9, <1>10 DEF Next, Call, Execute

LEMMA PositionsInit == Init => PositionsInv
<1>1. ASSUME Init PROVE PositionsAreTrades
  <2>1. DOMAIN positions = {}
    BY <1>1 DEF Init
  <2>2. ASSUME NEW s \in Symbols PROVE Position(s) = Held(s)
    <3>1. recorded[s] = 0 /\ reversed[s] = 0 /\ unsaved[s] = 0
      BY <1>1 DEF Init
    <3>2. Position(s) = 0
      BY <2>1 DEF Position
    <3> QED  BY <3>1, <3>2 DEF Held
  <2> QED  BY <2>2 DEF PositionsAreTrades
<1> QED  BY <1>1, TypeInit DEF PositionsInv

\* Theorem: at every moment, after a failure too, a position is what the rows of the
\* batch add up to, a row of a negative quantity counted with the opposite sign, and
\* what operations moved whose row was lost; for any quantities (do_strategy_result
\* of enhanced_backtest.py).
THEOREM PositionsAreTradesAlways == Spec => []PositionsAreTrades
<1>1. PositionsInv => PositionsAreTrades
  BY DEF PositionsInv
<1> QED  BY <1>1, PositionsInit, PositionsStep, PTL DEF Spec

\* run_all() is shown every symbol in which something is held.
THEOREM RunAllSeesHoldingsAlways == Spec => RunAllSeesHoldings
<1>1. ASSUME PositionsInv, NEW i \in DOMAIN StrategyList, NEW asks \in Dictionaries,
             CallRunAll(i, asks), NEW s \in Symbols, Held(s) # 0
      PROVE  s \in DOMAIN shown' /\ shown'[s] = Held(s)
  <2>1. Position(s) = Held(s)
    BY <1>1 DEF PositionsInv, PositionsAreTrades
  <2>2. s \in DOMAIN positions' /\ positions'[s] = Held(s)
    BY <1>1, <2>1 DEF Position, CallRunAll, WithPicks
  <2> QED  BY <1>1, <2>2 DEF CallRunAll, SymbolsPosition
<1>2. PositionsInv =>
        [\A i \in DOMAIN StrategyList, asks \in Dictionaries :
           CallRunAll(i, asks) =>
             \A s \in Symbols :
               Held(s) # 0 => s \in DOMAIN shown' /\ shown'[s] = Held(s)]_vars
  BY <1>1
<1> QED
  BY <1>2, PositionsInit, PositionsStep, PTL DEF Spec, RunAllSeesHoldings

(***************************************************************************)
(* Scanners.  While they are gone through, those before the current one ran   *)
(* recently enough; once they were, all did, until the clock moves.           *)
(***************************************************************************)
Fresh(i) ==
  /\ lastRun[i] # None
  /\ IF ScannerList[i].recurrence = 0 THEN DayOf(lastRun[i]) = day
     ELSE Now - lastRun[i] < ScannerList[i].recurrence

FreshSoFar ==
  \A i \in Scanners :
    \/ stage[1] = "scan" /\ i < stage[2]
    \/ stage[1] \in {"strategy", "call"}
    => Fresh(i)

ScannersInv == TypeInv /\ FreshSoFar

\* The recurrence of a scanner is a number, and so is when it ran.
LEMMA ScannerNumbers ==
  ASSUME TypeInv, NEW i \in Scanners
  PROVE  /\ ScannerList[i].recurrence \in Nat
         /\ lastRun[i] # None => lastRun[i] \in Nat
<1>1. ScannerList[i] \in [recurrence : Nat, target : Targets]
  BY ListsAssumption, ElementOfSeq, StepsOfLists DEF Scanners
<1> QED  BY <1>1 DEF TypeInv, TypeOK

\* A scanner that runs now is fresh, and it is due only when it was not.
LEMMA RunsFresh ==
  ASSUME TypeInv, NEW i \in Scanners, Due(i), UNCHANGED clock,
         lastRun' = [lastRun EXCEPT ![i] = Now]
  PROVE  /\ Fresh(i)'
         /\ lastRun[i] # None =>
              IF ScannerList[i].recurrence = 0
                THEN DayOf(lastRun'[i]) # DayOf(lastRun[i])
                ELSE lastRun'[i] - lastRun[i] >= ScannerList[i].recurrence
<1>1. lastRun'[i] = Now /\ Now' = Now /\ day' = day
  BY DEF TypeInv, TypeOK, clock, Now
<1>2. Now \in Nat /\ DayOf(Now) = day /\ Now # None
  BY NowIsToday, NoneAssumption
<1>3. Fresh(i)'
  BY <1>1, <1>2, ScannerNumbers DEF Fresh, DayOf
<1> QED  BY <1>1, <1>2, <1>3 DEF Due, DayOf

LEMMA FreshKept ==
  ASSUME NEW i \in Scanners, Fresh(i), UNCHANGED clock, lastRun'[i] = lastRun[i]
  PROVE  Fresh(i)'
  BY DEF Fresh, Now, DayOf, clock

LEMMA ScannersStep == ScannersInv /\ [Next]_vars => ScannersInv'
<1> SUFFICES ASSUME ScannersInv, [Next]_vars PROVE FreshSoFar'
  BY TypeStep DEF ScannersInv
<1> SUFFICES ASSUME NEW j \in Scanners,
                    \/ stage'[1] = "scan" /\ j < stage'[2]
                    \/ stage'[1] \in {"strategy", "call"}
             PROVE  Fresh(j)'
  BY DEF FreshSoFar
<1> USE DEF ScannersInv
<1>1. CASE /\ UNCHANGED <<clock, lastRun>>
           /\ \/ stage[1] = "scan" /\ j < stage[2]
              \/ stage[1] \in {"strategy", "call"}
  BY <1>1, FreshKept DEF FreshSoFar
<1>2. ASSUME NEW i \in Scanners, NEW picks \in SUBSET Symbols, RunScanner(i, picks)
      PROVE  Fresh(j)'
  <2>1. CASE i = j
    BY <1>2, <2>1, RunsFresh DEF RunScanner
  <2>2. CASE i # j
    <3>1. stage = <<"scan", i>> /\ j < i + 1 /\ i \in Nat /\ j \in Nat
      BY <1>2, StepsOfLists DEF RunScanner
    <3>2. Fresh(j) /\ lastRun'[j] = lastRun[j] /\ UNCHANGED clock
      BY <1>2, <2>2, <3>1 DEF RunScanner, FreshSoFar, TypeInv, TypeOK
    <3> QED  BY <3>2, FreshKept
  <2> QED  BY <2>1, <2>2
<1>3. ASSUME NEW i \in Scanners, SkipScanner(i) PROVE Fresh(j)'
  <2>1. stage = <<"scan", i>> /\ j < i + 1 /\ i \in Nat /\ j \in Nat
        /\ UNCHANGED <<clock, lastRun>>
    BY <1>3, StepsOfLists DEF SkipScanner
  <2>2. CASE j = i
    <3>1. Fresh(i)
      <4>1. lastRun[i] \in Nat /\ lastRun[i] # None /\ Now \in Nat
        BY <1>3, ScannerNumbers, NowIsToday DEF SkipScanner, Due
      <4> QED  BY <1>3, <4>1, ScannerNumbers DEF SkipScanner, Due, Fresh
    <3> QED  BY <2>1, <2>2, <3>1, FreshKept
  <2> QED  BY <1>1, <2>1, <2>2
<1>4. ASSUME NEW i \in Scanners, ScannerFails(i) PROVE FALSE
  BY <1>4 DEF ScannerFails
<1>5. CASE Prefetch
  <2>1. stage[1] = "scan" /\ j < stage[2] /\ UNCHANGED <<clock, lastRun>>
    BY <1>5, StepsOfLists DEF Prefetch
  <2> QED  BY <1>1, <2>1
<1>6. CASE PrefetchFails \/ RunFails
  BY <1>6 DEF PrefetchFails, RunFails
<1>7. CASE Call
  BY <1>1, <1>7 DEF Call, CallBySymbol, CallRunAll, RunAllFails
<1>8. CASE Execute
  BY <1>1, <1>8 DEF Execute, NotExecuted, Executed, SaveFails, Operate
<1>9. CASE EndCall
  BY <1>1, <1>9 DEF EndCall
<1>10. CASE NextTick \/ NextDay \/ Done
  BY <1>10, StepsOfLists DEF NextTick, NextDay, Done
<1>11. CASE UNCHANGED vars
  BY <1>1, <1>11 DEF vars, clock
<1> QED
  BY <1>2, <1>3, <1>4, <1>5, <1>6, <1>7, <1>8, <1>9, <1>10, <1>11 DEF Next, Scan

LEMMA ScannersInit == Init => ScannersInv
<1>1. Init => FreshSoFar
  BY StepsOfLists DEF Init, FreshSoFar
<1> QED  BY <1>1, TypeInit DEF ScannersInv

\* What one step does: the strategies' turn begins with every scanner fresh.
LEMMA StrategiesAfterScanners ==
  ASSUME ScannersInv, Next, stage'[1] = "strategy", NEW i \in Scanners
  PROVE  Fresh(i)
<1> USE DEF ScannersInv
<1>1. Prefetch \/ EndCall
  <2>1. ~Scan /\ ~PrefetchFails
    BY DEF Scan, RunScanner, SkipScanner, ScannerFails, PrefetchFails
  <2>2. ~Call /\ ~RunFails
    BY DEF Call, CallBySymbol, CallRunAll, RunAllFails, RunFails
  <2>3. ~Execute
    <3>1. ASSUME NEW a \in pending, NEW side \in Sides, NEW qty \in AskedQty
          PROVE  ~Executed(a, side, qty) /\ ~SaveFails(a, side, qty)
      BY DEF Executed, SaveFails, Operate
    <3>2. ASSUME NEW a \in pending, NotExecuted(a) PROVE FALSE
      BY <3>2 DEF NotExecuted
    <3> SUFFICES ASSUME Execute PROVE FALSE
      OBVIOUS
    <3> QED  BY <3>1, <3>2 DEF Execute
  <2>4. ~NextTick /\ ~NextDay /\ ~Done
    BY DEF NextTick, NextDay, Done
  <2> QED  BY <2>1, <2>2, <2>3, <2>4 DEF Next
<1>2. CASE Prefetch
  BY <1>2, StepsOfLists DEF Prefetch, FreshSoFar
<1>3. CASE EndCall
  BY <1>3 DEF EndCall, FreshSoFar
<1> QED  BY <1>1, <1>2, <1>3

\* And a scanner that runs again was due.
LEMMA RunsWhenDue ==
  ASSUME TypeInv, Next, NEW i \in Scanners, lastRun[i] # None,
         lastRun'[i] # lastRun[i]
  PROVE  IF ScannerList[i].recurrence = 0
           THEN DayOf(lastRun'[i]) # DayOf(lastRun[i])
           ELSE lastRun'[i] - lastRun[i] >= ScannerList[i].recurrence
<1>1. Scan
  BY DEF Next, Prefetch, PrefetchFails, Call, CallBySymbol, CallRunAll, RunAllFails,
         RunFails, Execute, NotExecuted, Executed, SaveFails, Operate, EndCall, NextTick,
         NextDay, Done
<1>2. PICK j \in Scanners : Due(j) /\ UNCHANGED clock
                             /\ lastRun' = [lastRun EXCEPT ![j] = Now]
  BY <1>1 DEF Scan, RunScanner, SkipScanner, ScannerFails
<1>3. j = i
  BY <1>2 DEF TypeInv, TypeOK
<1> QED  BY <1>2, <1>3, RunsFresh

\* Scanners run before the strategies of a tick, as often as they are to.
THEOREM ScannersOnTimeAlways == Spec => ScannersOnTime
<1>1. ASSUME ScannersInv, Next
      PROVE  /\ stage'[1] = "strategy" =>
                  \A i \in Scanners :
                    lastRun[i] # None /\
                      IF ScannerList[i].recurrence = 0
                        THEN DayOf(lastRun[i]) = day
                        ELSE Now - lastRun[i] < ScannerList[i].recurrence
             /\ \A i \in Scanners :
                  lastRun[i] # None /\ lastRun'[i] # lastRun[i] =>
                    IF ScannerList[i].recurrence = 0
                      THEN DayOf(lastRun'[i]) # DayOf(lastRun[i])
                      ELSE lastRun'[i] - lastRun[i] >= ScannerList[i].recurrence
  <2>1. ASSUME stage'[1] = "strategy", NEW i \in Scanners PROVE Fresh(i)
    BY <1>1, <2>1, StrategiesAfterScanners
  <2> QED  BY <1>1, <2>1, RunsWhenDue DEF Fresh, ScannersInv
<1>2. ScannersInv /\ [Next]_vars =>
        [/\ stage'[1] = "strategy" =>
               \A i \in Scanners :
                 lastRun[i] # None /\
                   IF ScannerList[i].recurrence = 0 THEN DayOf(lastRun[i]) = day
                   ELSE Now - lastRun[i] < ScannerList[i].recurrence
         /\ \A i \in Scanners :
               lastRun[i] # None /\ lastRun'[i] # lastRun[i] =>
                 IF ScannerList[i].recurrence = 0
                   THEN DayOf(lastRun'[i]) # DayOf(lastRun[i])
                   ELSE lastRun'[i] - lastRun[i]
                          >= ScannerList[i].recurrence]_vars
  BY <1>1
<1> QED  BY <1>2, ScannersInit, ScannersStep, PTL DEF Spec, ScannersOnTime

-----------------------------------------------------------------------------
(* The candles' patterns exclude one another whatever the prices are: the run *)
(* checks it up to a few cents.                                             *)

\* Every candle has its open and close between its low and its high.
THEOREM CandlesAreCandles == Pattern!Spec => [](candle \in Pattern!Candles)
<1>1. Pattern!Init => candle \in Pattern!Candles
  BY DEF Pattern!Init
<1>2. candle \in Pattern!Candles /\ [Pattern!Next]_candle => (candle \in Pattern!Candles)'
  BY DEF Pattern!Next, Pattern!Minute
<1> QED  BY <1>1, <1>2, PTL DEF Pattern!Spec

\* What the shadows of a candle add up to, with its body.
LEMMA Parts ==
  ASSUME NEW c \in Pattern!Candles
  PROVE  /\ c.open \in Int /\ c.high \in Int /\ c.low \in Int /\ c.close \in Int
         /\ Pattern!Body(c) \in Int /\ Pattern!Body(c) >= 0
         /\ Pattern!UpperShadow(c) \in Int /\ Pattern!UpperShadow(c) >= 0
         /\ Pattern!LowerShadow(c) \in Int /\ Pattern!LowerShadow(c) >= 0
         /\ Pattern!Shadow(c) = Pattern!UpperShadow(c) + Pattern!LowerShadow(c)
  BY PatternAssumption
  DEF Pattern!ConstantsAssumption, Pattern!Candles, Pattern!Prices, Pattern!Body,
      Pattern!UpperShadow, Pattern!LowerShadow, Pattern!Shadow, Pattern!Upper, Pattern!Lower

\* A bullish candle's body outweighs its shadows, and is more than two cents.
LEMMA BullishBody ==
  ASSUME NEW c \in Pattern!Candles, Pattern!BullishCandle(c)
  PROVE  /\ Pattern!Body(c) > 2 /\ Pattern!Body(c) * 10 > Pattern!Shadow(c) * 12
         /\ c.close > c.open
<1>1. c.close > c.open /\ Pattern!Body(c) = c.close - c.open
  BY Parts DEF Pattern!BullishCandle, Pattern!Body, Pattern!Upper, Pattern!Lower
<1>2. Pattern!UpperShadow(c) = c.high - c.close /\ Pattern!LowerShadow(c) = c.open - c.low
  BY <1>1, Parts DEF Pattern!UpperShadow, Pattern!LowerShadow, Pattern!Upper, Pattern!Lower
<1> QED  BY <1>1, <1>2, Parts DEF Pattern!BullishCandle

\* A candle without a body opens where it closes.
LEMMA NoBody ==
  ASSUME NEW c \in Pattern!Candles
  PROVE  Pattern!Body(c) < 1 <=> c.open = c.close
  BY Parts DEF Pattern!Body, Pattern!Upper, Pattern!Lower

\* No candle is a turn and a trend, or two turns.
LEMMA ExclusiveCandle ==
  ASSUME NEW c \in Pattern!Candles
  PROVE  Pattern!Exclusive(c)
<1>1. ~(Pattern!BullishCandle(c) /\ (Pattern!BearishCandle(c) \/ Pattern!SpinningTop(c)
          \/ Pattern!GravestoneDoji(c) \/ Pattern!DragonflyCandle(c)))
  <2>1. ASSUME Pattern!BullishCandle(c) PROVE ~Pattern!BearishCandle(c)
    BY <2>1, BullishBody, Parts DEF Pattern!BearishCandle
  <2>2. ASSUME Pattern!BullishCandle(c)
        PROVE  ~Pattern!SpinningTop(c) /\ ~Pattern!GravestoneDoji(c) /\ ~Pattern!DragonflyCandle(c)
    BY <2>2, BullishBody, Parts DEF Pattern!SpinningTop, Pattern!GravestoneDoji, Pattern!DragonflyCandle
  <2> QED  BY <2>1, <2>2
<1>2. ~(Pattern!BearishCandle(c) /\ (Pattern!Doji(c) \/ Pattern!DragonflyCandle(c)))
  BY NoBody, Parts DEF Pattern!BearishCandle, Pattern!Doji, Pattern!DragonflyCandle
<1>3. ~(Pattern!GravestoneDoji(c) /\ (Pattern!SpinningTop(c) \/ Pattern!DragonflyCandle(c)))
  BY Parts DEF Pattern!GravestoneDoji, Pattern!SpinningTop, Pattern!DragonflyCandle
<1>4. ~(Pattern!DragonflyCandle(c) /\ Pattern!SpinningTop(c))
  BY Parts DEF Pattern!DragonflyCandle, Pattern!SpinningTop
<1>5. ~(Pattern!FourPriceDoji(c) /\ (Pattern!Doji(c) \/ Pattern!SpinningTop(c)
          \/ Pattern!GravestoneDoji(c) \/ Pattern!DragonflyCandle(c)))
  <2>1. ASSUME Pattern!FourPriceDoji(c)
        PROVE  Pattern!UpperShadow(c) = 0 /\ Pattern!LowerShadow(c) = 0
    <3>1. Pattern!Upper(c) = c.high /\ Pattern!Lower(c) = c.low
      BY <2>1 DEF Pattern!FourPriceDoji, Pattern!Upper, Pattern!Lower
    <3> QED  BY <3>1, Parts DEF Pattern!UpperShadow, Pattern!LowerShadow
  <2>2. ASSUME Pattern!FourPriceDoji(c) PROVE ~Pattern!Doji(c)
    BY <2>2, Parts DEF Pattern!FourPriceDoji, Pattern!Doji
  <2> QED  BY <2>1, <2>2, Parts DEF Pattern!SpinningTop, Pattern!GravestoneDoji, Pattern!DragonflyCandle
<1> QED  BY <1>1, <1>2, <1>3, <1>4, <1>5 DEF Pattern!Exclusive

\* What follows in the next minute continues the turn.
LEMMA FollowUps ==
  ASSUME NEW c \in Pattern!Candles, NEW d \in Pattern!Candles
  PROVE  Pattern!Continued(c, d)
<1>1. Pattern!BullishFollowedByDragonfly(c, d) => d.close > c.close
  BY Parts, NoBody DEF Pattern!BullishFollowedByDragonfly, Pattern!DragonflyCandle
<1>2. Pattern!SpinningTopBearishFollowup(c, d) => Pattern!BearishCandle(d)
  BY Parts DEF Pattern!SpinningTopBearishFollowup, Pattern!BearishCandle,
      Pattern!Body, Pattern!Upper, Pattern!Lower
<1> QED  BY <1>1, <1>2 DEF Pattern!Continued

\* A candle and the next one have no patterns that contradict one another
\* (candle_patterns.py), for all prices.
THEOREM PatternsExcludeAlways ==
  Pattern!Spec => PatternsExclude
<1>1. candle \in Pattern!Candles /\ (candle \in Pattern!Candles)' =>
        Pattern!Exclusive(candle) /\ Pattern!Continued(candle, candle')
  BY ExclusiveCandle, FollowUps
<1>2. Pattern!Spec => [](candle \in Pattern!Candles)
  BY CandlesAreCandles
<1> QED  BY <1>1, <1>2, PTL DEF PatternsExclude, Pattern!PatternsExclude

-----------------------------------------------------------------------------
(* Least numbers, and numbers in order.                                      *)

\* The natural numbers are well ordered.
LEMMA Least ==
  ASSUME NEW S \in SUBSET Nat, S # {}
  PROVE  \E x \in S : \A y \in S : x <= y
<1>1. PICK x \in S : \A y \in S : ~(<<y, x>> \in OpToRel(<, Nat))
  BY NatLessThanWellFounded, WFMin, Zenon
<1>2. ASSUME NEW y \in S PROVE x <= y
  <2>1. ~(y < x)
    BY <1>1 DEF OpToRel
  <2> QED  BY <2>1
<1> QED  BY <1>2

\* The element of rank k.
HasRank(S, t, k) == t \in S /\ Cardinality({u \in S : u <= t}) = k
Ranked(S) == \A k \in 1 .. Cardinality(S) : \E t \in S : HasRank(S, t, k)

\* Of n numbers each rank from 1 to n is taken.
LEMMA AllRanked ==
  ASSUME NEW n \in Nat, NEW S \in SUBSET (0 .. n)
  PROVE  IsFiniteSet(S) /\ Cardinality(S) \in Nat /\ Ranked(S)
<1> DEFINE Bad == {m \in Nat : ~\A T \in SUBSET (0 .. m - 1) :
                                 IsFiniteSet(T) /\ Cardinality(T) \in Nat /\ Ranked(T)}
<1>1. SUFFICES ASSUME Bad # {} PROVE FALSE
  <2> SUFFICES ASSUME Bad = {}
               PROVE  IsFiniteSet(S) /\ Cardinality(S) \in Nat /\ Ranked(S)
    OBVIOUS
  <2>1. n + 1 \notin Bad /\ n + 1 \in Nat
    OBVIOUS
  <2>2. 0 .. (n + 1) - 1 = 0 .. n
    OBVIOUS
  <2> QED  BY <2>1, <2>2
<1>2. PICK m \in Bad : \A j \in Bad : m <= j
  BY <1>1, Least
<1>3. PICK T \in SUBSET (0 .. m - 1) : ~(IsFiniteSet(T) /\ Cardinality(T) \in Nat /\ Ranked(T))
  OBVIOUS
<1>4. m # 0
  <2> SUFFICES ASSUME m = 0 PROVE FALSE
    OBVIOUS
  <2>1. T = {}
    OBVIOUS
  <2>2. IsFiniteSet(T) /\ Cardinality(T) = 0
    BY <2>1, FS_EmptySet
  <2> QED  BY <1>3, <2>2 DEF Ranked
<1>5. /\ m - 1 \in Nat
      /\ \A R \in SUBSET (0 .. (m - 1) - 1) :
           IsFiniteSet(R) /\ Cardinality(R) \in Nat /\ Ranked(R)
  <2>1. m \in Nat /\ \A j \in Bad : m <= j
    BY <1>2
  <2> HIDE DEF Bad
  <2>2. m - 1 \in Nat /\ m - 1 \notin Bad
    BY <1>4, <2>1
  <2> QED  BY <2>2 DEF Bad
<1>6. CASE m - 1 \notin T
  <2>1. T \in SUBSET (0 .. (m - 1) - 1)
    BY <1>6
  <2> QED  BY <1>3, <1>5, <2>1
<1>7. CASE m - 1 \in T
  <2> DEFINE R == T \ {m - 1}
  <2>1. R \in SUBSET (0 .. (m - 1) - 1)
    OBVIOUS
  <2>2. IsFiniteSet(R) /\ Cardinality(R) \in Nat /\ Ranked(R)
    BY <1>5, <2>1
  <2>3. T = R \cup {m - 1} /\ m - 1 \notin R /\ T \in SUBSET Nat
    BY <1>7
  <2> HIDE DEF R
  <2>4. IsFiniteSet(T) /\ Cardinality(T) = Cardinality(R) + 1
    BY <2>2, <2>3, FS_AddElement
  <2>5. ASSUME NEW k \in 1 .. Cardinality(T) PROVE \E t \in T : HasRank(T, t, k)
    <3>1. CASE k = Cardinality(T)
      <4>1. \A u \in T : u <= m - 1
        OBVIOUS
      <4>2. {u \in T : u <= m - 1} = T
        BY <4>1
      <4> QED  BY <1>7, <3>1, <4>2 DEF HasRank
    <3>2. CASE k # Cardinality(T)
      <4>1. k \in 1 .. Cardinality(R)
        BY <2>2, <2>4, <3>2
      <4>2. PICK t \in R : HasRank(R, t, k)
        BY <2>2, <4>1 DEF Ranked
      <4>3. t \in 0 .. (m - 1) - 1
        BY <2>1
      <4>4. {u \in T : u <= t} = {u \in R : u <= t}
        BY <2>3, <4>3
      <4> QED  BY <2>3, <4>2, <4>4 DEF HasRank
    <3> QED  BY <3>1, <3>2
  <2> QED  BY <1>3, <2>2, <2>4, <2>5 DEF Ranked
<1> QED  BY <1>6, <1>7

-----------------------------------------------------------------------------
(* Charts: what is aggregated, and bins that are joined.                     *)

\* A set of numbers with a least and a greatest one.
Bounded(S) ==
  /\ \A x \in S : x \in Int
  /\ \E x \in S : \A y \in S : x <= y
  /\ \E x \in S : \A y \in S : x >= y

LEMMA Extremes ==
  ASSUME NEW S, Bounded(S)
  PROVE  /\ Chart!Min(S) \in S /\ \A y \in S : Chart!Min(S) <= y
         /\ Chart!Max(S) \in S /\ \A y \in S : Chart!Max(S) >= y
  BY DEF Bounded, Chart!Min, Chart!Max

\* The extremes are the only such numbers.
LEMMA ExtremeIs ==
  ASSUME NEW S, Bounded(S), NEW x \in S
  PROVE  /\ (\A y \in S : x <= y) => Chart!Min(S) = x
         /\ (\A y \in S : x >= y) => Chart!Max(S) = x
<1>1. x \in Int /\ Chart!Min(S) \in Int /\ Chart!Max(S) \in Int
  BY Extremes DEF Bounded
<1>2. Chart!Min(S) <= x /\ Chart!Max(S) >= x
  BY Extremes
<1>3. /\ (\A y \in S : x <= y) => x <= Chart!Min(S)
      /\ (\A y \in S : x >= y) => x >= Chart!Max(S)
  BY Extremes
<1> QED  BY <1>1, <1>2, <1>3

\* Of the values at some places one is the least.
LEMMA LeastOf ==
  ASSUME NEW n \in Nat, NEW f, NEW M \in SUBSET (1 .. n), M # {}, \A i \in M : f[i] \in Int
  PROVE  \E i \in M : \A j \in M : f[i] <= f[j]
<1> DEFINE Has(m) == \A K \in SUBSET (1 .. m) :
                       K # {} /\ (\A i \in K : f[i] \in Int)
                         => \E i \in K : \A j \in K : f[i] <= f[j]
           Bad == {m \in Nat : ~Has(m)}
<1>1. SUFFICES ASSUME Bad # {} PROVE FALSE
  <2> SUFFICES ASSUME Bad = {} PROVE \E i \in M : \A j \in M : f[i] <= f[j]
    OBVIOUS
  <2>1. Has(n)
    <3> HIDE DEF Has
    <3> QED  OBVIOUS
  <2> QED  BY <2>1
<1>2. PICK m \in Bad : \A k \in Bad : m <= k
  <2> HIDE DEF Has
  <2>1. Bad \in SUBSET Nat
    OBVIOUS
  <2> HIDE DEF Bad
  <2> QED  BY <1>1, <2>1, Least
<1>3. m # 0
  <2>1. Has(0)
    <3>1. 1 .. 0 = {}
      OBVIOUS
    <3> QED  BY <3>1
  <2> HIDE DEF Has
  <2> QED  BY <2>1
<1>4. m \in Nat /\ m - 1 \in Nat /\ Has(m - 1)
  <2> HIDE DEF Has
  <2> QED  BY <1>2, <1>3
<1>5. ASSUME NEW K \in SUBSET (1 .. m), K # {}, \A i \in K : f[i] \in Int
      PROVE  \E i \in K : \A j \in K : f[i] <= f[j]
  <2> DEFINE R == K \ {m}
  <2>1. R \in SUBSET (1 .. (m - 1)) /\ \A i \in R : f[i] \in Int
    BY <1>4, <1>5
  <2>2. CASE R = {}
    <3>1. K = {m}
      BY <1>5, <2>2
    <3> QED  BY <1>5, <3>1
  <2>3. CASE R # {}
    <3>1. PICK i \in R : \A j \in R : f[i] <= f[j]
      BY <1>4, <2>1, <2>3
    <3>2. CASE m \notin K \/ f[i] <= f[m]
      BY <3>1, <3>2
    <3>3. CASE m \in K /\ ~(f[i] <= f[m])
      <4>1. \A j \in R : f[m] <= f[j]
        BY <1>5, <3>1, <3>3
      <4>2. f[m] <= f[m]
        BY <1>5, <3>3
      <4> QED  BY <3>3, <4>1, <4>2
    <3> QED  BY <3>2, <3>3
  <2> QED  BY <2>2, <2>3
<1>6. Has(m)
  BY <1>5
<1> HIDE DEF Has
<1> QED  BY <1>2, <1>6

LEMMA GreatestOf ==
  ASSUME NEW n \in Nat, NEW f, NEW M \in SUBSET (1 .. n), M # {}, \A i \in M : f[i] \in Int
  PROVE  \E i \in M : \A j \in M : f[i] >= f[j]
<1> DEFINE g == [i \in M |-> -f[i]]
<1>1. \A i \in M : g[i] \in Int
  OBVIOUS
<1> HIDE DEF g
<1>2. PICK i \in M : \A j \in M : g[i] <= g[j]
  BY <1>1, LeastOf
<1>3. ASSUME NEW j \in M PROVE f[i] >= f[j]
  <2>1. -f[i] <= -f[j] /\ f[i] \in Int /\ f[j] \in Int
    BY <1>2 DEF g
  <2> QED  BY <2>1
<1> QED  BY <1>3

\* Places, and the values at places, have extremes.
LEMMA ValuesBounded ==
  ASSUME NEW n \in Nat, NEW f, NEW M \in SUBSET (1 .. n), M # {}, \A i \in M : f[i] \in Int
  PROVE  Bounded({f[i] : i \in M})
<1>1. PICK i \in M : \A j \in M : f[i] <= f[j]
  BY LeastOf
<1>2. PICK k \in M : \A j \in M : f[k] >= f[j]
  BY GreatestOf
<1> QED  BY <1>1, <1>2 DEF Bounded

LEMMA PlacesBounded ==
  ASSUME NEW n \in Nat, NEW M \in SUBSET (1 .. n), M # {}
  PROVE  Bounded(M)
<1> DEFINE f == [i \in M |-> i]
<1>1. \A i \in M : f[i] = i /\ i \in Int
  OBVIOUS
<1>2. {f[i] : i \in M} = M
  BY <1>1
<1> HIDE DEF f
<1>3. Bounded({f[i] : i \in M})
  BY <1>1, ValuesBounded
<1> QED  BY <1>2, <1>3

-----------------------------------------------------------------------------
(* A bin of twice the length is the join of its halves.                      *)

Rows == [at : Nat, price : BarPrices]

\* The bars are in order.
ChartInv ==
  /\ bars \in Seq(Rows)
  /\ \A j, k \in 1 .. Len(bars) : j < k => bars[j].at < bars[k].at

LEMMA ChartNumbers ==
  /\ \A p \in BarPrices : p \in Int
  /\ BinLength \in Nat \ {0} /\ 2 * BinLength \in Nat \ {0}
  /\ \A gap \in Gaps : gap \in Nat \ {0}
  /\ Window \in Nat \ {0}
  BY ChartAssumption DEF Chart!ConstantsAssumption

LEMMA ChartStep == ChartInv /\ [Chart!Next]_bars => ChartInv'
<1> SUFFICES ASSUME ChartInv, [Chart!Next]_bars PROVE ChartInv'
  OBVIOUS
<1>1. CASE UNCHANGED bars
  BY <1>1 DEF ChartInv
<1>2. ASSUME NEW gap \in Gaps, NEW price \in BarPrices, Chart!Bar(gap, price) PROVE ChartInv'
  <2> DEFINE at == IF bars = <<>> THEN gap ELSE Chart!Last(bars).at + gap
             n == Len(bars)
  <2>1. bars \in Seq(Rows) /\ n \in Nat /\ \A k \in 1 .. n : bars[k].at \in Nat
    <3>1. bars \in Seq(Rows)
      BY DEF ChartInv
    <3>2. \A k \in 1 .. n : bars[k] \in Rows
      BY <3>1
    <3> QED  BY <3>1, <3>2 DEF Rows
  <2>2. gap \in Nat \ {0}
    BY ChartNumbers
  <2>3. bars # <<>> => n \in 1 .. n /\ Chart!Last(bars) = bars[n]
    BY <2>1, EmptySeq DEF Chart!Last
  <2>4. at \in Nat /\ \A k \in 1 .. n : bars[k].at < at
    <3>1. CASE bars = <<>>
      BY <2>1, <2>2, <3>1
    <3>2. CASE bars # <<>>
      <4>1. at = bars[n].at + gap /\ bars[n].at \in Nat
        BY <2>1, <2>3, <3>2
      <4>2. \A k \in 1 .. n : bars[k].at <= bars[n].at
        BY <2>1, <2>3, <3>2 DEF ChartInv
      <4> HIDE DEF at
      <4> QED  BY <2>1, <2>2, <4>1, <4>2
    <3> QED  BY <3>1, <3>2
  <2> HIDE DEF at
  <2>5. [at |-> at, price |-> price] \in Rows
    BY <2>4 DEF Rows
  <2>6. bars' = Append(bars, [at |-> at, price |-> price])
    BY <1>2 DEF Chart!Bar, at
  <2>7. /\ bars' \in Seq(Rows) /\ Len(bars') = n + 1
        /\ \A k \in 1 .. n : bars'[k] = bars[k]
        /\ bars'[n + 1] = [at |-> at, price |-> price]
    BY <2>1, <2>5, <2>6, AppendProperties
  <2>8. ASSUME NEW j \in 1 .. n + 1, NEW k \in 1 .. n + 1, j < k
        PROVE  bars'[j].at < bars'[k].at
    <3>1. j \in 1 .. n /\ (k \in 1 .. n \/ k = n + 1)
      BY <2>1, <2>8
    <3>2. CASE k \in 1 .. n
      BY <2>7, <2>8, <3>1, <3>2 DEF ChartInv
    <3>3. CASE k = n + 1
      BY <2>4, <2>7, <3>1, <3>3
    <3> QED  BY <3>1, <3>2, <3>3
  <2> QED  BY <2>7, <2>8 DEF ChartInv
<1> QED  BY <1>1, <1>2 DEF Chart!Next

LEMMA ChartInitially == Chart!Init => ChartInv
<1> SUFFICES ASSUME bars = <<>> PROVE ChartInv
  BY DEF Chart!Init
<1>1. <<>> \in Seq(Rows) /\ Len(<<>>) = 0
  OBVIOUS
<1> QED  BY <1>1 DEF ChartInv

\* The prices of some rows have extremes.
LEMMA PricesBounded ==
  ASSUME NEW rows \in Seq(Rows), NEW M \in SUBSET (1 .. Len(rows)), M # {}
  PROVE  Bounded({rows[i].price : i \in M}) /\ {rows[i].price : i \in M} \subseteq BarPrices
<1> DEFINE f == [i \in M |-> rows[i].price]
<1>1. Len(rows) \in Nat /\ \A i \in M : rows[i].price \in BarPrices /\ f[i] = rows[i].price
  <2>1. \A i \in M : rows[i] \in Rows
    OBVIOUS
  <2> QED  BY <2>1 DEF Rows
<1>2. \A i \in M : f[i] \in Int
  BY <1>1, ChartNumbers
<1>3. {f[i] : i \in M} = {rows[i].price : i \in M}
  BY <1>1
<1> HIDE DEF f
<1>4. Bounded({f[i] : i \in M})
  BY <1>1, <1>2, ValuesBounded
<1> QED  BY <1>1, <1>3, <1>4

\* The volume of a bin counts its rows.
LEMMA PlacesCounted ==
  ASSUME NEW n \in Nat, NEW M \in SUBSET (1 .. n)
  PROVE  /\ IsFiniteSet(M) /\ Chart!Cardinality(M) = Cardinality(M) /\ Cardinality(M) \in Nat
         /\ Cardinality(M) = 0 <=> M = {}
<1>1. Chart!Cardinality(M) = Cardinality(M)
  BY DEF Chart!Cardinality, Cardinality
<1>2. \A k \in Nat : IsFiniteSet(1 .. k)
  BY FS_Interval
<1>3. IsFiniteSet(M)
  BY <1>2, FS_Subset
<1> QED  BY <1>1, <1>3, FS_CardinalityType, FS_EmptySet

\* Rows that come after one another are aggregated as the two parts are joined.
LEMMA JoinedIs ==
  ASSUME NEW rows \in Seq(Rows),
         NEW A \in SUBSET (1 .. Len(rows)), NEW B \in SUBSET (1 .. Len(rows)),
         \A a \in A, b \in B : a < b
  PROVE  Chart!Aggregated(rows, A \cup B)
           = Chart!Joined(Chart!Aggregated(rows, A), Chart!Aggregated(rows, B))
<1> DEFINE n == Len(rows)
           C == A \cup B
           a == Chart!Aggregated(rows, A)
           b == Chart!Aggregated(rows, B)
           P(M) == {rows[i].price : i \in M}
<1>1. n \in Nat /\ C \in SUBSET (1 .. n)
  OBVIOUS
<1>2. \A M \in SUBSET (1 .. n) : M # {} =>
        Chart!Aggregated(rows, M) =
          [open |-> rows[Chart!Min(M)].price, high |-> Chart!Max(P(M)),
           low |-> Chart!Min(P(M)), close |-> rows[Chart!Max(M)].price,
           volume |-> Chart!Cardinality(M)]
  BY DEF Chart!Aggregated
<1>3. Chart!Aggregated(rows, {}).volume = 0
  BY DEF Chart!Aggregated
<1>4. \A M \in SUBSET (1 .. n) :
        /\ IsFiniteSet(M) /\ Chart!Cardinality(M) = Cardinality(M) /\ Cardinality(M) \in Nat
        /\ Cardinality(M) = 0 <=> M = {}
  BY <1>1, PlacesCounted
<1>5. \A M \in SUBSET (1 .. n) : M # {} => Chart!Aggregated(rows, M).volume # 0
  <2> SUFFICES ASSUME NEW M \in SUBSET (1 .. n), M # {}
               PROVE  Chart!Aggregated(rows, M).volume # 0
    OBVIOUS
  <2>1. Chart!Aggregated(rows, M).volume = Chart!Cardinality(M)
    BY DEF Chart!Aggregated
  <2> QED  BY <1>4, <2>1
<1>6. CASE A = {}
  <2>1. C = B /\ a.volume = 0
    BY <1>3, <1>6
  <2> QED  BY <2>1 DEF Chart!Joined
<1>7. CASE A # {} /\ B = {}
  <2>1. C = A /\ a.volume # 0 /\ b.volume = 0
    BY <1>3, <1>5, <1>7
  <2> QED  BY <2>1 DEF Chart!Joined
<1>8. CASE A # {} /\ B # {}
  <2>1. \A M \in {A, B, C} : M \in SUBSET (1 .. n) /\ M # {} /\ Bounded(M) /\ Bounded(P(M))
    <3> SUFFICES ASSUME NEW M \in SUBSET (1 .. n), M # {} PROVE Bounded(M) /\ Bounded(P(M))
      BY <1>1, <1>8
    <3> QED  BY <1>1, PlacesBounded, PricesBounded
  <2>2. Bounded(A) /\ Bounded(B) /\ Bounded(C) /\ Bounded(P(A)) /\ Bounded(P(B)) /\ Bounded(P(C))
    BY <2>1
  <2> DEFINE x == Chart!Max(P(A))
             y == Chart!Max(P(B))
             u == Chart!Min(P(A))
             v == Chart!Min(P(B))
  <2>3. P(C) = P(A) \cup P(B)
    OBVIOUS
  <2> HIDE DEF P
  <2>4. Chart!Min(C) = Chart!Min(A)
    <3>1. /\ Chart!Min(A) \in C /\ Chart!Min(A) \in Int
          /\ \A z \in C : z \in Int
      BY <2>2, Extremes DEF Bounded
    <3>2. \A z \in C : Chart!Min(A) <= z
      BY <2>2, <3>1, Extremes
    <3> HIDE DEF C
    <3> QED  BY <2>2, <3>1, <3>2, ExtremeIs
  <2>5. Chart!Max(C) = Chart!Max(B)
    <3>1. /\ Chart!Max(B) \in C /\ Chart!Max(B) \in Int
          /\ \A z \in C : z \in Int
      BY <2>2, Extremes DEF Bounded
    <3>2. \A z \in C : Chart!Max(B) >= z
      BY <2>2, <3>1, Extremes
    <3> HIDE DEF C
    <3> QED  BY <2>2, <3>1, <3>2, ExtremeIs
  <2>6. /\ x \in P(A) /\ y \in P(B) /\ u \in P(A) /\ v \in P(B)
        /\ x \in Int /\ y \in Int /\ u \in Int /\ v \in Int
        /\ \A z \in P(A) : z \in Int /\ x >= z /\ u <= z
        /\ \A z \in P(B) : z \in Int /\ y >= z /\ v <= z
    BY <2>2, Extremes DEF Bounded
  <2> HIDE DEF x, y, u, v
  <2>7. \A s, t \in Int : Bounded({s, t})
    BY DEF Bounded
  <2>8. Chart!Max(P(C)) = Chart!Max({x, y})
    <3> DEFINE m == Chart!Max({x, y})
    <3>1. m \in {x, y} /\ m >= x /\ m >= y
      BY <2>6, <2>7, Extremes
    <3> HIDE DEF m
    <3>2. m \in P(C) /\ \A z \in P(C) : m >= z
      <4>1. \A z \in P(A) : m >= z
        BY <2>6, <3>1
      <4>2. \A z \in P(B) : m >= z
        BY <2>6, <3>1
      <4> QED  BY <2>3, <2>6, <3>1, <4>1, <4>2
    <3> QED  BY <2>2, <3>2, ExtremeIs DEF m
  <2>9. Chart!Min(P(C)) = Chart!Min({u, v})
    <3> DEFINE m == Chart!Min({u, v})
    <3>1. m \in {u, v} /\ m <= u /\ m <= v
      BY <2>6, <2>7, Extremes
    <3> HIDE DEF m
    <3>2. m \in P(C) /\ \A z \in P(C) : m <= z
      <4>1. \A z \in P(A) : m <= z
        BY <2>6, <3>1
      <4>2. \A z \in P(B) : m <= z
        BY <2>6, <3>1
      <4> QED  BY <2>3, <2>6, <3>1, <4>1, <4>2
    <3> QED  BY <2>2, <3>2, ExtremeIs DEF m
  <2>10. Chart!Cardinality(C) = Chart!Cardinality(A) + Chart!Cardinality(B)
    <3>1. A \cap B = {}
      <4> SUFFICES ASSUME NEW z \in A, z \in B PROVE FALSE
        OBVIOUS
      <4>1. z < z /\ z \in Int
        OBVIOUS
      <4> QED  BY <4>1
    <3>2. Cardinality(A \cap B) = 0
      BY <3>1, FS_EmptySet
    <3>3. Cardinality(C) = Cardinality(A) + Cardinality(B) - Cardinality(A \cap B)
      BY <1>4, FS_Union
    <3>4. Chart!Cardinality(A) = Cardinality(A) /\ Chart!Cardinality(B) = Cardinality(B)
          /\ Chart!Cardinality(C) = Cardinality(C)
          /\ Cardinality(A) \in Nat /\ Cardinality(B) \in Nat
      BY <1>1, <1>4
    <3> QED  BY <3>2, <3>3, <3>4
  <2>11. a.volume # 0 /\ b.volume # 0
    BY <1>5, <1>8
  <2>12. /\ a = [open |-> rows[Chart!Min(A)].price, high |-> x,
                 low |-> u, close |-> rows[Chart!Max(A)].price,
                 volume |-> Chart!Cardinality(A)]
         /\ b = [open |-> rows[Chart!Min(B)].price, high |-> y,
                 low |-> v, close |-> rows[Chart!Max(B)].price,
                 volume |-> Chart!Cardinality(B)]
         /\ Chart!Aggregated(rows, C) =
              [open |-> rows[Chart!Min(C)].price, high |-> Chart!Max(P(C)),
               low |-> Chart!Min(P(C)), close |-> rows[Chart!Max(C)].price,
               volume |-> Chart!Cardinality(C)]
    BY <1>1, <1>2, <1>8 DEF x, y, u, v
  <2>13. Chart!Joined(a, b) =
           [open |-> a.open, high |-> Chart!Max({a.high, b.high}),
            low |-> Chart!Min({a.low, b.low}), close |-> b.close,
            volume |-> a.volume + b.volume]
    BY <2>11 DEF Chart!Joined
  <2> HIDE DEF a, b, C
  <2>14. Chart!Aggregated(rows, C) = Chart!Joined(a, b)
    BY <2>4, <2>5, <2>8, <2>9, <2>10, <2>12, <2>13
  <2> QED  BY <2>14 DEF a, b, C
<1> QED  BY <1>6, <1>7, <1>8

-----------------------------------------------------------------------------
LEMMA Quotient ==
  ASSUME NEW k \in Nat \ {0}, NEW x \in Nat
  PROVE  /\ x \div k \in Nat
         /\ k * (x \div k) <= x /\ x < k * (x \div k) + k
  OBVIOUS

LEMMA QuotientGrows ==
  ASSUME NEW k \in Nat \ {0}, NEW x \in Nat, NEW y \in Nat, x <= y
  PROVE  x \div k <= y \div k
<1> DEFINE p == x \div k
           q == y \div k
<1>1. /\ p \in Nat /\ k * p <= x
      /\ q \in Nat /\ y < k * q + k
  BY Quotient
<1> HIDE DEF p, q
<1>2. SUFFICES ASSUME q + 1 <= p PROVE FALSE
  BY <1>1 DEF p, q
<1>3. k * (q + 1) <= k * p /\ k * (q + 1) = k * q + k
  BY <1>1, <1>2
<1> QED  BY <1>1, <1>3

\* A bin of twice the length has the minutes of two bins.
LEMMA HalvesOf ==
  ASSUME NEW k \in Nat \ {0}, NEW x \in Nat
  PROVE  LET q == x \div k
             h == x \div (2 * k)
         IN q = 2 * h \/ q = 2 * h + 1
<1> DEFINE q == x \div k
           h == x \div (2 * k)
<1>1. /\ q \in Nat /\ k * q <= x /\ x < k * q + k
      /\ h \in Nat /\ (2 * k) * h <= x /\ x < (2 * k) * h + 2 * k
  <2>1. q \in Nat /\ k * q <= x /\ x < k * q + k
    BY Quotient
  <2> DEFINE c == 2 * k
  <2>2. c \in Nat \ {0}
    OBVIOUS
  <2> HIDE DEF c
  <2>3. x \div c \in Nat /\ c * (x \div c) <= x /\ x < c * (x \div c) + c
    BY <2>2, Quotient
  <2> QED  BY <2>1, <2>3 DEF c
<1> HIDE DEF q, h
<1>2. (2 * k) * h = k * (2 * h) /\ k * (2 * h) + 2 * k = k * (2 * h + 2)
  BY <1>1
<1>3. ~(q + 1 <= 2 * h)
  <2> SUFFICES ASSUME q + 1 <= 2 * h PROVE FALSE
    OBVIOUS
  <2>1. k * (q + 1) <= k * (2 * h) /\ k * (q + 1) = k * q + k
    BY <1>1
  <2> QED  BY <1>1, <1>2, <2>1
<1>4. ~(2 * h + 2 <= q)
  <2> SUFFICES ASSUME 2 * h + 2 <= q PROVE FALSE
    OBVIOUS
  <2>1. k * (2 * h + 2) <= k * q
    BY <1>1
  <2> QED  BY <1>1, <1>2, <2>1
<1>5. q = 2 * h \/ q = 2 * h + 1
  BY <1>1, <1>3, <1>4
<1> QED  BY <1>5 DEF q, h

\* The bars, their number and their moments; the first and the last of them.
LEMMA BarsAre ==
  ASSUME ChartInv
  PROVE  /\ bars \in Seq(Rows) /\ Len(bars) \in Nat /\ DOMAIN bars = 1 .. Len(bars)
         /\ \A i \in 1 .. Len(bars) : bars[i].at \in Nat /\ bars[i].price \in BarPrices
         /\ bars # <<>> =>
              /\ 1 \in 1 .. Len(bars) /\ Len(bars) \in 1 .. Len(bars)
              /\ Chart!Last(bars) = bars[Len(bars)]
              /\ \A i \in 1 .. Len(bars) :
                   bars[1].at <= bars[i].at /\ bars[i].at <= bars[Len(bars)].at
<1>1. bars \in Seq(Rows) /\ Len(bars) \in Nat /\ DOMAIN bars = 1 .. Len(bars)
  BY DEF ChartInv
<1>2. \A i \in 1 .. Len(bars) : bars[i] \in Rows
  BY <1>1
<1>3. \A i \in 1 .. Len(bars) : bars[i].at \in Nat /\ bars[i].price \in BarPrices
  BY <1>2 DEF Rows
<1>4. CASE bars # <<>>
  <2>1. 1 \in 1 .. Len(bars) /\ Len(bars) \in 1 .. Len(bars)
    <3>1. Len(bars) # 0
      BY <1>1, <1>4, EmptySeq
    <3> QED  BY <1>1, <3>1
  <2>2. \A i \in 1 .. Len(bars) : 1 < i \/ i = 1
    OBVIOUS
  <2>3. \A i \in 1 .. Len(bars) : i < Len(bars) \/ i = Len(bars)
    <3>1. \A n \in Nat : \A i \in 1 .. n : i < n \/ i = n
      OBVIOUS
    <3> QED  BY <1>1, <3>1
  <2>4. \A i \in 1 .. Len(bars) :
          bars[1].at <= bars[i].at /\ bars[i].at <= bars[Len(bars)].at
    BY <1>3, <2>1, <2>2, <2>3 DEF ChartInv
  <2> QED  BY <1>1, <1>3, <2>1, <2>4 DEF Chart!Last
<1> QED  BY <1>1, <1>3, <1>4

\* The bin of every number is what the rows of that range are aggregated to; a
\* bin that is none of the list would have no row.
LEMMA BinsAre ==
  ASSUME ChartInv, bars # <<>>, NEW len \in Nat \ {0}
  PROVE  LET bins == Chart!Resample(bars, len)
             In(j) == Chart!InBin(bars, j, len)
         IN /\ DOMAIN bins = bars[1].at \div len .. bars[Len(bars)].at \div len
            /\ \A j \in DOMAIN bins : bins[j] = Chart!Aggregated(bars, In(j))
            /\ \A j \in Int : In(j) # {} => j \in DOMAIN bins
            /\ \A j : In(j) \in SUBSET (1 .. Len(bars))
<1> DEFINE In(j) == Chart!InBin(bars, j, len)
           a == bars[1].at \div len
           z == bars[Len(bars)].at \div len
<1>1. /\ Len(bars) \in Nat /\ DOMAIN bars = 1 .. Len(bars)
      /\ \A i \in 1 .. Len(bars) : bars[i].at \in Nat
      /\ 1 \in 1 .. Len(bars) /\ Len(bars) \in 1 .. Len(bars)
      /\ Chart!Last(bars) = bars[Len(bars)]
      /\ \A i \in 1 .. Len(bars) :
           bars[1].at <= bars[i].at /\ bars[i].at <= bars[Len(bars)].at
  BY BarsAre
<1>2. Chart!Resample(bars, len) = [j \in a .. z |-> Chart!Aggregated(bars, In(j))]
  BY <1>1 DEF Chart!Resample
<1>3. \A j : In(j) = {i \in 1 .. Len(bars) : bars[i].at \div len = j}
  BY <1>1 DEF Chart!InBin
<1>4. a \in Nat /\ z \in Nat
  BY <1>1, Quotient
<1>5. ASSUME NEW j \in Int, In(j) # {} PROVE j \in a .. z
  <2> HIDE DEF In
  <2>1. PICK i \in 1 .. Len(bars) : bars[i].at \div len = j
    BY <1>3, <1>5
  <2>2. a <= bars[i].at \div len /\ bars[i].at \div len <= z
    BY <1>1, QuotientGrows
  <2> HIDE DEF a, z
  <2> QED  BY <1>4, <2>1, <2>2
<1> HIDE DEF In, a, z
<1>6. \A j : In(j) \in SUBSET (1 .. Len(bars))
  BY <1>3
<1> QED  BY <1>2, <1>5, <1>6 DEF In, a, z

\* A bin of twice the length has the open of its first half with one, the close
\* of its last, their extremes and their volume (fincalcs.resample).
LEMMA Composed == ChartInv => Chart!ResampleComposes
<1> SUFFICES ASSUME ChartInv PROVE Chart!ResampleComposes
  OBVIOUS
<1> DEFINE L == BinLength
           halves == Chart!Resample(bars, L)
           whole == Chart!Resample(bars, 2 * L)
           Half(k) == IF k \in DOMAIN halves THEN halves[k] ELSE Chart!Aggregated(bars, {})
           In(j) == Chart!InBin(bars, j, L)
           InWhole(k) == Chart!InBin(bars, k, 2 * L)
<1>1. CASE bars = <<>>
  <2>1. whole = <<>>
    BY <1>1 DEF Chart!Resample
  <2>2. DOMAIN whole = {}
    BY <2>1
  <2> QED  BY <2>2 DEF Chart!ResampleComposes
<1>2. CASE bars # <<>>
  <2>1. L \in Nat \ {0} /\ 2 * L \in Nat \ {0}
    BY ChartNumbers
  <2>2. /\ bars \in Seq(Rows) /\ Len(bars) \in Nat /\ DOMAIN bars = 1 .. Len(bars)
        /\ \A i \in 1 .. Len(bars) : bars[i].at \in Nat
    BY BarsAre
  <2>3. /\ \A j \in DOMAIN halves : halves[j] = Chart!Aggregated(bars, In(j))
        /\ \A j \in Int : In(j) # {} => j \in DOMAIN halves
        /\ \A j : In(j) \in SUBSET (1 .. Len(bars))
    BY <1>2, <2>1, BinsAre
  <2>4. /\ \A k \in DOMAIN whole : whole[k] = Chart!Aggregated(bars, InWhole(k))
        /\ DOMAIN whole \in SUBSET Int
    <3> DEFINE M == 2 * L
    <3>1. M \in Nat \ {0}
      BY <2>1
    <3> HIDE DEF M
    <3>2. /\ DOMAIN Chart!Resample(bars, M) = bars[1].at \div M .. bars[Len(bars)].at \div M
          /\ \A k \in DOMAIN Chart!Resample(bars, M) :
               Chart!Resample(bars, M)[k] = Chart!Aggregated(bars, Chart!InBin(bars, k, M))
      BY <1>2, <3>1, BinsAre
    <3>3. DOMAIN Chart!Resample(bars, M) \in SUBSET Int
      BY <3>2
    <3> QED  BY <3>2, <3>3 DEF M
  <2>5. \A j : In(j) = {i \in 1 .. Len(bars) : bars[i].at \div L = j}
    BY <2>2 DEF Chart!InBin
  <2>6. \A k : InWhole(k) = {i \in 1 .. Len(bars) : bars[i].at \div (2 * L) = k}
    BY <2>2 DEF Chart!InBin
  <2>7. \A i \in 1 .. Len(bars) :
          \/ bars[i].at \div L = 2 * (bars[i].at \div (2 * L))
          \/ bars[i].at \div L = 2 * (bars[i].at \div (2 * L)) + 1
    BY <2>1, <2>2, HalvesOf
  <2>8. \A j \in Int : Half(j) = Chart!Aggregated(bars, In(j))
    <3> HIDE DEF halves, In
    <3> QED  BY <2>3
  <2> HIDE DEF Half, In, InWhole, whole, halves
  <2>9. \A i \in 1 .. Len(bars) : bars[i].at \div L \in Int /\ bars[i].at \div (2 * L) \in Int
    BY <2>1, <2>2
  <2>10. \A k \in Int : InWhole(k) = In(2 * k) \cup In(2 * k + 1)
    <3> TAKE k \in Int
    <3>1. ASSUME NEW i \in 1 .. Len(bars)
          PROVE  bars[i].at \div (2 * L) = k
                   <=> bars[i].at \div L = 2 * k \/ bars[i].at \div L = 2 * k + 1
      <4> DEFINE q == bars[i].at \div L
                 h == bars[i].at \div (2 * L)
      <4>1. q \in Int /\ h \in Int /\ (q = 2 * h \/ q = 2 * h + 1)
        BY <2>7, <2>9
      <4> HIDE DEF q, h
      <4>2. h = k <=> q = 2 * k \/ q = 2 * k + 1
        BY <4>1
      <4> QED  BY <4>2 DEF q, h
    <3> QED  BY <2>5, <2>6, <3>1
  <2>11. ASSUME NEW k \in Int, NEW i \in In(2 * k), NEW j \in In(2 * k + 1)
         PROVE  i < j
    <3>1. i \in 1 .. Len(bars) /\ j \in 1 .. Len(bars)
          /\ bars[i].at \div L = 2 * k /\ bars[j].at \div L = 2 * k + 1
      BY <2>5
    <3>2. SUFFICES ASSUME j <= i PROVE FALSE
      BY <3>1
    <3>3. bars[j].at <= bars[i].at /\ bars[j].at \in Nat /\ bars[i].at \in Nat
      <4>1. j < i \/ j = i
        BY <3>1, <3>2
      <4> QED  BY <2>2, <3>1, <4>1 DEF ChartInv
    <3>4. bars[j].at \div L <= bars[i].at \div L
      BY <2>1, <3>3, QuotientGrows
    <3>5. 2 * k + 1 <= 2 * k
      BY <3>1, <3>4
    <3> QED  BY <3>5
  <2>12. ASSUME NEW k \in DOMAIN whole
         PROVE  whole[k] = Chart!Joined(Half(2 * k), Half(2 * k + 1))
    <3> DEFINE A == In(2 * k)
               B == In(2 * k + 1)
    <3>1. k \in Int /\ 2 * k \in Int /\ 2 * k + 1 \in Int
      BY <2>4
    <3>2. whole[k] = Chart!Aggregated(bars, A \cup B)
      BY <2>4, <2>10, <3>1
    <3>3. Half(2 * k) = Chart!Aggregated(bars, A) /\ Half(2 * k + 1) = Chart!Aggregated(bars, B)
      BY <2>8, <3>1
    <3>4. A \in SUBSET (1 .. Len(bars)) /\ B \in SUBSET (1 .. Len(bars))
          /\ \A i \in A, j \in B : i < j
      BY <2>3, <2>11, <3>1
    <3> HIDE DEF A, B
    <3>5. Chart!Aggregated(bars, A \cup B)
            = Chart!Joined(Chart!Aggregated(bars, A), Chart!Aggregated(bars, B))
      BY <2>2, <3>4, JoinedIs
    <3> QED  BY <3>2, <3>3, <3>5
  <2> QED  BY <2>12 DEF Chart!ResampleComposes, Half, whole, halves
<1> QED  BY <1>1, <1>2
-----------------------------------------------------------------------------
(* Series of prices, and their extremes.                                     *)

Values == BarPrices \cup {None}

\* Today's low is among the supports once the price rose from it again, the stop
\* is no lower, and between two supports there is a local maximum.
LEMMA SupportsAreFound ==
  ASSUME NEW lows \in Seq(Values)
  PROVE  Chart!SupportsFound(lows)
<1> DEFINE n == Len(lows)
           known == {i \in DOMAIN lows : lows[i] # None}
           lowest == {i \in known : \A j \in known : lows[i] <= lows[j]}
           low == Chart!Max(lowest)
           minima == Chart!LocalMinima(lows)
           maxima == Chart!LocalMaxima(lows)
           inner == Chart!Inner(lows)
<1>1. /\ n \in Nat /\ DOMAIN lows = 1 .. n
      /\ \A i \in 1 .. n : lows[i] \in Values
  OBVIOUS
<1>2. \A i \in known : i \in 1 .. n /\ lows[i] \in Int
  BY <1>1, ChartNumbers DEF Values
<1>3. \A i : i \in known <=> i \in 1 .. n /\ lows[i] # None
  BY <1>1
<1>4. \A i : i \in inner <=> /\ i \in 2 .. n - 1
                             /\ lows[i - 1] # None /\ lows[i] # None /\ lows[i + 1] # None
  BY DEF Chart!Inner, Chart!Valued
<1>5. \A i : i \in minima <=> i \in inner /\ lows[i] <= lows[i - 1] /\ lows[i + 1] > lows[i]
  BY DEF Chart!LocalMinima
<1>6. \A i : i \in maxima <=> i \in inner /\ lows[i] >= lows[i - 1] /\ lows[i + 1] <= lows[i]
  BY DEF Chart!LocalMaxima
<1>7. \A i : i \in lowest <=> i \in known /\ \A j \in known : lows[i] <= lows[j]
  OBVIOUS
<1> HIDE DEF known, lowest, minima, maxima, inner
<1>8. \A i \in inner : /\ i \in Int /\ 2 <= i /\ i <= n - 1
                       /\ i - 1 \in known /\ i \in known /\ i + 1 \in known
  <2> SUFFICES ASSUME NEW i \in 2 .. n - 1
               PROVE  /\ i \in Int /\ 2 <= i /\ i <= n - 1
                      /\ i - 1 \in 1 .. n /\ i \in 1 .. n /\ i + 1 \in 1 .. n
    BY <1>3, <1>4
  <2> HIDE DEF n
  <2> QED  BY <1>1
<1>9. ASSUME low \in inner
      PROVE  low \in minima /\ \A j \in known : lows[low] <= lows[j]
  <2>1. known \in SUBSET (1 .. n) /\ known # {} /\ lowest \in SUBSET (1 .. n)
    BY <1>2, <1>7, <1>8, <1>9
  <2>2. lowest # {}
    <3>1. \E i \in known : \A j \in known : lows[i] <= lows[j]
      BY <1>1, <1>2, <2>1, LeastOf
    <3> QED  BY <1>7, <3>1
  <2>3. low \in lowest /\ \A i \in lowest : low >= i
    <3>1. Bounded(lowest)
      BY <1>1, <2>1, <2>2, PlacesBounded
    <3> QED  BY <3>1, Extremes
  <2> HIDE DEF low
  <2>4. /\ low \in Int /\ low - 1 \in known /\ low + 1 \in known /\ low \in known
        /\ \A j \in known : lows[low] <= lows[j]
    BY <1>7, <1>8, <1>9, <2>3
  <2>5. lows[low] \in Int /\ lows[low + 1] \in Int /\ lows[low] <= lows[low + 1]
        /\ lows[low] <= lows[low - 1]
    BY <1>2, <2>4
  <2>6. lows[low + 1] # lows[low]
    <3> SUFFICES ASSUME lows[low + 1] = lows[low] PROVE FALSE
      OBVIOUS
    <3>1. low + 1 \in lowest
      BY <1>7, <2>4
    <3>2. low >= low + 1
      BY <2>3, <3>1
    <3> QED  BY <2>4, <3>2
  <2>7. lows[low + 1] > lows[low]
    BY <2>5, <2>6
  <2> QED  BY <1>5, <1>9, <2>4, <2>5, <2>7
<1>10. ASSUME low \in inner, NEW current \in BarPrices, current > lows[low]
       PROVE  low \in Chart!Supports(lows, current)
  <2>1. low \in minima
    BY <1>9, <1>10
  <2>2. Chart!Supports(lows, current) = {i \in minima : lows[i] < current}
    BY <2>1 DEF Chart!Supports, minima
  <2>3. lows[low] < current
    <3>1. lows[low] \in Int /\ current \in Int
      BY <1>2, <1>8, <1>10, ChartNumbers
    <3> HIDE DEF low
    <3> QED  BY <1>10, <3>1
  <2> QED  BY <2>1, <2>2, <2>3
<1>11. ASSUME low \in inner PROVE Chart!Stop(lows) >= lows[low]
  <2>1. low \in minima /\ \A j \in known : lows[low] <= lows[j]
    BY <1>9, <1>11
  <2>2. \A i \in minima : i \in known /\ i \in 1 .. n
    BY <1>2, <1>5, <1>8
  <2>3. minima \in SUBSET (1 .. n) /\ minima # {}
    BY <2>1, <2>2
  <2>4. Bounded(minima)
    BY <1>1, <2>3, PlacesBounded
  <2>5. Chart!Max(minima) \in known
    BY <2>2, <2>4, Extremes
  <2>6. Chart!Stop(lows) = lows[Chart!Max(minima)]
    BY <2>3 DEF Chart!Stop, minima
  <2>7. low \in known
    BY <2>1, <2>2
  <2> DEFINE x == lows[Chart!Max(minima)]
             y == lows[low]
  <2>8. x \in Int /\ y \in Int /\ y <= x
    BY <1>2, <2>1, <2>5, <2>7
  <2> HIDE DEF x, y
  <2>9. x >= y
    BY <2>8
  <2> QED  BY <2>6, <2>9 DEF x, y
<1>12. ASSUME known = DOMAIN lows, NEW i \in minima, NEW j \in minima, i < j
       PROVE  \E k \in maxima : i < k /\ k < j
  <2>1. /\ i \in Int /\ 2 <= i /\ i + 1 \in known /\ lows[i + 1] > lows[i]
        /\ j \in Int /\ j <= n - 1 /\ j - 1 \in known /\ lows[j] <= lows[j - 1]
        /\ i \in known /\ j \in known
    BY <1>5, <1>8
  <2> DEFINE S == i .. j
             top == {k \in S : \A l \in S : lows[k] >= lows[l]}
             k == Chart!Min(top)
  <2>2. S \in SUBSET (1 .. n) /\ S # {}
    <3>1. i \in Int /\ j \in Int /\ n \in Int /\ 1 <= i /\ i <= j /\ j <= n
      <4>1. i \in Int /\ 2 <= i /\ i < j /\ j \in Int /\ j <= n - 1 /\ n \in Nat
        BY <1>1, <1>12, <2>1
      <4> HIDE DEF n, minima, maxima, known, inner
      <4> QED  BY <4>1
    <3>2. \A l \in i .. j : l \in 1 .. n
      <4> HIDE DEF n, minima, maxima, known, inner
      <4> QED  BY <3>1
    <3>3. i \in i .. j
      <4> HIDE DEF n, minima, maxima, known, inner
      <4> QED  BY <3>1
    <3> QED  BY <3>2, <3>3
  <2>3. \A l \in S : lows[l] \in Int
    BY <1>1, <1>2, <1>12, <2>2
  <2>4. \A l : l \in S <=> l \in Int /\ i <= l /\ l <= j
    BY <2>1
  <2> HIDE DEF S
  <2>5. top \in SUBSET (1 .. n) /\ top # {}
    <3>1. \E m \in S : \A l \in S : lows[m] >= lows[l]
      BY <1>1, <2>2, <2>3, GreatestOf
    <3> QED  BY <2>2, <3>1
  <2>6. k \in top /\ \A l \in top : k <= l
    <3> HIDE DEF top
    <3>1. Bounded(top)
      BY <1>1, <2>5, PlacesBounded
    <3> QED  BY <3>1, Extremes
  <2>7. /\ k \in S /\ \A l \in S : lows[k] >= lows[l]
        /\ \A m \in S : (\A l \in S : lows[m] >= lows[l]) => k <= m
    <3> HIDE DEF k
    <3> QED  BY <2>6
  <2> HIDE DEF k, top
  <2>8. k \in Int /\ i <= k /\ k <= j /\ i + 1 \in S /\ j - 1 \in S /\ i \in S /\ j \in S
    <3>1. k \in Int /\ i <= k /\ k <= j
      BY <2>4, <2>7
    <3>2. i \in Int /\ j \in Int /\ i < j
      BY <1>12, <2>1
    <3>3. \A l \in Int : i <= l /\ l <= j => l \in S
      BY <2>4
    <3> HIDE DEF minima, maxima, known, inner
    <3>4. i + 1 \in S /\ j - 1 \in S /\ i \in S /\ j \in S
      BY <3>2, <3>3
    <3> QED  BY <3>1, <3>4
  <2>9. k # i
    <3> SUFFICES ASSUME k = i PROVE FALSE
      OBVIOUS
    <3>1. lows[i] >= lows[i + 1]
      BY <2>7, <2>8
    <3> DEFINE x == lows[i]
               y == lows[i + 1]
    <3>2. x \in Int /\ y \in Int /\ x >= y /\ y > x
      BY <2>1, <2>3, <2>8, <3>1
    <3> HIDE DEF x, y
    <3> QED  BY <3>2
  <2>10. k # j
    <3> SUFFICES ASSUME k = j PROVE FALSE
      OBVIOUS
    <3>1. \A l \in S : lows[j - 1] >= lows[l]
      <4> SUFFICES ASSUME NEW l \in S PROVE lows[j - 1] >= lows[l]
        OBVIOUS
      <4> DEFINE x == lows[j - 1]
                 y == lows[j]
                 z == lows[l]
      <4>1. x \in Int /\ y \in Int /\ z \in Int /\ y <= x /\ y >= z
        BY <2>1, <2>3, <2>7, <2>8
      <4> HIDE DEF x, y, z
      <4>2. x >= z
        BY <4>1
      <4> QED  BY <4>2 DEF x, z
    <3>2. j <= j - 1
      BY <2>7, <2>8, <3>1
    <3> QED  BY <2>1, <3>2
  <2>11. i < k /\ k < j /\ k - 1 \in S /\ k + 1 \in S /\ k \in 2 .. n - 1
    <3>1. i < k /\ k < j
      BY <2>1, <2>8, <2>9, <2>10
    <3> QED  BY <1>1, <2>1, <2>4, <2>8, <3>1
  <2>12. k \in inner
    <3>1. k - 1 \in known /\ k \in known /\ k + 1 \in known
      BY <1>1, <1>12, <2>2, <2>7, <2>11
    <3> QED  BY <1>3, <1>4, <2>11, <3>1
  <2>13. lows[k] >= lows[k - 1] /\ lows[k + 1] <= lows[k]
    <3> DEFINE x == lows[k]
               y == lows[k + 1]
    <3>1. x \in Int /\ y \in Int /\ x >= y /\ lows[k] >= lows[k - 1]
      BY <2>3, <2>7, <2>11
    <3> HIDE DEF x, y
    <3>2. y <= x
      BY <3>1
    <3> QED  BY <3>1, <3>2 DEF x, y
  <2> QED  BY <1>6, <2>11, <2>12, <2>13
<1>13. low \in inner => minima # {}
  BY <1>9
<1> QED
  BY <1>10, <1>11, <1>12, <1>13
     DEF Chart!SupportsFound, known, lowest, minima, maxima, inner

\* The highest price of all is a resistance wherever it is but at an end.
LEMMA ResistancesAreFound ==
  ASSUME NEW highs \in Seq(BarPrices \ {None})
  PROVE  Chart!ResistancesFound(highs)
<1>1. /\ Len(highs) \in Nat /\ DOMAIN highs = 1 .. Len(highs)
      /\ \A i \in 1 .. Len(highs) : highs[i] \in BarPrices /\ highs[i] # None
  OBVIOUS
<1>2. \A i \in 1 .. Len(highs) : highs[i] \in Int
  BY <1>1, ChartNumbers
<1> SUFFICES ASSUME NEW i \in 2 .. Len(highs) - 1, \A j \in DOMAIN highs : highs[j] <= highs[i]
             PROVE  i \in Chart!LocalMaxima(highs) /\ i \in Chart!Resistances(highs, highs[i])
  BY DEF Chart!ResistancesFound
<1>3. i - 1 \in 1 .. Len(highs) /\ i \in 1 .. Len(highs) /\ i + 1 \in 1 .. Len(highs)
  BY <1>1
<1>4. highs[i] >= highs[i - 1] /\ highs[i + 1] <= highs[i] /\ highs[i] >= highs[i]
  <2> DEFINE x == highs[i]
             y == highs[i - 1]
  <2>1. x \in Int /\ y \in Int /\ y <= x /\ highs[i + 1] <= highs[i]
    BY <1>1, <1>2, <1>3
  <2> HIDE DEF x, y
  <2>2. x >= y /\ x >= x
    BY <2>1
  <2> QED  BY <2>1, <2>2 DEF x, y
<1>5. i \in Chart!LocalMaxima(highs)
  BY <1>1, <1>3, <1>4 DEF Chart!LocalMaxima, Chart!Inner, Chart!Valued
<1> QED  BY <1>4, <1>5 DEF Chart!Resistances

\* A bin has a low and a high of the prices, or none.
LEMMA BinPriced ==
  ASSUME NEW rows \in Seq(Rows), NEW M \in SUBSET (1 .. Len(rows))
  PROVE  /\ Chart!Aggregated(rows, M).low \in Values
         /\ Chart!Aggregated(rows, M).high \in Values
<1> DEFINE P == {rows[i].price : i \in M}
<1>1. CASE M = {}
  BY <1>1 DEF Chart!Aggregated, Values
<1>2. CASE M # {}
  <2>1. Bounded(P) /\ P \subseteq BarPrices
    BY <1>2, PricesBounded
  <2>2. Chart!Min(P) \in BarPrices /\ Chart!Max(P) \in BarPrices
    <3> HIDE DEF P
    <3> QED  BY <2>1, Extremes
  <2>3. /\ Chart!Aggregated(rows, M).low = Chart!Min(P)
        /\ Chart!Aggregated(rows, M).high = Chart!Max(P)
    BY <1>2 DEF Chart!Aggregated
  <2> QED  BY <2>2, <2>3 DEF Values
<1> QED  BY <1>1, <1>2

\* The lows and the highs of consecutive bins.
LEMMA SeriesAre ==
  ASSUME NEW rows \in Seq(Rows)
  PROVE  /\ Chart!Series(rows, BinLength, Chart!LowOf) \in Seq(Values)
         /\ Chart!Series(rows, BinLength, Chart!HighOf) \in Seq(Values)
<1>1. CASE rows = <<>>
  <2>1. <<>> \in Seq(Values)
    OBVIOUS
  <2> QED  BY <1>1, <2>1 DEF Chart!Series
<1>2. CASE rows # <<>>
  <2> DEFINE L == BinLength
             a == rows[1].at \div L
             z == rows[Len(rows)].at \div L
             bins == Chart!Resample(rows, L)
             c == Chart!Cardinality(DOMAIN bins)
             low == [k \in 1 .. c |-> bins[a + k - 1].low]
             high == [k \in 1 .. c |-> bins[a + k - 1].high]
  <2>1. /\ Len(rows) \in Nat /\ 1 \in 1 .. Len(rows) /\ Len(rows) \in 1 .. Len(rows)
        /\ DOMAIN rows = 1 .. Len(rows)
    <3>1. Len(rows) \in Nat /\ DOMAIN rows = 1 .. Len(rows)
      OBVIOUS
    <3>2. Len(rows) # 0
      BY <1>2, <3>1, EmptySeq
    <3> QED  BY <3>1, <3>2
  <2>2. /\ bins = [bin \in a .. z |-> Chart!Aggregated(rows, Chart!InBin(rows, bin, L))]
        /\ DOMAIN bins = a .. z
    <3>1. bins = [bin \in a .. z |-> Chart!Aggregated(rows, Chart!InBin(rows, bin, L))]
      BY <1>2 DEF Chart!Resample, Chart!Last
    <3> HIDE DEF bins, a, z
    <3> QED  BY <3>1
  <2>3. a \in Nat /\ z \in Nat
    <3>1. rows[1] \in Rows /\ rows[Len(rows)] \in Rows
      BY <2>1
    <3>2. rows[1].at \in Nat /\ rows[Len(rows)].at \in Nat
      BY <3>1 DEF Rows
    <3> QED  BY <3>2, ChartNumbers, Quotient
  <2>4. \A bin \in a .. z : bins[bin].low \in Values /\ bins[bin].high \in Values
    <3> SUFFICES ASSUME NEW bin \in a .. z
                 PROVE  bins[bin].low \in Values /\ bins[bin].high \in Values
      OBVIOUS
    <3>1. bins[bin] = Chart!Aggregated(rows, Chart!InBin(rows, bin, L))
      <4> HIDE DEF bins, a, z
      <4> QED  BY <2>2
    <3>2. Chart!InBin(rows, bin, L) \in SUBSET (1 .. Len(rows))
      BY <2>1 DEF Chart!InBin
    <3> QED  BY <3>1, <3>2, BinPriced
  <2>5. /\ Chart!Series(rows, BinLength, Chart!LowOf) = low
        /\ Chart!Series(rows, BinLength, Chart!HighOf) = high
    BY <1>2 DEF Chart!Series, Chart!LowOf, Chart!HighOf
  <2> HIDE DEF bins, a, z
  <2>6. c = IF a > z THEN 0 ELSE z - a + 1
    <3>1. Cardinality(a .. z) = IF a > z THEN 0 ELSE z - a + 1
      BY <2>3, FS_Interval
    <3>2. Chart!Cardinality(a .. z) = Cardinality(a .. z)
      BY DEF Chart!Cardinality, Cardinality
    <3> QED  BY <2>2, <3>1, <3>2
  <2> HIDE DEF c
  <2>7. c \in Nat /\ \A k \in 1 .. c : a + k - 1 \in a .. z
    BY <2>3, <2>6
  <2>8. low \in [1 .. c -> Values] /\ high \in [1 .. c -> Values]
    BY <2>4, <2>7
  <2> HIDE DEF low, high
  <2>9. low \in Seq(Values) /\ high \in Seq(Values)
    BY <2>7, <2>8
  <2> QED  BY <2>5, <2>9
<1> QED  BY <1>1, <1>2

\* The bars a stop is looked for in, and those of them that are today's.
LEMMA TodaysBars ==
  ASSUME ChartInv
  PROVE  Chart!OfToday \in Seq(Rows)
<1> DEFINE start == IF Len(bars) > Window THEN Len(bars) - Window + 1 ELSE 1
           rows == Chart!LastRows
           before == {i \in DOMAIN rows : rows[i].at < Chart!StartOfDay}
<1>1. bars \in Seq(Rows) /\ Len(bars) \in Nat /\ \A i \in 1 .. Len(bars) : bars[i] \in Rows
  BY DEF ChartInv
<1>2. start \in Int /\ start >= 1
  BY <1>1, ChartNumbers
<1>3. rows = SubSeq(bars, start, Len(bars))
  BY DEF Chart!LastRows
<1> HIDE DEF start, rows
<1>4. \A i \in start .. Len(bars) : bars[i] \in Rows
  BY <1>1, <1>2
<1>5. rows \in Seq(Rows)
  BY <1>1, <1>2, <1>3, <1>4, SubSeqProperties
<1>6. /\ Len(rows) \in Nat /\ DOMAIN rows = 1 .. Len(rows)
      /\ \A i \in 1 .. Len(rows) : rows[i] \in Rows
  BY <1>5
<1>7. before \in SUBSET (1 .. Len(rows))
  BY <1>6
<1>8. Chart!OfToday = SubSeq(rows, Chart!Cardinality(before) + 1, Len(rows))
  BY DEF Chart!OfToday, rows
<1> HIDE DEF before
<1> DEFINE c == Chart!Cardinality(before)
<1>9. c \in Nat
  BY <1>6, <1>7, PlacesCounted
<1> HIDE DEF c
<1>10. \A i \in c + 1 .. Len(rows) : rows[i] \in Rows
  BY <1>6, <1>9
<1>11. SubSeq(rows, c + 1, Len(rows)) \in Seq(Rows)
  BY <1>6, <1>9, <1>10, SubSeqProperties
<1> QED  BY <1>8, <1>11 DEF c

\* The highs find_resistances looks at are prices.
LEMMA HighsAre ==
  ASSUME ChartInv
  PROVE  Chart!Highs \in Seq(BarPrices \ {None})
<1> DEFINE highs == Chart!Series(bars, BinLength, Chart!HighOf)
           priced == {i \in DOMAIN highs : highs[i] # None}
           c == Chart!Cardinality(priced)
           place(k) == CHOOSE i \in priced : Chart!Cardinality({j \in priced : j <= i}) = k
           f == [k \in 1 .. c |-> highs[place(k)]]
<1>1. Chart!Highs = f
  BY DEF Chart!Highs
<1>2. highs \in Seq(Values)
  BY SeriesAre DEF ChartInv
<1> HIDE DEF highs
<1>3. /\ Len(highs) \in Nat /\ DOMAIN highs = 1 .. Len(highs)
      /\ \A i \in 1 .. Len(highs) : highs[i] \in Values
  BY <1>2
<1>4. /\ priced \in SUBSET (1 .. Len(highs))
      /\ \A i \in priced : highs[i] \in BarPrices \ {None}
  BY <1>3 DEF Values
<1> HIDE DEF priced
<1>5. Cardinality(priced) \in Nat /\ Ranked(priced)
  <2>1. priced \in SUBSET (0 .. Len(highs))
    BY <1>3, <1>4
  <2> QED  BY <1>3, <2>1, AllRanked
<1>6. \A T : Chart!Cardinality(T) = Cardinality(T)
  BY DEF Chart!Cardinality, Cardinality
<1>7. c = Cardinality(priced)
  BY <1>6
<1>8. \A k \in 1 .. c : place(k) \in priced
  <2> SUFFICES ASSUME NEW k \in 1 .. c PROVE place(k) \in priced
    OBVIOUS
  <2>1. \E i \in priced : Chart!Cardinality({j \in priced : j <= i}) = k
    BY <1>5, <1>6, <1>7 DEF Ranked, HasRank
  <2> QED  BY <2>1
<1> HIDE DEF c, place
<1>9. f \in [1 .. c -> BarPrices \ {None}]
  BY <1>4, <1>8
<1> HIDE DEF f
<1>10. f \in Seq(BarPrices \ {None})
  BY <1>5, <1>7, <1>9
<1> QED  BY <1>1, <1>10

\* fincalcs: bins compose, and the lists of supports and of resistances have
\* what they are for.
LEMMA ChartIsRight == ChartInv => ChartsAgree
<1> SUFFICES ASSUME ChartInv PROVE ChartsAgree
  OBVIOUS
<1>1. Chart!ResampleComposes
  BY Composed
<1>2. Chart!Lows \in Seq(Values)
  BY TodaysBars, SeriesAre DEF Chart!Lows
<1>3. Chart!ExtremesFound
  BY <1>2, HighsAre, SupportsAreFound, ResistancesAreFound DEF Chart!ExtremesFound
<1> QED  BY <1>1, <1>3 DEF ChartsAgree

\* Theorem: a bin of twice the length is the join of its halves, and the searches
\* find the low of a day among its supports and its high among the resistances, as
\* far as empty bins allow (support_resistance.py), for all bars and lengths.
THEOREM ChartsAgreeAlways == Chart!Spec => []ChartsAgree
<1>1. ChartInv => ChartsAgree
  BY ChartIsRight
<1>2. Chart!Init => ChartInv
  BY ChartInitially
<1>3. ChartInv /\ [Chart!Next]_bars => ChartInv'
  BY ChartStep
<1> QED  BY <1>1, <1>2, <1>3, PTL DEF Chart!Spec
-----------------------------------------------------------------------------
(* Reports: sums.                                                            *)

\* What the library's fold computes for the sets of places up to n.
IsSum(F, n, f) ==
  F = [s \in SUBSET (1 .. n) |->
         IF s = {} THEN 0 ELSE F[s \ {Reports!Max(s)}] + f[Reports!Max(s)]]

LEMMA MaxIsLast ==
  ASSUME NEW n \in Nat, NEW s \in SUBSET (1 .. n), n \in s
  PROVE  Reports!Max(s) = n
<1>1. \E x \in s : \A y \in s : x >= y
  OBVIOUS
<1>2. Reports!Max(s) \in s /\ \A y \in s : Reports!Max(s) >= y
  BY <1>1 DEF Reports!Max
<1>3. PICK x \in s : x = Reports!Max(s) /\ \A y \in s : x >= y
  BY <1>2
<1>4. x \in 1 .. n /\ x >= n
  BY <1>3
<1>5. x = n
  BY <1>4
<1> QED  BY <1>3, <1>5

\* The places up to k, and those up to the one before it.
LEMMA UptoIs ==
  ASSUME NEW n \in Nat, NEW k \in 1 .. n
  PROVE  /\ 1 .. k \in SUBSET (1 .. n) /\ 1 .. k # {} /\ k \in 1 .. k /\ k \in Nat
         /\ Reports!Max(1 .. k) = k /\ (1 .. k) \ {k} = 1 .. k - 1
<1>1. 1 .. k \in SUBSET (1 .. n) /\ 1 .. k # {} /\ k \in 1 .. k /\ k \in Nat
  OBVIOUS
<1>2. Reports!Max(1 .. k) = k
  BY <1>1, MaxIsLast
<1>3. (1 .. k) \ {k} = 1 .. k - 1
  BY <1>1
<1> QED  BY <1>1, <1>2, <1>3

\* A set whose greatest element is not m is one of the numbers below m.
LEMMA BelowIs ==
  ASSUME NEW m \in Nat, m # 0, NEW s \in SUBSET (1 .. m), m \notin s
  PROVE  s \in SUBSET (1 .. m - 1)
OBVIOUS

LEMMA SumExists ==
  ASSUME NEW f, NEW n \in Nat
  PROVE  \E F : IsSum(F, n, f)
<1> DEFINE Bad == {m \in Nat : ~\E F : IsSum(F, m, f)}
<1> SUFFICES ASSUME Bad # {} PROVE FALSE
  OBVIOUS
<1>1. PICK m \in Bad : \A k \in Bad : m <= k
  BY Least
<1>2. m # 0
  <2> DEFINE F == [s \in SUBSET (1 .. 0) |-> 0]
  <2>1. SUBSET (1 .. 0) = {{}}
    OBVIOUS
  <2>2. IsSum(F, 0, f)
    BY <2>1 DEF IsSum
  <2> QED  BY <2>2
<1>3. m \in Nat /\ m - 1 \in Nat /\ m - 1 \notin Bad
  BY <1>1, <1>2
<1>4. PICK F : IsSum(F, m - 1, f)
  BY <1>3
<1> DEFINE G == [s \in SUBSET (1 .. m) |-> IF m \in s THEN F[s \ {m}] + f[m] ELSE F[s]]
<1>5. ASSUME NEW s \in SUBSET (1 .. m)
      PROVE  G[s] = IF s = {} THEN 0 ELSE G[s \ {Reports!Max(s)}] + f[Reports!Max(s)]
  <2>1. CASE m \in s
    <3>1. Reports!Max(s) = m /\ s # {} /\ s \ {m} \in SUBSET (1 .. m) /\ m \notin s \ {m}
      BY <1>3, <2>1, MaxIsLast
    <3>2. G[s] = F[s \ {m}] + f[m] /\ G[s \ {m}] = F[s \ {m}]
      BY <2>1, <3>1
    <3> QED  BY <3>1, <3>2
  <2>2. CASE m \notin s
    <3> DEFINE t == s \ {Reports!Max(s)}
    <3>1. s \in SUBSET (1 .. m - 1) /\ t \in SUBSET s
      BY <1>2, <1>3, <2>2, BelowIs
    <3>2. t \in SUBSET (1 .. m) /\ m \notin t
      BY <2>2, <3>1
    <3>3. G[s] = F[s] /\ G[t] = F[t]
      BY <2>2, <3>2
    <3>4. F[s] = IF s = {} THEN 0 ELSE F[t] + f[Reports!Max(s)]
      BY <1>4, <3>1 DEF IsSum
    <3> QED  BY <3>3, <3>4
  <2> QED  BY <2>1, <2>2
<1>6. IsSum(G, m, f)
  <2>1. G = [s \in SUBSET (1 .. m) |-> G[s]]
    OBVIOUS
  <2> HIDE DEF G
  <2> QED  BY <1>5, <2>1 DEF IsSum
<1>7. m \notin Bad
  BY <1>6
<1> QED  BY <1>1, <1>7

\* The sums of the first numbers.
Partial(P, n, f) ==
  /\ P \in [0 .. n -> Int] /\ P[0] = 0
  /\ \A k \in 1 .. n : P[k] = P[k - 1] + f[k]

LEMMA SumHasPartials ==
  ASSUME NEW n \in Nat, NEW f \in [1 .. n -> Int]
  PROVE  \E P : Partial(P, n, f) /\ Reports!Sum(f) = P[n]
<1> DEFINE F == CHOOSE G : IsSum(G, n, f)
           P == [k \in 0 .. n |-> F[1 .. k]]
<1>1. IsSum(F, n, f)
  BY SumExists
<1>2. Reports!Sum(f) = F[1 .. n]
  <2>1. DOMAIN f = 1 .. n
    OBVIOUS
  <2> QED  BY <2>1 DEF Reports!Sum, Reports!FoldLeft, Reports!MapThenFoldSet, IsSum
<1> HIDE DEF F
<1>3. F[1 .. 0] = 0
  <2>1. 1 .. 0 = {} /\ {} \in SUBSET (1 .. n)
    OBVIOUS
  <2>2. F[{}] = 0
    BY <1>1, <2>1 DEF IsSum
  <2> QED  BY <2>1, <2>2
<1>4. \A k \in 1 .. n : F[1 .. k] = F[1 .. k - 1] + f[k]
  <2> SUFFICES ASSUME NEW k \in 1 .. n PROVE F[1 .. k] = F[1 .. k - 1] + f[k]
    OBVIOUS
  <2>1. /\ 1 .. k \in SUBSET (1 .. n) /\ 1 .. k # {}
        /\ Reports!Max(1 .. k) = k /\ (1 .. k) \ {k} = 1 .. k - 1
    BY UptoIs
  <2>2. F[1 .. k] = F[(1 .. k) \ {Reports!Max(1 .. k)}] + f[Reports!Max(1 .. k)]
    BY <1>1, <2>1 DEF IsSum
  <2> QED  BY <2>1, <2>2
<1>5. P[0] = 0 /\ P[n] = F[1 .. n] /\ \A k \in 1 .. n : P[k] = P[k - 1] + f[k]
  <2>1. P[0] = 0 /\ P[n] = F[1 .. n]
    BY <1>3
  <2>2. \A k \in 1 .. n : k \in 0 .. n /\ k - 1 \in 0 .. n
    OBVIOUS
  <2>3. \A k \in 1 .. n : P[k] = F[1 .. k] /\ P[k - 1] = F[1 .. k - 1]
    BY <2>2
  <2> HIDE DEF P
  <2> QED  BY <1>4, <2>1, <2>3
<1>6. P = [k \in 0 .. n |-> P[k]]
  OBVIOUS
<1> HIDE DEF P
<1>7. \A k \in 0 .. n : P[k] \in Int
  <2> DEFINE Bad == {k \in 0 .. n : P[k] \notin Int}
  <2> SUFFICES ASSUME Bad # {} PROVE FALSE
    OBVIOUS
  <2>1. Bad \in SUBSET Nat
    OBVIOUS
  <2>2. PICK k \in Bad : \A j \in Bad : k <= j
    <3> HIDE DEF Bad
    <3> QED  BY <2>1, Least
  <2>3. k # 0 /\ k \in 0 .. n
    BY <1>5, <2>2
  <2>4. k \in 1 .. n /\ k - 1 \in 0 .. n
    BY <2>3
  <2>5. P[k - 1] \in Int
    BY <2>2, <2>4
  <2>6. P[k] \in Int
    BY <1>5, <2>4, <2>5
  <2> QED  BY <2>2, <2>6
<1>8. Partial(P, n, f)
  BY <1>5, <1>6, <1>7 DEF Partial
<1> QED  BY <1>2, <1>5, <1>8

LEMMA PartialsAreSame ==
  ASSUME NEW n \in Nat, NEW f, NEW P, NEW Q, Partial(P, n, f), Partial(Q, n, f)
  PROVE  P[n] = Q[n]
<1> DEFINE Bad == {k \in 0 .. n : P[k] # Q[k]}
<1> SUFFICES ASSUME Bad # {} PROVE FALSE
  OBVIOUS
<1>1. Bad \in SUBSET Nat
  OBVIOUS
<1>2. PICK k \in Bad : \A j \in Bad : k <= j
  <2> HIDE DEF Bad
  <2> QED  BY <1>1, Least
<1>3. k # 0 /\ k \in 0 .. n
  BY <1>2 DEF Partial
<1>4. k \in 1 .. n /\ k - 1 \in 0 .. n
  BY <1>3
<1>5. P[k - 1] = Q[k - 1]
  BY <1>2, <1>4
<1>6. P[k] = Q[k]
  BY <1>4, <1>5 DEF Partial
<1> QED  BY <1>2, <1>6

LEMMA SumIs ==
  ASSUME NEW n \in Nat, NEW f \in [1 .. n -> Int], NEW P, Partial(P, n, f)
  PROVE  Reports!Sum(f) = P[n]
<1>1. PICK Q : Partial(Q, n, f) /\ Reports!Sum(f) = Q[n]
  BY SumHasPartials
<1> QED  BY <1>1, PartialsAreSame

LEMMA SumType ==
  ASSUME NEW n \in Nat, NEW f \in [1 .. n -> Int]
  PROVE  Reports!Sum(f) \in Int
<1>1. PICK P : Partial(P, n, f) /\ Reports!Sum(f) = P[n]
  BY SumHasPartials
<1> QED  BY <1>1 DEF Partial

LEMMA SumOfSums ==
  ASSUME NEW n \in Nat, NEW f \in [1 .. n -> Int], NEW g \in [1 .. n -> Int],
         NEW h \in [1 .. n -> Int], \A i \in 1 .. n : h[i] = f[i] + g[i]
  PROVE  Reports!Sum(h) = Reports!Sum(f) + Reports!Sum(g)
<1>1. PICK P : Partial(P, n, f) /\ Reports!Sum(f) = P[n]
  BY SumHasPartials
<1>2. PICK Q : Partial(Q, n, g) /\ Reports!Sum(g) = Q[n]
  BY SumHasPartials
<1> DEFINE R == [k \in 0 .. n |-> P[k] + Q[k]]
<1>3. \A k \in 0 .. n : P[k] \in Int /\ Q[k] \in Int
  BY <1>1, <1>2 DEF Partial
<1>4. R \in [0 .. n -> Int] /\ R[0] = 0 /\ R[n] = P[n] + Q[n]
  BY <1>1, <1>2, <1>3 DEF Partial
<1>5. ASSUME NEW k \in 1 .. n PROVE R[k] = R[k - 1] + h[k]
  <2>1. k \in 0 .. n /\ k - 1 \in 0 .. n
    OBVIOUS
  <2>2. P[k] = P[k - 1] + f[k] /\ Q[k] = Q[k - 1] + g[k] /\ h[k] = f[k] + g[k]
    BY <1>1, <1>2 DEF Partial
  <2>3. R[k] = P[k] + Q[k] /\ R[k - 1] = P[k - 1] + Q[k - 1]
    BY <2>1
  <2>4. P[k - 1] \in Int /\ Q[k - 1] \in Int /\ f[k] \in Int /\ g[k] \in Int
    BY <1>3, <2>1
  <2> HIDE DEF R
  <2> QED  BY <2>2, <2>3, <2>4
<1>6. Partial(R, n, h)
  <2> HIDE DEF R
  <2> QED  BY <1>4, <1>5 DEF Partial
<1>7. Reports!Sum(h) = R[n]
  BY <1>6, SumIs
<1> QED  BY <1>1, <1>2, <1>4, <1>7

\* A sum of zeros but at most for one number.
LEMMA SumOfOne ==
  ASSUME NEW n \in Nat, NEW f \in [1 .. n -> Int], NEW k \in 1 .. n,
         \A i \in 1 .. n : i # k => f[i] = 0
  PROVE  Reports!Sum(f) = f[k]
<1> DEFINE P == [j \in 0 .. n |-> IF j < k THEN 0 ELSE f[k]]
<1>1. P \in [0 .. n -> Int] /\ P[0] = 0 /\ P[n] = f[k]
  OBVIOUS
<1>2. ASSUME NEW j \in 1 .. n PROVE P[j] = P[j - 1] + f[j]
  <2>1. j \in 0 .. n /\ j - 1 \in 0 .. n /\ j \in Nat /\ k \in Nat
    OBVIOUS
  <2>2. P[j] = (IF j < k THEN 0 ELSE f[k]) /\ P[j - 1] = IF j - 1 < k THEN 0 ELSE f[k]
    BY <2>1
  <2>3. f[k] \in Int /\ f[j] \in Int
    OBVIOUS
  <2> HIDE DEF P
  <2>4. CASE j = k
    BY <2>1, <2>2, <2>3, <2>4
  <2>5. CASE j # k
    <3>1. f[j] = 0 /\ (j < k <=> j - 1 < k)
      BY <2>1, <2>5
    <3> QED  BY <2>2, <2>3, <3>1
  <2> QED  BY <2>4, <2>5
<1>3. Partial(P, n, f)
  <2> HIDE DEF P
  <2> QED  BY <1>1, <1>2 DEF Partial
<1>4. Reports!Sum(f) = P[n]
  BY <1>3, SumIs
<1> QED  BY <1>1, <1>4

LEMMA SumOfZeros ==
  ASSUME NEW n \in Nat, NEW f \in [1 .. n -> Int], \A i \in 1 .. n : f[i] = 0
  PROVE  Reports!Sum(f) = 0
<1> DEFINE P == [j \in 0 .. n |-> 0]
<1>1. Partial(P, n, f)
  BY DEF Partial
<1>2. Reports!Sum(f) = P[n]
  BY <1>1, SumIs
<1> QED  BY <1>2

-----------------------------------------------------------------------------
(* Reports: sums at some places.                                             *)

Numbers(n, f) == n \in Nat /\ f \in [1 .. n -> Int]
SamePlaces(n, S, T) == \A i \in 1 .. n : i \in S <=> i \in T
Apart(n, S, T) == \A i \in 1 .. n : ~(i \in S /\ i \in T)
Only(n, f, S) == [i \in 1 .. n |-> IF i \in S THEN f[i] ELSE 0]

LEMMA TotalIs ==
  ASSUME NEW n \in Nat, NEW f \in [1 .. n -> Int], NEW S
  PROVE  /\ Reports!Total(f, S) = Reports!Sum(Only(n, f, S))
         /\ Only(n, f, S) \in [1 .. n -> Int]
         /\ Reports!Total(f, S) \in Int
<1>1. DOMAIN f = 1 .. n
  OBVIOUS
<1>2. Reports!Total(f, S) = Reports!Sum(Only(n, f, S))
  BY <1>1 DEF Reports!Total, Only
<1>3. Only(n, f, S) \in [1 .. n -> Int]
  BY DEF Only
<1> QED  BY <1>2, <1>3, SumType

LEMMA TotalOfNone ==
  ASSUME NEW n \in Nat, NEW f \in [1 .. n -> Int], NEW S, \A i \in 1 .. n : i \notin S
  PROVE  Reports!Total(f, S) = 0
<1>1. \A i \in 1 .. n : Only(n, f, S)[i] = 0
  BY DEF Only
<1> QED  BY <1>1, TotalIs, SumOfZeros

LEMMA TotalOfSame ==
  ASSUME NEW n, NEW f, NEW S, NEW T, Numbers(n, f), SamePlaces(n, S, T)
  PROVE  Reports!Total(f, S) = Reports!Total(f, T)
<1>1. Only(n, f, S) = Only(n, f, T)
  BY DEF Only, SamePlaces
<1> QED  BY <1>1, TotalIs DEF Numbers

LEMMA TotalOfAll ==
  ASSUME NEW n \in Nat, NEW f \in [1 .. n -> Int], NEW S, \A i \in 1 .. n : i \in S
  PROVE  Reports!Total(f, S) = Reports!Sum(f)
<1>1. Only(n, f, S) = f
  BY DEF Only
<1> QED  BY <1>1, TotalIs

LEMMA TotalOfBoth ==
  ASSUME NEW n, NEW f, NEW S, NEW T, Numbers(n, f), Apart(n, S, T)
  PROVE  Reports!Total(f, S \cup T) = Reports!Total(f, S) + Reports!Total(f, T)
<1> DEFINE a == Only(n, f, S)
           b == Only(n, f, T)
           c == Only(n, f, S \cup T)
<1>1. /\ a \in [1 .. n -> Int] /\ b \in [1 .. n -> Int] /\ c \in [1 .. n -> Int]
      /\ Reports!Total(f, S) = Reports!Sum(a) /\ Reports!Total(f, T) = Reports!Sum(b)
      /\ Reports!Total(f, S \cup T) = Reports!Sum(c)
  BY TotalIs DEF Numbers
<1>2. \A i \in 1 .. n : c[i] = a[i] + b[i]
  BY DEF Only, Numbers, Apart
<1> HIDE DEF a, b, c
<1>3. Reports!Sum(c) = Reports!Sum(a) + Reports!Sum(b)
  BY <1>1, <1>2, SumOfSums DEF Numbers
<1> QED  BY <1>1, <1>3

LEMMA TotalOfOneMore ==
  ASSUME NEW n \in Nat, NEW f \in [1 .. n -> Int], NEW S, NEW k \in 1 .. n, k \notin S
  PROVE  Reports!Total(f, S \cup {k}) = Reports!Total(f, S) + f[k]
<1>1. Reports!Total(f, S \cup {k}) = Reports!Total(f, S) + Reports!Total(f, {k})
  <2>1. Numbers(n, f) /\ Apart(n, S, {k})
    BY DEF Numbers, Apart
  <2> QED  BY <2>1, TotalOfBoth
<1> DEFINE a == Only(n, f, {k})
<1>2. a \in [1 .. n -> Int] /\ Reports!Total(f, {k}) = Reports!Sum(a)
  BY TotalIs
<1>3. a[k] = f[k] /\ \A i \in 1 .. n : i # k => a[i] = 0
  BY DEF Only
<1> HIDE DEF a
<1>4. Reports!Sum(a) = a[k]
  BY <1>2, <1>3, SumOfOne
<1> QED  BY <1>1, <1>2, <1>3, <1>4

\* t has the totals of the numbers f of each class, g being the classes.
ByClass(n, p, f, g, t) ==
  /\ Numbers(n, f) /\ Numbers(p, t) /\ g \in [1 .. n -> 1 .. p]
  /\ \A k \in 1 .. p : t[k] = Reports!Total(f, {i \in 1 .. n : g[i] = k})

\* The sum of the classes' totals is that of all numbers.
LEMMA SumByClass ==
  ASSUME NEW n, NEW p, NEW f, NEW g, NEW t, ByClass(n, p, f, g, t)
  PROVE  Reports!Sum(t) = Reports!Sum(f)
<1> DEFINE Class(k) == {i \in 1 .. n : g[i] = k}
           Below(k) == {i \in 1 .. n : g[i] <= k}
           R == [k \in 0 .. p |-> Reports!Total(f, Below(k))]
<1> USE DEF Numbers
<1>1. \A i \in 1 .. n : g[i] \in Nat /\ 1 <= g[i] /\ g[i] <= p
  BY DEF ByClass
<1> n \in Nat /\ p \in Nat /\ f \in [1 .. n -> Int] /\ t \in [1 .. p -> Int]
  BY DEF ByClass
<1>2. R \in [0 .. p -> Int]
  BY TotalIs
<1>3. R[0] = 0
  <2>1. \A i \in 1 .. n : i \notin Below(0)
    BY <1>1
  <2>2. Reports!Total(f, Below(0)) = 0
    <3> HIDE DEF Below
    <3> QED  BY <2>1, TotalOfNone
  <2> QED  BY <2>2
<1>4. R[p] = Reports!Sum(f)
  <2>1. \A i \in 1 .. n : i \in Below(p)
    BY <1>1
  <2>2. Reports!Total(f, Below(p)) = Reports!Sum(f)
    <3> HIDE DEF Below
    <3> QED  BY <2>1, TotalOfAll
  <2> QED  BY <2>2
<1>5. ASSUME NEW k \in 1 .. p PROVE R[k] = R[k - 1] + t[k]
  <2>1. k \in 0 .. p /\ k - 1 \in 0 .. p /\ k \in Nat
    OBVIOUS
  <2>2. R[k] = Reports!Total(f, Below(k)) /\ R[k - 1] = Reports!Total(f, Below(k - 1))
    BY <2>1
  <2> DEFINE A == Below(k - 1)
             B == Class(k)
             C == Below(k)
  <2>3. SamePlaces(n, C, A \cup B)
    BY <1>1, <2>1 DEF SamePlaces
  <2>4. Apart(n, A, B)
    BY <1>1, <2>1 DEF Apart
  <2>5. t[k] = Reports!Total(f, B)
    BY DEF ByClass
  <2>6. R[k] = Reports!Total(f, C) /\ R[k - 1] = Reports!Total(f, A)
    BY <2>2
  <2> HIDE DEF R, A, B, C
  <2>7. Reports!Total(f, C) = Reports!Total(f, A \cup B)
    BY <2>3, TotalOfSame
  <2>8. Reports!Total(f, A \cup B) = Reports!Total(f, A) + Reports!Total(f, B)
    BY <2>4, TotalOfBoth
  <2> QED  BY <2>5, <2>6, <2>7, <2>8
<1>6. Partial(R, p, t)
  <2> HIDE DEF R
  <2> QED  BY <1>2, <1>3, <1>5 DEF Partial
<1>7. Reports!Sum(t) = R[p]
  BY <1>6, SumIs
<1> QED  BY <1>4, <1>7

-----------------------------------------------------------------------------
(* Reports: the tables, and revenues.                                        *)

Row == [sym : Symbols, op : {"buy", "sell"}, qty : Quantities, day : Reports!Calendar]
Transaction == [day : Reports!Calendar, amount : Amounts]

\* Rows are in the order of their days.
TablesInv ==
  /\ today \in Reports!Calendar
  /\ new_trades \in Seq(Row)
  /\ \A i \in 1 .. Len(new_trades) : new_trades[i].day <= today
  /\ \A i, j \in 1 .. Len(new_trades) : i <= j => new_trades[i].day <= new_trades[j].day
  /\ account_transactions \in Seq(Transaction)

LEMMA ReportNumbers ==
  /\ LastDay \in Nat /\ Reports!Calendar = 0 .. LastDay
  /\ \A q \in Quantities : q \in Nat /\ q # 0
  /\ \A a \in Amounts : a \in Int
  /\ PortfolioSize \in Nat /\ None \notin Nat
  BY ReportsAssumption DEF Reports!ConstantsAssumption, Reports!Calendar

LEMMA TablesInit == Reports!Init => TablesInv
<1> SUFFICES ASSUME Reports!Init PROVE TablesInv
  OBVIOUS
<1>1. today = 0 /\ new_trades = <<>> /\ account_transactions = <<>>
  BY DEF Reports!Init
<1>2. <<>> \in Seq(Row) /\ <<>> \in Seq(Transaction) /\ Len(<<>>) = 0
  OBVIOUS
<1>3. 0 \in Reports!Calendar
  BY ReportNumbers
<1>4. 1 .. 0 = {}
  OBVIOUS
<1> QED  BY <1>1, <1>2, <1>3, <1>4 DEF TablesInv

LEMMA TablesStep == TablesInv /\ [Reports!Next]_(Reports!vars) => TablesInv'
<1> SUFFICES ASSUME TablesInv, [Reports!Next]_(Reports!vars) PROVE TablesInv'
  OBVIOUS
<1>1. /\ new_trades \in Seq(Row) /\ Len(new_trades) \in Nat
      /\ today \in Int /\ today \in Reports!Calendar
      /\ account_transactions \in Seq(Transaction)
  BY ReportNumbers DEF TablesInv
<1>2. \A i \in 1 .. Len(new_trades) : new_trades[i].day \in Int
  <2>1. \A i \in 1 .. Len(new_trades) : new_trades[i] \in Row
    BY <1>1
  <2> QED  BY <2>1, ReportNumbers DEF Row
<1>3. CASE UNCHANGED Reports!vars
  BY <1>3 DEF TablesInv, Reports!vars
<1>4. CASE Reports!NextDay
  <2>1. today' = today + 1 /\ new_trades' = new_trades
        /\ account_transactions' = account_transactions /\ today < LastDay
    BY <1>4 DEF Reports!NextDay
  <2>2. today' \in Reports!Calendar
    BY <1>1, <2>1, ReportNumbers
  <2>3. \A i \in 1 .. Len(new_trades) : new_trades[i].day <= today'
    <3>1. \A i \in 1 .. Len(new_trades) : new_trades[i].day <= today
      BY DEF TablesInv
    <3> QED  BY <1>1, <1>2, <2>1, <3>1
  <2> QED  BY <2>1, <2>2, <2>3 DEF TablesInv
<1>5. ASSUME NEW s \in Symbols, NEW op \in {"buy", "sell"}, NEW q \in Quantities,
             Reports!Trade(s, op, q)
      PROVE  TablesInv'
  <2> DEFINE row == [sym |-> s, op |-> op, qty |-> q, day |-> today]
             n == Len(new_trades)
  <2>1. row \in Row
    BY <1>1 DEF Row
  <2>2. /\ new_trades' = Append(new_trades, row)
        /\ today' = today /\ account_transactions' = account_transactions
    BY <1>5 DEF Reports!Trade
  <2>3. /\ new_trades' \in Seq(Row) /\ Len(new_trades') = n + 1
        /\ \A i \in 1 .. n : new_trades'[i] = new_trades[i]
        /\ new_trades'[n + 1] = row
    BY <1>1, <2>1, <2>2, AppendProperties
  <2>4. row.day = today
    OBVIOUS
  <2> HIDE DEF row
  <2>5. \A i \in 1 .. n + 1 : i \in 1 .. n \/ i = n + 1
    BY <1>1
  <2>6. \A i \in 1 .. n : new_trades[i].day <= today
    BY DEF TablesInv
  <2>7. \A i \in 1 .. n + 1 : new_trades'[i].day <= today
    BY <1>1, <2>3, <2>4, <2>5, <2>6
  <2>8. ASSUME NEW i \in 1 .. n + 1, NEW j \in 1 .. n + 1, i <= j
        PROVE  new_trades'[i].day <= new_trades'[j].day
    <3>1. CASE j \in 1 .. n
      <4>1. i \in 1 .. n
        BY <1>1, <2>8, <3>1
      <4> QED  BY <2>3, <2>8, <3>1, <4>1 DEF TablesInv
    <3>2. CASE j = n + 1
      BY <2>3, <2>4, <2>7, <3>2
    <3> QED  BY <2>5, <3>1, <3>2
  <2> QED  BY <1>1, <2>2, <2>3, <2>7, <2>8 DEF TablesInv
<1>6. ASSUME NEW a \in Amounts, Reports!Transact(a) PROVE TablesInv'
  <2>1. [day |-> today, amount |-> a] \in Transaction
    BY <1>1 DEF Transaction
  <2>2. /\ account_transactions' = Append(account_transactions, [day |-> today, amount |-> a])
        /\ today' = today /\ new_trades' = new_trades
    BY <1>6 DEF Reports!Transact
  <2>3. account_transactions' \in Seq(Transaction)
    BY <1>1, <2>1, <2>2, AppendProperties
  <2> QED  BY <2>2, <2>3 DEF TablesInv
<1> QED  BY <1>3, <1>4, <1>5, <1>6 DEF Reports!Next

\* The columns of the trades.
LEMMA TradesAre ==
  ASSUME TablesInv
  PROVE  LET n == Len(new_trades)
         IN /\ n \in Nat /\ DOMAIN new_trades = 1 .. n
            /\ \A i \in 1 .. n : /\ new_trades[i] \in Row /\ new_trades[i].sym \in Symbols
                                 /\ new_trades[i].op \in {"buy", "sell"}
                                 /\ new_trades[i].qty \in Nat /\ new_trades[i].qty # 0
                                 /\ new_trades[i].day \in 0 .. LastDay
            /\ Reports!Deltas \in [1 .. n -> Int]
            /\ Reports!Quantity \in [1 .. n -> Int]
            /\ \A i \in 1 .. n : /\ Reports!Deltas[i] = Reports!Delta(new_trades[i])
                                 /\ Reports!Quantity[i] = Reports!Signed(new_trades[i])
<1> DEFINE n == Len(new_trades)
<1>1. n \in Nat /\ DOMAIN new_trades = 1 .. n /\ \A i \in 1 .. n : new_trades[i] \in Row
  BY DEF TablesInv
<1>2. \A i \in 1 .. n : /\ new_trades[i].sym \in Symbols
                        /\ new_trades[i].op \in {"buy", "sell"}
                        /\ new_trades[i].qty \in Nat /\ new_trades[i].qty # 0
                        /\ new_trades[i].day \in 0 .. LastDay
  BY <1>1, ReportNumbers DEF Row
<1>3. \A i \in 1 .. n : Reports!Amount(new_trades[i]) \in Int
  <2>1. \A q \in Nat : \A d \in 0 .. LastDay : q * (d + 1) \in Int
    BY ReportNumbers
  <2> QED  BY <1>2, <2>1 DEF Reports!Amount, Reports!Price
<1>4. \A i \in 1 .. n : /\ Reports!Delta(new_trades[i]) \in Int
                        /\ Reports!Signed(new_trades[i]) \in Int
  BY <1>2, <1>3 DEF Reports!Delta, Reports!Signed
<1>5. Reports!Deltas = [i \in 1 .. n |-> Reports!Delta(new_trades[i])]
  BY <1>1 DEF Reports!Deltas
<1>6. Reports!Quantity = [i \in 1 .. n |-> Reports!Signed(new_trades[i])]
  BY <1>1 DEF Reports!Quantity
<1> HIDE DEF n
<1> QED  BY <1>1, <1>2, <1>4, <1>5, <1>6 DEF n

\* The days' revenues are those of all trades, and so are the symbols'.
LEMMA RevenueByDay ==
  ASSUME TablesInv
  PROVE  Reports!Sum([i \in 1 .. LastDay + 1 |-> Reports!PortfolioReturn[i - 1].revenue])
           = Reports!Sum(Reports!Deltas)
<1> DEFINE n == Len(new_trades)
           f == Reports!Deltas
           g == [i \in 1 .. n |-> new_trades[i].day + 1]
           t == [i \in 1 .. LastDay + 1 |-> Reports!PortfolioReturn[i - 1].revenue]
<1>1. /\ n \in Nat /\ DOMAIN new_trades = 1 .. n /\ f \in [1 .. n -> Int]
      /\ \A i \in 1 .. n : new_trades[i].day \in 0 .. LastDay
  BY TradesAre
<1>2. LastDay \in Nat /\ LastDay + 1 \in Nat
  BY ReportNumbers
<1>3. g \in [1 .. n -> 1 .. LastDay + 1]
  BY <1>1, <1>2
<1>4. \A k \in 1 .. LastDay + 1 : t[k] = Reports!Total(f, {i \in 1 .. n : g[i] = k})
  <2> SUFFICES ASSUME NEW k \in 1 .. LastDay + 1
               PROVE  t[k] = Reports!Total(f, {i \in 1 .. n : g[i] = k})
    OBVIOUS
  <2>1. k - 1 \in Reports!Calendar
    BY <1>2, ReportNumbers
  <2>2. t[k] = Reports!Total(f, Reports!TradesOn(k - 1))
    BY <2>1 DEF Reports!PortfolioReturn
  <2>3. Reports!TradesOn(k - 1) = {i \in 1 .. n : new_trades[i].day = k - 1}
    BY <1>1 DEF Reports!TradesOn
  <2>4. \A i \in 1 .. n : new_trades[i].day = k - 1 <=> g[i] = k
    BY <1>1, <1>2
  <2>5. Reports!TradesOn(k - 1) = {i \in 1 .. n : g[i] = k}
    BY <2>3, <2>4
  <2> QED  BY <2>2, <2>5
<1>5. t = [k \in 1 .. LastDay + 1 |-> t[k]]
  OBVIOUS
<1> HIDE DEF t, f, g, n
<1>6. t \in [1 .. LastDay + 1 -> Int]
  <2>1. \A S : Reports!Total(f, S) \in Int
    BY <1>1, TotalIs
  <2>2. \A k \in 1 .. LastDay + 1 : t[k] \in Int
    BY <1>4, <2>1
  <2> QED  BY <1>5, <2>2
<1>7. Reports!Sum(t) = Reports!Sum(f)
  <2>1. ByClass(n, LastDay + 1, f, g, t)
    BY <1>1, <1>2, <1>3, <1>4, <1>6 DEF ByClass, Numbers
  <2> QED  BY <2>1, SumByClass
<1> QED  BY <1>7 DEF t, f

LEMMA RevenueBySymbol ==
  ASSUME TablesInv
  PROVE  Reports!Sum(Reports!Revenues) = Reports!Sum(Reports!Deltas)
<1> DEFINE n == Len(new_trades)
           f == Reports!Deltas
           Same(i) == {j \in 1 .. n : new_trades[j].sym = new_trades[i].sym}
           g == [i \in 1 .. n |-> Chart!Min(Same(i))]
           t == Reports!Revenues
<1>1. n \in Nat /\ DOMAIN new_trades = 1 .. n /\ f \in [1 .. n -> Int]
  BY TradesAre
<1>2. \A i \in 1 .. n : Reports!TradesOf(new_trades[i].sym) = Same(i)
  BY <1>1 DEF Reports!TradesOf
<1>3. \A i \in 1 .. n : /\ g[i] \in 1 .. n /\ g[i] \in Same(i)
                        /\ \A j \in Same(i) : g[i] <= j
  <2> SUFFICES ASSUME NEW i \in 1 .. n
               PROVE  /\ g[i] \in Same(i) /\ Same(i) \subseteq 1 .. n
                      /\ \A j \in Same(i) : g[i] <= j
    OBVIOUS
  <2>1. g[i] = Chart!Min(Same(i))
    OBVIOUS
  <2>2. Same(i) \in SUBSET (1 .. n) /\ i \in Same(i)
    OBVIOUS
  <2> HIDE DEF Same, g
  <2>3. Bounded(Same(i))
    BY <1>1, <2>2, PlacesBounded
  <2> QED  BY <2>1, <2>2, <2>3, Extremes
<1>4. g \in [1 .. n -> 1 .. n]
  <2>1. g = [i \in 1 .. n |-> g[i]]
    OBVIOUS
  <2> HIDE DEF g
  <2> QED  BY <1>3, <2>1
<1>5. \A i, k \in 1 .. n : k \in Same(i) => Same(k) = Same(i)
  OBVIOUS
<1>6. \A k \in 1 .. n : k \in Reports!FirstTrades <=> \A j \in Same(k) : k <= j
  BY <1>1, <1>2 DEF Reports!FirstTrades
<1>7. t = [k \in 1 .. n |->
             IF k \in Reports!FirstTrades THEN Reports!Total(f, Same(k)) ELSE 0]
  BY <1>1, <1>2 DEF Reports!Revenues, Reports!BatchRevenue
<1>8. \A i \in 1 .. n : i \in Same(i) /\ Same(i) \in SUBSET (1 .. n)
  OBVIOUS
<1> HIDE DEF g, Same, f
<1>9. ASSUME NEW k \in 1 .. n
      PROVE  t[k] = Reports!Total(f, {i \in 1 .. n : g[i] = k})
  <2>1. CASE k \in Reports!FirstTrades
    <3>1. \A i \in 1 .. n : g[i] = k <=> i \in Same(k)
      <4>1. ASSUME NEW i \in 1 .. n, g[i] = k PROVE i \in Same(k)
        BY <1>3, <1>5, <1>8, <4>1
      <4>2. ASSUME NEW i \in 1 .. n, i \in Same(k) PROVE g[i] = k
        <5>1. Same(i) = Same(k)
          BY <1>5, <4>2
        <5>2. g[i] \in Same(k) /\ g[i] <= k /\ g[i] \in 1 .. n
          BY <1>3, <1>8, <5>1
        <5>3. k <= g[i]
          BY <1>6, <2>1, <5>2
        <5> QED  BY <5>2, <5>3
      <4> QED  BY <4>1, <4>2
    <3>2. {i \in 1 .. n : g[i] = k} = Same(k)
      BY <1>8, <3>1
    <3> QED  BY <1>7, <2>1, <3>2
  <2>2. CASE k \notin Reports!FirstTrades
    <3>1. \A i \in 1 .. n : g[i] # k
      <4> SUFFICES ASSUME NEW i \in 1 .. n, g[i] = k PROVE FALSE
        OBVIOUS
      <4>1. k \in Same(i) /\ \A j \in Same(i) : k <= j
        BY <1>3
      <4>2. Same(k) = Same(i)
        BY <1>5, <4>1
      <4> QED  BY <1>6, <2>2, <4>1, <4>2
    <3> DEFINE E == {i \in 1 .. n : g[i] = k}
    <3>2. \A i \in 1 .. n : i \notin E
      BY <3>1
    <3> HIDE DEF E
    <3>3. Reports!Total(f, E) = 0
      BY <1>1, <3>2, TotalOfNone
    <3> QED  BY <1>7, <2>2, <3>3 DEF E
  <2> QED  BY <2>1, <2>2
<1>10. t \in [1 .. n -> Int]
  <2>1. \A k \in 1 .. n : Reports!Total(f, Same(k)) \in Int
    BY <1>1, TotalIs
  <2> QED  BY <1>7, <2>1
<1>11. ByClass(n, n, f, g, t)
  <2> HIDE DEF t, n
  <2> QED  BY <1>1, <1>4, <1>9, <1>10 DEF ByClass, Numbers
<1> HIDE DEF t, n
<1>12. Reports!Sum(t) = Reports!Sum(f)
  BY <1>11, SumByClass
<1> QED  BY <1>12 DEF t, f

-----------------------------------------------------------------------------
(* Reports: consolidated trades.                                             *)
\* What consolidate.trades makes of the sets of rows up to n.
IsConsolidation(F, n, rows) ==
  F = [s \in SUBSET (1 .. n) |->
         IF s = {} THEN Reports!NoneConsolidated
         ELSE Reports!Consolidate(F[s \ {Reports!Max(s)}], rows[Reports!Max(s)])]

LEMMA ConsolidationExists ==
  ASSUME NEW rows, NEW n \in Nat
  PROVE  \E F : IsConsolidation(F, n, rows)
<1> DEFINE Bad == {m \in Nat : ~\E F : IsConsolidation(F, m, rows)}
<1> SUFFICES ASSUME Bad # {} PROVE FALSE
  OBVIOUS
<1>1. PICK m \in Bad : \A k \in Bad : m <= k
  BY Least
<1>2. m # 0
  <2> DEFINE F == [s \in SUBSET (1 .. 0) |-> Reports!NoneConsolidated]
  <2>1. SUBSET (1 .. 0) = {{}}
    OBVIOUS
  <2>2. IsConsolidation(F, 0, rows)
    BY <2>1 DEF IsConsolidation
  <2> QED  BY <2>2
<1>3. m \in Nat /\ m - 1 \in Nat /\ m - 1 \notin Bad
  BY <1>1, <1>2
<1>4. PICK F : IsConsolidation(F, m - 1, rows)
  BY <1>3
<1> DEFINE G == [s \in SUBSET (1 .. m) |->
                   IF m \in s THEN Reports!Consolidate(F[s \ {m}], rows[m]) ELSE F[s]]
<1>5. ASSUME NEW s \in SUBSET (1 .. m)
      PROVE  G[s] = IF s = {} THEN Reports!NoneConsolidated
                    ELSE Reports!Consolidate(G[s \ {Reports!Max(s)}], rows[Reports!Max(s)])
  <2>1. CASE m \in s
    <3>1. Reports!Max(s) = m /\ s # {} /\ s \ {m} \in SUBSET (1 .. m) /\ m \notin s \ {m}
      BY <1>3, <2>1, MaxIsLast
    <3>2. G[s] = Reports!Consolidate(F[s \ {m}], rows[m]) /\ G[s \ {m}] = F[s \ {m}]
      BY <2>1, <3>1
    <3> QED  BY <3>1, <3>2
  <2>2. CASE m \notin s
    <3> DEFINE t == s \ {Reports!Max(s)}
    <3>1. s \in SUBSET (1 .. m - 1) /\ t \in SUBSET s
      BY <1>2, <1>3, <2>2, BelowIs
    <3>2. t \in SUBSET (1 .. m) /\ m \notin t
      BY <2>2, <3>1
    <3>3. G[s] = F[s] /\ G[t] = F[t]
      BY <2>2, <3>2
    <3>4. F[s] = IF s = {} THEN Reports!NoneConsolidated ELSE Reports!Consolidate(F[t], rows[Reports!Max(s)])
      BY <1>4, <3>1 DEF IsConsolidation
    <3> QED  BY <3>3, <3>4
  <2> QED  BY <2>1, <2>2
<1>6. IsConsolidation(G, m, rows)
  <2>1. G = [s \in SUBSET (1 .. m) |-> G[s]]
    OBVIOUS
  <2> HIDE DEF G
  <2> QED  BY <1>5, <2>1 DEF IsConsolidation
<1>7. m \notin Bad
  BY <1>6
<1> QED  BY <1>1, <1>7

\* Of rows that were all consolidated there is one symbol and one round trip.
\* After k rows:
OneTrip(acc, k) ==
  \E qty \in Int, status \in {"open", "close"} :
    /\ acc.gain_loss = <<[sym |-> new_trades[1].sym,
                          gain |-> Reports!Total(Reports!Deltas, 1 .. k)]>>
    /\ acc.analysis = <<[sym |-> new_trades[1].sym,
                         gain |-> Reports!Total(Reports!Deltas, 1 .. k), qty |-> qty,
                         status |-> status, opened_by |-> new_trades[1].op]>>
    /\ status = "close" => qty = 0
    /\ new_trades[1].op = "buy" => qty = Reports!Total(Reports!Quantity, 1 .. k)
    /\ \A i \in 1 .. k : new_trades[i].sym = new_trades[1].sym

\* The library's search in a list of none and in a list of one.
LEMMA SearchNone ==
  ASSUME NEW s
  PROVE  /\ Reports!OpenTrip(<<>>, s) = 0
         /\ Reports!SelectInSeq(<<>>, LAMBDA g : g.sym = s) = 0
<1>1. 1 .. Len(<<>>) = {}
  OBVIOUS
<1> QED  BY <1>1 DEF Reports!OpenTrip, Reports!SelectInSeq

LEMMA SearchOne ==
  ASSUME NEW x, NEW s
  PROVE  /\ Reports!OpenTrip(<<x>>, s) = IF Reports!IsOpen(x, s) THEN 1 ELSE 0
         /\ Reports!SelectInSeq(<<x>>, LAMBDA g : g.sym = s) = IF x.sym = s THEN 1 ELSE 0
<1>1. Len(<<x>>) = 1 /\ <<x>>[1] = x /\ 1 .. 1 = {1}
  OBVIOUS
<1>2. Reports!Min({1}) = 1
  BY DEF Reports!Min
<1>3. {i \in 1 .. Len(<<x>>) : Reports!IsOpen(<<x>>[i], s)}
        = IF Reports!IsOpen(x, s) THEN {1} ELSE {}
  BY <1>1
<1>4. {i \in 1 .. Len(<<x>>) : <<x>>[i].sym = s} = IF x.sym = s THEN {1} ELSE {}
  BY <1>1
<1> QED  BY <1>2, <1>3, <1>4 DEF Reports!OpenTrip, Reports!SelectInSeq

LEMMA GainedIs ==
  ASSUME NEW row, NEW s, NEW gain
  PROVE  LET g == [sym |-> s, gain |-> gain]
         IN /\ Reports!Gained(<<>>, row) = <<[sym |-> row.sym, gain |-> Reports!Delta(row)]>>
            /\ s = row.sym =>
                 Reports!Gained(<<g>>, row) = <<[sym |-> s, gain |-> gain + Reports!Delta(row)]>>
            /\ s # row.sym => Len(Reports!Gained(<<g>>, row)) = 2
<1> DEFINE g == [sym |-> s, gain |-> gain]
           new == [sym |-> row.sym, gain |-> Reports!Delta(row)]
<1>0. /\ Len(<<g>>) = 1 /\ <<g>>[1] = g /\ g.sym = s /\ 1 .. 1 = {1}
      /\ Reports!Min({1}) = 1
  BY DEF Reports!Min
<1>1. Reports!Gained(<<>>, row) = <<new>>
  <2>1. {i \in 1 .. Len(<<>>) : <<>>[i].sym = row.sym} = {}
    OBVIOUS
  <2>2. Reports!Gained(<<>>, row) = Append(<<>>, new)
    BY <2>1 DEF Reports!Gained, Reports!SelectInSeq
  <2> HIDE DEF new
  <2> QED  BY <2>2
<1>2. ASSUME s = row.sym
      PROVE  Reports!Gained(<<g>>, row) = <<[sym |-> s, gain |-> gain + Reports!Delta(row)]>>
  <2>1. {i \in 1 .. Len(<<g>>) : <<g>>[i].sym = row.sym} = {1}
    BY <1>0, <1>2
  <2>2. Reports!Gained(<<g>>, row) = [<<g>> EXCEPT ![1].gain = @ + Reports!Delta(row)]
    <3>1. {1} # {} /\ 1 # 0
      OBVIOUS
    <3>2. Reports!Min({i \in 1 .. Len(<<g>>) : <<g>>[i].sym = row.sym}) = 1
      BY <1>0, <2>1
    <3> HIDE DEF g
    <3> QED  BY <2>1, <3>1, <3>2 DEF Reports!Gained, Reports!SelectInSeq
  <2>3. [<<g>> EXCEPT ![1].gain = @ + Reports!Delta(row)]
          = <<[sym |-> s, gain |-> gain + Reports!Delta(row)]>>
    OBVIOUS
  <2> QED  BY <2>2, <2>3
<1>3. ASSUME s # row.sym PROVE Len(Reports!Gained(<<g>>, row)) = 2
  <2>1. {i \in 1 .. Len(<<g>>) : <<g>>[i].sym = row.sym} = {}
    BY <1>0, <1>3
  <2>2. Reports!Gained(<<g>>, row) = Append(<<g>>, new)
    <3> HIDE DEF g
    <3> QED  BY <2>1 DEF Reports!Gained, Reports!SelectInSeq
  <2> HIDE DEF g, new
  <2>3. Len(Append(<<g>>, new)) = 2
    OBVIOUS
  <2> QED  BY <2>2, <2>3
<1> QED  BY <1>1, <1>2, <1>3

LEMMA AnalysedIs ==
  ASSUME NEW row, NEW a
  PROVE  /\ Reports!Analysed(<<>>, row) = <<Reports!Opened(row)>>
         /\ a.sym = row.sym /\ a.status = "open" =>
              Reports!Analysed(<<a>>, row) = <<Reports!Added(a, row)>>
         /\ ~(a.sym = row.sym /\ a.status = "open") => Len(Reports!Analysed(<<a>>, row)) = 2
<1> DEFINE new == Reports!Opened(row)
           i == Reports!OpenTrip(<<a>>, row.sym)
<1>1. Reports!Analysed(<<>>, row) = <<new>>
  <2> HIDE DEF new
  <2>1. Reports!Analysed(<<>>, row) = Append(<<>>, new)
    <3>1. Reports!OpenTrip(<<>>, row.sym) = 0
      BY SearchNone
    <3> QED  BY <3>1 DEF Reports!Analysed, new
  <2> QED  BY <2>1
<1>2. i = IF a.sym = row.sym /\ a.status = "open" THEN 1 ELSE 0
  BY SearchOne DEF Reports!IsOpen
<1>3. Reports!Analysed(<<a>>, row) = IF i = 0 THEN Append(<<a>>, new)
                                     ELSE [<<a>> EXCEPT ![i] = Reports!Added(@, row)]
  BY DEF Reports!Analysed
<1> HIDE DEF new, i
<1>4. Len(Append(<<a>>, new)) = 2
  OBVIOUS
<1>5. [<<a>> EXCEPT ![1] = Reports!Added(@, row)] = <<Reports!Added(a, row)>>
  OBVIOUS
<1>6. CASE a.sym = row.sym /\ a.status = "open"
  <2>1. i = 1 /\ i # 0
    BY <1>2, <1>6
  <2> QED  BY <1>1, <1>3, <1>5, <1>6, <2>1 DEF new
<1>7. CASE ~(a.sym = row.sym /\ a.status = "open")
  <2>1. i = 0
    BY <1>2, <1>7
  <2>2. Reports!Analysed(<<a>>, row) = Append(<<a>>, new)
    BY <1>3, <2>1
  <2> QED  BY <1>1, <1>4, <1>7, <2>2 DEF new
<1> QED  BY <1>6, <1>7

\* The total of the first k numbers.
LEMMA TotalUpto ==
  ASSUME NEW n \in Nat, NEW f \in [1 .. n -> Int], NEW k \in 1 .. n
  PROVE  /\ Reports!Total(f, 1 .. k) = Reports!Total(f, 1 .. k - 1) + f[k]
         /\ Reports!Total(f, 1 .. k) \in Int
         /\ k = 1 => Reports!Total(f, 1 .. k - 1) = 0
<1>1. (1 .. k - 1) \cup {k} = 1 .. k /\ k \notin 1 .. k - 1
  OBVIOUS
<1> DEFINE S == 1 .. k - 1
<1>2. k = 1 => \A i \in 1 .. n : i \notin S
  OBVIOUS
<1>3. S \cup {k} = 1 .. k /\ k \notin S
  BY <1>1
<1> HIDE DEF S
<1>4. Reports!Total(f, S \cup {k}) = Reports!Total(f, S) + f[k]
  BY <1>3, TotalOfOneMore
<1>5. k = 1 => Reports!Total(f, S) = 0
  BY <1>2, TotalOfNone
<1>6. Reports!Total(f, 1 .. k) \in Int
  BY TotalIs
<1> QED  BY <1>3, <1>4, <1>5, <1>6 DEF S

\* One row: the first one of all.
LEMMA FirstTrip ==
  ASSUME TablesInv, 1 \in 1 .. Len(new_trades)
  PROVE  LET acc == Reports!Consolidate(Reports!NoneConsolidated, new_trades[1])
         IN acc.aborted = FALSE /\ OneTrip(acc, 1)
<1> DEFINE n == Len(new_trades)
           row == new_trades[1]
           acc == Reports!Consolidate(Reports!NoneConsolidated, row)
<1>1. /\ n \in Nat /\ row.op \in {"buy", "sell"} /\ row.qty \in Nat
      /\ Reports!Deltas \in [1 .. n -> Int] /\ Reports!Quantity \in [1 .. n -> Int]
      /\ Reports!Deltas[1] = Reports!Delta(row) /\ Reports!Quantity[1] = Reports!Signed(row)
  BY TradesAre
<1>2. /\ Reports!Total(Reports!Deltas, 1 .. 1) = Reports!Delta(row)
      /\ Reports!Total(Reports!Quantity, 1 .. 1) = Reports!Signed(row)
  <2> DEFINE f == Reports!Deltas
             g == Reports!Quantity
  <2> HIDE DEF n, f, g
  <2>1. /\ Reports!Total(f, 1 .. 1) = Reports!Total(f, 1 .. 1 - 1) + f[1]
        /\ Reports!Total(f, 1 .. 1 - 1) = 0
        /\ Reports!Total(g, 1 .. 1) = Reports!Total(g, 1 .. 1 - 1) + g[1]
        /\ Reports!Total(g, 1 .. 1 - 1) = 0
    BY <1>1, TotalUpto DEF n, f, g
  <2>2. f[1] \in Int /\ g[1] \in Int
    BY <1>1 DEF n, f, g
  <2>3. Reports!Total(f, 1 .. 1) = f[1] /\ Reports!Total(g, 1 .. 1) = g[1]
    BY <2>1, <2>2
  <2> QED  BY <1>1, <2>3 DEF f, g
<1>3. /\ acc.gain_loss = <<[sym |-> row.sym, gain |-> Reports!Delta(row)]>>
      /\ acc.analysis = <<Reports!Opened(row)>>
      /\ acc.aborted = FALSE
  <2> DEFINE gl == Reports!Gained(<<>>, row)
             an == Reports!Analysed(<<>>, row)
  <2>1. gl = <<[sym |-> row.sym, gain |-> Reports!Delta(row)]>> /\ an = <<Reports!Opened(row)>>
    BY GainedIs, AnalysedIs
  <2>2. Len(gl) = 1 /\ Len(an) = 1
    BY <2>1
  <2>3. acc = [gain_loss |-> gl, analysis |-> an, aborted |-> Len(gl) > 1 \/ Len(an) > 1]
    BY DEF Reports!Consolidate, Reports!NoneConsolidated
  <2> HIDE DEF gl, an, acc
  <2>4. (Len(gl) > 1 \/ Len(an) > 1) = FALSE
    BY <2>2
  <2>5. acc.gain_loss = gl /\ acc.analysis = an /\ acc.aborted = FALSE
    BY <2>3, <2>4
  <2> QED  BY <2>1, <2>5
<1>4. Reports!Opened(row) = [sym |-> row.sym, gain |-> Reports!Delta(row), qty |-> row.qty,
                             status |-> "open", opened_by |-> row.op]
  BY DEF Reports!Opened
<1>5. row.op = "buy" => row.qty = Reports!Signed(row)
  BY DEF Reports!Signed
<1>6. \A i \in 1 .. 1 : new_trades[i].sym = row.sym
  OBVIOUS
<1> HIDE DEF acc
<1>7. OneTrip(acc, 1)
  <2>1. row.qty \in Int /\ "open" \in {"open", "close"}
    BY <1>1
  <2> QED  BY <1>2, <1>3, <1>4, <1>5, <1>6, <2>1 DEF OneTrip
<1> QED  BY <1>3, <1>7 DEF acc

\* A row more, unless it aborts.
LEMMA NextTrip ==
  ASSUME TablesInv, NEW k \in 2 .. Len(new_trades), NEW acc,
         acc.aborted = FALSE, OneTrip(acc, k - 1)
  PROVE  LET next == Reports!Consolidate(acc, new_trades[k])
         IN next.aborted = TRUE \/ (next.aborted = FALSE /\ OneTrip(next, k))
<1> DEFINE n == Len(new_trades)
           row == new_trades[k]
           first == new_trades[1]
           next == Reports!Consolidate(acc, row)
           f == Reports!Deltas
           q == Reports!Quantity
           gl == Reports!Gained(acc.gain_loss, row)
           an == Reports!Analysed(acc.analysis, row)
<1>1. /\ n \in Nat /\ row.op \in {"buy", "sell"} /\ row.qty \in Nat /\ row.qty # 0
      /\ f \in [1 .. n -> Int] /\ q \in [1 .. n -> Int]
      /\ f[k] = Reports!Delta(row) /\ q[k] = Reports!Signed(row)
  <2>1. k \in 1 .. n
    OBVIOUS
  <2> QED  BY <2>1, TradesAre
<1>2. PICK qty \in Int, status \in {"open", "close"} :
        /\ acc.gain_loss = <<[sym |-> first.sym, gain |-> Reports!Total(f, 1 .. k - 1)]>>
        /\ acc.analysis = <<[sym |-> first.sym, gain |-> Reports!Total(f, 1 .. k - 1),
                             qty |-> qty, status |-> status, opened_by |-> first.op]>>
        /\ status = "close" => qty = 0
        /\ first.op = "buy" => qty = Reports!Total(q, 1 .. k - 1)
        /\ \A i \in 1 .. k - 1 : new_trades[i].sym = first.sym
  BY DEF OneTrip
<1>3. /\ Reports!Total(f, 1 .. k) = Reports!Total(f, 1 .. k - 1) + f[k]
      /\ Reports!Total(q, 1 .. k) = Reports!Total(q, 1 .. k - 1) + q[k]
  <2>1. k \in 1 .. n
    OBVIOUS
  <2> HIDE DEF f, q, n
  <2> QED  BY <1>1, <2>1, TotalUpto
<1>4. next = [gain_loss |-> gl, analysis |-> an, aborted |-> Len(gl) > 1 \/ Len(an) > 1]
  BY DEF Reports!Consolidate
<1> DEFINE x == Reports!Total(f, 1 .. k - 1)
           a == [sym |-> first.sym, gain |-> x, qty |-> qty, status |-> status,
                 opened_by |-> first.op]
<1>5. /\ first.sym = row.sym => gl = <<[sym |-> first.sym, gain |-> x + Reports!Delta(row)]>>
      /\ first.sym # row.sym => Len(gl) = 2
  <2>1. acc.gain_loss = <<[sym |-> first.sym, gain |-> x]>>
    BY <1>2
  <2> HIDE DEF x
  <2> QED  BY <2>1, GainedIs
<1>6. /\ first.sym = row.sym /\ status = "open" => an = <<Reports!Added(a, row)>>
      /\ ~(first.sym = row.sym /\ status = "open") => Len(an) = 2
  <2>1. acc.analysis = <<a>>
    BY <1>2
  <2>2. a.sym = first.sym /\ a.status = status
    OBVIOUS
  <2> HIDE DEF a
  <2>3. an = Reports!Analysed(<<a>>, row)
    BY <2>1
  <2> HIDE DEF an
  <2> QED  BY <2>2, <2>3, AnalysedIs
<1> HIDE DEF gl, an, next
<1> DEFINE long == Len(gl) > 1 \/ Len(an) > 1
<1>7. next.gain_loss = gl /\ next.analysis = an /\ next.aborted = long
  BY <1>4
<1>8. CASE first.sym # row.sym \/ status # "open"
  <2>1. Len(gl) = 2 \/ Len(an) = 2
    BY <1>5, <1>6, <1>8
  <2>2. Len(gl) > 1 \/ Len(an) > 1
    <3>1. 2 > 1
      OBVIOUS
    <3> QED  BY <2>1, <3>1
  <2>4. long = TRUE
    BY <2>2, Zenon
  <2> HIDE DEF long
  <2>3. next.aborted = TRUE
    BY <1>7, <2>4
  <2> QED  BY <2>3 DEF next
<1>9. CASE first.sym = row.sym /\ status = "open"
  <2> DEFINE new == qty + Reports!Signed(row)
             mark == IF new = 0 THEN "close" ELSE "open"
  <2>1. gl = <<[sym |-> first.sym, gain |-> x + f[k]]>> /\ an = <<Reports!Added(a, row)>>
    BY <1>1, <1>5, <1>6, <1>9
  <2>2. (IF row.op = "sell" /\ row.qty > 0 THEN -row.qty ELSE row.qty) = Reports!Signed(row)
        /\ Reports!Signed(row) \in Int
    BY <1>1 DEF Reports!Signed
  <2>3. Reports!Added(a, row) =
          [sym |-> first.sym, gain |-> x + f[k], qty |-> new, status |-> mark,
           opened_by |-> first.op]
    <3>1. Reports!Added(a, row) =
            [a EXCEPT !.gain = @ + f[k], !.qty = new, !.status = mark]
      <4>1. a.qty = qty
        OBVIOUS
      <4> HIDE DEF a, f
      <4> QED  BY <1>1, <2>2, <4>1 DEF Reports!Added, f
    <3> HIDE DEF x, f, new, mark
    <3> QED  BY <3>1
  <2>4. next.aborted = FALSE
    <3>1. Len(gl) = 1 /\ Len(an) = 1
      BY <2>1
    <3>2. long = FALSE
      BY <3>1
    <3> HIDE DEF long
    <3> QED  BY <1>7, <3>2
  <2>5. /\ new \in Int /\ mark \in {"open", "close"} /\ (mark = "close" => new = 0)
        /\ first.op = "buy" => new = Reports!Total(q, 1 .. k)
    BY <1>1, <1>2, <1>3, <2>2
  <2>6. x + f[k] = Reports!Total(f, 1 .. k)
    BY <1>3
  <2>7. \A i \in 1 .. k : new_trades[i].sym = first.sym
    <3>1. \A i \in 1 .. k : i \in 1 .. k - 1 \/ i = k
      OBVIOUS
    <3> QED  BY <1>2, <1>9, <3>1
  <2> HIDE DEF new, mark, x, a
  <2>8. /\ next.gain_loss = <<[sym |-> first.sym, gain |-> Reports!Total(f, 1 .. k)]>>
        /\ next.analysis = <<[sym |-> first.sym, gain |-> Reports!Total(f, 1 .. k),
                              qty |-> new, status |-> mark, opened_by |-> first.op]>>
    BY <1>7, <2>1, <2>3, <2>6
  <2>9. OneTrip(next, k)
    <3> HIDE DEF next
    <3> QED  BY <2>5, <2>7, <2>8 DEF OneTrip, f, q
  <2> QED  BY <2>4, <2>9 DEF next
<1> QED  BY <1>2, <1>8, <1>9

\* The rows that consolidate has seen when it is done.
LEMMA TripOfAll ==
  ASSUME TablesInv
  PROVE  \/ Reports!Consolidated.aborted = TRUE
         \/ Len(new_trades) = 0 /\ Reports!Consolidated = Reports!NoneConsolidated
         \/ /\ Reports!Consolidated.aborted = FALSE
            /\ Len(new_trades) # 0 /\ OneTrip(Reports!Consolidated, Len(new_trades))
<1> DEFINE n == Len(new_trades)
           F == CHOOSE G : IsConsolidation(G, n, new_trades)
           P == [k \in 0 .. n |-> F[1 .. k]]
<1>1. n \in Nat /\ DOMAIN new_trades = 1 .. n
  BY TradesAre
<1>2. IsConsolidation(F, n, new_trades)
  BY <1>1, ConsolidationExists
<1>3. Reports!Consolidated = F[1 .. n]
  BY <1>1 DEF Reports!Consolidated, Reports!FoldLeft, Reports!MapThenFoldSet, IsConsolidation
<1> HIDE DEF F, n
<1>4. F[1 .. 0] = Reports!NoneConsolidated
  <2>1. 1 .. 0 = {} /\ {} \in SUBSET (1 .. n)
    OBVIOUS
  <2>2. F[{}] = Reports!NoneConsolidated
    BY <1>2, <2>1 DEF IsConsolidation
  <2> QED  BY <2>1, <2>2
<1>5. \A k \in 1 .. n : F[1 .. k] = Reports!Consolidate(F[1 .. k - 1], new_trades[k])
  <2> SUFFICES ASSUME NEW k \in 1 .. n
               PROVE  F[1 .. k] = Reports!Consolidate(F[1 .. k - 1], new_trades[k])
    OBVIOUS
  <2>1. /\ 1 .. k \in SUBSET (1 .. n) /\ 1 .. k # {}
        /\ Reports!Max(1 .. k) = k /\ (1 .. k) \ {k} = 1 .. k - 1
    BY <1>1, UptoIs
  <2>2. F[1 .. k] = Reports!Consolidate(F[(1 .. k) \ {Reports!Max(1 .. k)}],
                                        new_trades[Reports!Max(1 .. k)])
    BY <1>2, <2>1 DEF IsConsolidation
  <2> QED  BY <2>1, <2>2
<1>6. P[0] = Reports!NoneConsolidated /\ P[n] = Reports!Consolidated
  BY <1>1, <1>3, <1>4
<1>7. \A k \in 1 .. n : P[k] = Reports!Consolidate(P[k - 1], new_trades[k])
  <2>1. \A k \in 1 .. n : k \in 0 .. n /\ k - 1 \in 0 .. n
    BY <1>1
  <2>2. \A k \in 1 .. n : P[k] = F[1 .. k] /\ P[k - 1] = F[1 .. k - 1]
    BY <2>1
  <2> HIDE DEF P
  <2> QED  BY <1>5, <2>2
<1> HIDE DEF P
<1>8. CASE n = 0
  BY <1>6, <1>8 DEF n
<1>9. CASE n # 0
  <2> DEFINE Good(k) == P[k].aborted = TRUE \/ (P[k].aborted = FALSE /\ OneTrip(P[k], k))
             Bad == {k \in 1 .. n : ~Good(k)}
  <2> SUFFICES ASSUME Bad # {} PROVE FALSE
    <3>1. n \in 1 .. n
      BY <1>1, <1>9
    <3> SUFFICES ASSUME Good(n) PROVE \/ Reports!Consolidated.aborted = TRUE
                                      \/ /\ Reports!Consolidated.aborted = FALSE
                                         /\ OneTrip(Reports!Consolidated, n)
      BY <1>9, <3>1 DEF n
    <3> QED  BY <1>6
  <2>1. Bad \in SUBSET Nat
    OBVIOUS
  <2>2. PICK k \in Bad : \A j \in Bad : k <= j
    <3> HIDE DEF Bad
    <3> QED  BY <2>1, Least
  <2>3. k \in 1 .. n /\ ~Good(k)
    BY <2>2
  <2>4. CASE k = 1
    <3>1. P[1] = Reports!Consolidate(Reports!NoneConsolidated, new_trades[1])
      <4>1. P[1] = Reports!Consolidate(P[1 - 1], new_trades[1])
        BY <1>7, <2>3, <2>4
      <4> QED  BY <1>6, <4>1
    <3>2. P[1].aborted = FALSE /\ OneTrip(P[1], 1)
      BY <2>3, <2>4, <3>1, FirstTrip DEF n
    <3> QED  BY <2>3, <2>4, <3>2
  <2>5. CASE k # 1
    <3>1. k \in 2 .. n /\ k - 1 \in 1 .. n
      BY <1>1, <2>3, <2>5
    <3>2. Good(k - 1)
      <4>1. k - 1 \notin Bad
        <5> HIDE DEF Bad
        <5> QED  BY <2>2, <3>1
      <4> QED  BY <3>1, <4>1
    <3>3. P[k] = Reports!Consolidate(P[k - 1], new_trades[k])
      BY <1>7, <2>3
    <3>4. CASE P[k - 1].aborted = TRUE
      <4>1. P[k] = P[k - 1]
        BY <3>3, <3>4 DEF Reports!Consolidate
      <4> QED  BY <2>3, <3>4, <4>1
    <3>5. CASE P[k - 1].aborted = FALSE /\ OneTrip(P[k - 1], k - 1)
      <4> DEFINE acc == P[k - 1]
                 next == P[k]
      <4>1. acc.aborted = FALSE /\ OneTrip(acc, k - 1) /\ k \in 2 .. Len(new_trades)
        BY <3>1, <3>5 DEF n
      <4>2. next = Reports!Consolidate(acc, new_trades[k])
        BY <3>3
      <4> HIDE DEF acc, next
      <4>3. next.aborted = TRUE \/ (next.aborted = FALSE /\ OneTrip(next, k))
        BY <4>1, <4>2, NextTrip
      <4> QED  BY <2>3, <4>3 DEF next
    <3> QED  BY <3>2, <3>4, <3>5
  <2> QED  BY <2>4, <2>5
<1> QED  BY <1>8, <1>9

\* Saved round trips are the whole batch's.
LEMMA SavedIsBatch ==
  ASSUME TablesInv, NEW i \in Reports!SavedTrips
  PROVE  LET trip == Reports!Consolidated.analysis[i]
         IN /\ Reports!SavedTrips = {i} /\ Reports!SymbolsTraded = {trip.sym}
            /\ trip.gain = Reports!BatchRevenue(trip.sym)
            /\ trip.opened_by = "buy" => Reports!SymbolState(trip.sym) = 0
<1> DEFINE n == Len(new_trades)
           all == Reports!Consolidated
           first == new_trades[1]
           f == Reports!Deltas
           q == Reports!Quantity
<1>1. /\ i \in DOMAIN all.analysis /\ ~all.aborted /\ all.analysis[i].status = "close"
      /\ \A j : j \in Reports!SavedTrips => j \in DOMAIN all.analysis
  BY DEF Reports!SavedTrips
<1>2. n # 0 /\ OneTrip(all, n)
  <2>1. ASSUME all = Reports!NoneConsolidated PROVE FALSE
    <3>1. all.analysis = <<>>
      BY <2>1 DEF Reports!NoneConsolidated
    <3>2. DOMAIN <<>> = {}
      OBVIOUS
    <3> QED  BY <1>1, <3>1, <3>2
  <2> QED  BY <1>1, <2>1, TripOfAll
<1>3. /\ n \in Nat /\ DOMAIN new_trades = 1 .. n
      /\ f \in [1 .. n -> Int] /\ q \in [1 .. n -> Int]
  BY TradesAre
<1>4. PICK qty \in Int, status \in {"open", "close"} :
        /\ all.analysis = <<[sym |-> first.sym, gain |-> Reports!Total(f, 1 .. n),
                             qty |-> qty, status |-> status, opened_by |-> first.op]>>
        /\ status = "close" => qty = 0
        /\ first.op = "buy" => qty = Reports!Total(q, 1 .. n)
        /\ \A j \in 1 .. n : new_trades[j].sym = first.sym
  BY <1>2 DEF OneTrip
<1> DEFINE trip == [sym |-> first.sym, gain |-> Reports!Total(f, 1 .. n), qty |-> qty,
                    status |-> status, opened_by |-> first.op]
<1>5. DOMAIN all.analysis = {1} /\ all.analysis[1] = trip
  <2>1. all.analysis = <<trip>>
    BY <1>4
  <2> HIDE DEF trip, all
  <2>2. DOMAIN <<trip>> = {1} /\ <<trip>>[1] = trip
    OBVIOUS
  <2> QED  BY <2>1, <2>2
<1>6. i = 1 /\ Reports!SavedTrips = {i}
  BY <1>1, <1>5
<1>7. trip.status = "close" /\ status = "close" /\ qty = 0
  BY <1>1, <1>4, <1>5, <1>6
<1>8. Reports!SymbolsTraded = {first.sym}
  <2>1. 1 \in 1 .. n
    BY <1>2, <1>3
  <2> QED  BY <1>3, <1>4, <2>1 DEF Reports!SymbolsTraded
<1>9. Reports!TradesOf(first.sym) = 1 .. n
  BY <1>3, <1>4 DEF Reports!TradesOf
<1>10. Reports!BatchRevenue(first.sym) = Reports!Total(f, 1 .. n)
  BY <1>9 DEF Reports!BatchRevenue
<1>11. Reports!SymbolState(first.sym) = Reports!Total(q, 1 .. n)
  BY <1>9 DEF Reports!SymbolState
<1>12. /\ trip.sym = first.sym /\ trip.gain = Reports!Total(f, 1 .. n)
       /\ trip.opened_by = first.op
  OBVIOUS
<1> HIDE DEF trip, all
<1> QED  BY <1>4, <1>5, <1>6, <1>7, <1>8, <1>10, <1>11, <1>12 DEF all

-----------------------------------------------------------------------------
(* Reports: equity.                                                          *)
\* One more row: only those of a symbol count.
WalkedOn(acc, row, sym) == IF row.sym = sym THEN Reports!Walk(acc, row) ELSE acc

\* What calc_symbol_trades_returns makes of the sets of rows up to n.
IsWalking(F, n, rows, sym, none) ==
  F = [s \in SUBSET (1 .. n) |->
         IF s = {} THEN none
         ELSE WalkedOn(F[s \ {Reports!Max(s)}], rows[Reports!Max(s)], sym)]

LEMMA WalkingExists ==
  ASSUME NEW rows, NEW n \in Nat, NEW sym, NEW none
  PROVE  \E F : IsWalking(F, n, rows, sym, none)
<1> DEFINE Bad == {m \in Nat : ~\E F : IsWalking(F, m, rows, sym, none)}
<1> SUFFICES ASSUME Bad # {} PROVE FALSE
  OBVIOUS
<1>1. PICK m \in Bad : \A k \in Bad : m <= k
  BY Least
<1>2. m # 0
  <2> DEFINE F == [s \in SUBSET (1 .. 0) |-> none]
  <2>1. SUBSET (1 .. 0) = {{}}
    OBVIOUS
  <2>2. IsWalking(F, 0, rows, sym, none)
    BY <2>1 DEF IsWalking
  <2> QED  BY <2>2
<1>3. m \in Nat /\ m - 1 \in Nat /\ m - 1 \notin Bad
  BY <1>1, <1>2
<1>4. PICK F : IsWalking(F, m - 1, rows, sym, none)
  BY <1>3
<1> DEFINE G == [s \in SUBSET (1 .. m) |->
                   IF m \in s THEN WalkedOn(F[s \ {m}], rows[m], sym) ELSE F[s]]
<1>5. ASSUME NEW s \in SUBSET (1 .. m)
      PROVE  G[s] = IF s = {} THEN none
                    ELSE WalkedOn(G[s \ {Reports!Max(s)}], rows[Reports!Max(s)], sym)
  <2>1. CASE m \in s
    <3>1. Reports!Max(s) = m /\ s # {} /\ s \ {m} \in SUBSET (1 .. m) /\ m \notin s \ {m}
      BY <1>3, <2>1, MaxIsLast
    <3>2. G[s] = WalkedOn(F[s \ {m}], rows[m], sym) /\ G[s \ {m}] = F[s \ {m}]
      BY <2>1, <3>1
    <3> QED  BY <3>1, <3>2
  <2>2. CASE m \notin s
    <3> DEFINE t == s \ {Reports!Max(s)}
    <3>1. s \in SUBSET (1 .. m - 1) /\ t \in SUBSET s
      BY <1>2, <1>3, <2>2, BelowIs
    <3>2. t \in SUBSET (1 .. m) /\ m \notin t
      BY <2>2, <3>1
    <3>3. G[s] = F[s] /\ G[t] = F[t]
      BY <2>2, <3>2
    <3>4. F[s] = IF s = {} THEN none ELSE WalkedOn(F[t], rows[Reports!Max(s)], sym)
      BY <1>4, <3>1 DEF IsWalking
    <3> QED  BY <3>3, <3>4
  <2> QED  BY <2>1, <2>2
<1>6. IsWalking(G, m, rows, sym, none)
  <2>1. G = [s \in SUBSET (1 .. m) |-> G[s]]
    OBVIOUS
  <2> HIDE DEF G
  <2> QED  BY <1>5, <2>1 DEF IsWalking
<1>7. m \notin Bad
  BY <1>6
<1> QED  BY <1>1, <1>7

\* The trades of a symbol among the first k, and those until the end of a day.
Mine(s, k) == {i \in 1 .. k : new_trades[i].sym = s}
Until(s, k, d) == {i \in 1 .. k : new_trades[i].sym = s /\ new_trades[i].day <= d}
Holding(s, k) == Reports!Total(Reports!Quantity, Mine(s, k))
HoldingOn(s, k, d) == Reports!Total(Reports!Quantity, Until(s, k, d))

\* The walk after k rows: what is held has been valued up to the day of the
\* last trade, which is t1 unless nothing is held.
WalkInv(acc, s, k) ==
  /\ acc.qty = Holding(s, k)
  /\ acc.equity \in [Reports!ReportDays -> Int]
  /\ acc.t1 = None =>
       /\ acc.qty = 0
       /\ \A d \in Reports!ReportDays : acc.equity[d] = HoldingOn(s, k, d)
  /\ acc.t1 # None =>
       /\ \E i \in 1 .. k : acc.t1 = new_trades[i].day
       /\ \A i \in Mine(s, k) : new_trades[i].day <= acc.t1
       /\ \A d \in Reports!ReportDays :
            acc.equity[d] = IF d < acc.t1 THEN HoldingOn(s, k, d) ELSE 0

LEMMA ReportDaysAre ==
  ASSUME TablesInv
  PROVE  \A d \in Reports!ReportDays : d \in 0 .. LastDay /\ d \in Nat
<1> DEFINE n == Len(new_trades)
<1>1. /\ n \in Nat
      /\ \A i \in 1 .. n : new_trades[i].day \in 0 .. LastDay
  BY TradesAre
<1>2. LastDay \in Nat
  BY ReportNumbers
<1>3. CASE new_trades = <<>>
  BY <1>3 DEF Reports!ReportDays
<1>4. CASE new_trades # <<>>
  <2>1. n # 0
    BY <1>4, EmptySeq DEF TablesInv
  <2>2. 1 \in 1 .. n /\ n \in 1 .. n
    BY <1>1, <2>1
  <2>4. Reports!ReportDays = (new_trades[1].day .. new_trades[n].day) \ Closed
    BY <1>4 DEF Reports!ReportDays, Reports!Last
  <2> QED  BY <1>1, <1>2, <2>2, <2>4
<1> QED  BY <1>3, <1>4

LEMMA HoldingsAre ==
  ASSUME TablesInv, NEW s, NEW k \in 0 .. Len(new_trades)
  PROVE  /\ Holding(s, k) \in Int
         /\ \A d : HoldingOn(s, k, d) \in Int
         /\ \A d : (\A i \in Mine(s, k) : new_trades[i].day <= d) =>
                     HoldingOn(s, k, d) = Holding(s, k)
<1>1. \A S : Reports!Total(Reports!Quantity, S) \in Int
  BY TradesAre, TotalIs
<1>2. \A d : (\A i \in Mine(s, k) : new_trades[i].day <= d) => Until(s, k, d) = Mine(s, k)
  BY DEF Mine, Until
<1> QED  BY <1>1, <1>2 DEF Holding, HoldingOn

LEMMA HoldingsNext ==
  ASSUME TablesInv, NEW s, NEW k \in 1 .. Len(new_trades)
  PROVE  /\ new_trades[k].sym # s =>
              /\ Holding(s, k) = Holding(s, k - 1) /\ Mine(s, k) = Mine(s, k - 1)
              /\ \A d : HoldingOn(s, k, d) = HoldingOn(s, k - 1, d)
         /\ new_trades[k].sym = s =>
              /\ Mine(s, k) = Mine(s, k - 1) \cup {k}
              /\ Holding(s, k) = Holding(s, k - 1) + Reports!Signed(new_trades[k])
              /\ \A d \in Int : d < new_trades[k].day =>
                                  HoldingOn(s, k, d) = HoldingOn(s, k - 1, d)
<1> DEFINE n == Len(new_trades)
           q == Reports!Quantity
<1>1. /\ n \in Nat /\ q \in [1 .. n -> Int]
      /\ q[k] = Reports!Signed(new_trades[k])
      /\ new_trades[k].day \in Int
  BY TradesAre, ReportNumbers
<1>2. /\ \A i \in 1 .. k : i \in 1 .. k - 1 \/ i = k
      /\ \A i \in 1 .. k - 1 : i \in 1 .. k
      /\ k \notin 1 .. k - 1 /\ k \in 1 .. k
  OBVIOUS
<1>3. new_trades[k].sym # s =>
        /\ Mine(s, k) = Mine(s, k - 1)
        /\ \A d : Until(s, k, d) = Until(s, k - 1, d)
  BY <1>2 DEF Mine, Until
<1>4. new_trades[k].sym = s =>
        /\ Mine(s, k) = Mine(s, k - 1) \cup {k} /\ k \notin Mine(s, k - 1)
  BY <1>2 DEF Mine
<1>5. \A d \in Int : d < new_trades[k].day => Until(s, k, d) = Until(s, k - 1, d)
  <2> SUFFICES ASSUME NEW d \in Int, d < new_trades[k].day
               PROVE  Until(s, k, d) = Until(s, k - 1, d)
    OBVIOUS
  <2>1. ~(new_trades[k].day <= d)
    BY <1>1
  <2> QED  BY <1>2, <2>1 DEF Until
<1>6. new_trades[k].sym = s =>
        Reports!Total(q, Mine(s, k)) = Reports!Total(q, Mine(s, k - 1)) + q[k]
  <2> DEFINE S == Mine(s, k - 1)
  <2> HIDE DEF q, n
  <2>1. k \in 1 .. n
    BY DEF n
  <2>2. k \notin S => Reports!Total(q, S \cup {k}) = Reports!Total(q, S) + q[k]
    <3> HIDE DEF S
    <3> QED  BY <1>1, <2>1, TotalOfOneMore
  <2> QED  BY <1>4, <2>2
<1> QED  BY <1>1, <1>3, <1>4, <1>5, <1>6 DEF Holding, HoldingOn

LEMMA WalkStep ==
  ASSUME TablesInv, NEW s, NEW k \in 1 .. Len(new_trades), NEW acc, WalkInv(acc, s, k - 1)
  PROVE  WalkInv(WalkedOn(acc, new_trades[k], s), s, k)
<1> DEFINE row == new_trades[k]
           next == WalkedOn(acc, row, s)
           Days == Reports!ReportDays
<1>1. /\ row.day \in Nat /\ k - 1 \in 0 .. Len(new_trades) /\ Len(new_trades) \in Nat
      /\ \A i \in 1 .. k - 1 : i \in 1 .. Len(new_trades) /\ i <= k /\ i \in 1 .. k
      /\ k \in 1 .. k /\ k \in 0 .. Len(new_trades)
      /\ Reports!Signed(row) \in Int
  <2>1. Reports!Quantity[k] = Reports!Signed(row) /\ Reports!Quantity[k] \in Int
    BY TradesAre
  <2> QED  BY <2>1, TradesAre, ReportNumbers
<1>2. CASE row.sym # s
  <2>1. next = acc
    BY <1>2 DEF WalkedOn
  <2>2. Holding(s, k) = Holding(s, k - 1) /\ Mine(s, k) = Mine(s, k - 1)
        /\ \A d : HoldingOn(s, k, d) = HoldingOn(s, k - 1, d)
    BY <1>2, HoldingsNext
  <2> QED  BY <1>1, <2>1, <2>2 DEF WalkInv
<1>3. CASE row.sym = s
  <2> DEFINE D == row.day
             qty == acc.qty + Reports!Signed(row)
  <2>1. /\ Mine(s, k) = Mine(s, k - 1) \cup {k}
        /\ Holding(s, k) = Holding(s, k - 1) + Reports!Signed(row)
        /\ \A d \in Int : d < D => HoldingOn(s, k, d) = HoldingOn(s, k - 1, d)
    BY <1>3, HoldingsNext
  <2>2. /\ Holding(s, k - 1) \in Int
        /\ \A d : HoldingOn(s, k - 1, d) \in Int
        /\ \A d : (\A i \in Mine(s, k - 1) : new_trades[i].day <= d) =>
                    HoldingOn(s, k - 1, d) = Holding(s, k - 1)
        /\ \A d : (\A i \in Mine(s, k) : new_trades[i].day <= d) =>
                    HoldingOn(s, k, d) = Holding(s, k)
    BY <1>1, HoldingsAre
  <2>3. /\ next.qty = qty /\ next.t1 = IF qty = 0 THEN None ELSE D
        /\ next.equity = IF acc.t1 = None THEN acc.equity
                         ELSE Reports!Valued(acc.equity, acc.t1, D, acc.qty)
    BY <1>3 DEF WalkedOn, Reports!Walk
  <2>4. /\ acc.qty = Holding(s, k - 1) /\ acc.equity \in [Days -> Int]
        /\ qty = Holding(s, k) /\ acc.qty \in Int
    BY <2>1, <2>2 DEF WalkInv
  <2>5. \A i \in Mine(s, k) : new_trades[i].day <= D
    <3>1. \A i \in Mine(s, k) : i \in 1 .. Len(new_trades) /\ i <= k
      BY <1>1 DEF Mine
    <3> QED  BY <3>1 DEF TablesInv
  <2>6. \A i \in Mine(s, k - 1) : i \in Mine(s, k) /\ new_trades[i].day \in Nat
    <3>1. \A i \in Mine(s, k - 1) : i \in 1 .. Len(new_trades)
      BY <1>1 DEF Mine
    <3>2. \A i \in 1 .. Len(new_trades) : new_trades[i].day \in Nat
      BY TradesAre, ReportNumbers
    <3> QED  BY <2>1, <3>1, <3>2
  <2>7. \A d \in Days : d \in Nat
    BY ReportDaysAre
  <2> HIDE DEF D, qty, next, row, Days
  <2>8. ASSUME NEW d \in Days, D <= d
        PROVE  /\ HoldingOn(s, k, d) = Holding(s, k)
               /\ HoldingOn(s, k - 1, d) = Holding(s, k - 1)
    <3>1. D \in Nat /\ d \in Nat
      BY <1>1, <2>7 DEF D
    <3>2. \A i \in Mine(s, k) : new_trades[i].day \in Nat
      BY <1>1, <2>1, <2>6 DEF row
    <3>3. /\ \A i \in Mine(s, k) : new_trades[i].day <= d
          /\ \A i \in Mine(s, k - 1) : new_trades[i].day <= d
      BY <2>5, <2>6, <2>8, <3>1, <3>2
    <3> QED  BY <2>2, <3>3
  <2>9. /\ next.equity \in [Days -> Int]
        /\ \A d \in Days : next.equity[d] = IF d < D THEN HoldingOn(s, k, d) ELSE 0
    <3>1. CASE acc.t1 = None
      <4>1. next.equity = acc.equity /\ acc.qty = 0
        BY <2>3, <3>1 DEF WalkInv
      <4>2. \A d \in Days : acc.equity[d] = HoldingOn(s, k - 1, d)
        BY <3>1 DEF WalkInv, Days
      <4>3. ASSUME NEW d \in Days
            PROVE  acc.equity[d] = IF d < D THEN HoldingOn(s, k, d) ELSE 0
        <5>1. d \in Nat /\ D \in Nat
          BY <1>1, <2>7 DEF D
        <5>2. CASE d < D
          BY <2>1, <4>2, <5>1, <5>2
        <5>3. CASE ~(d < D)
          <6>1. D <= d
            BY <5>1, <5>3
          <6>2. HoldingOn(s, k - 1, d) = Holding(s, k - 1)
            BY <2>8, <6>1
          <6> QED  BY <2>4, <4>1, <4>2, <5>3, <6>2
        <5> QED  BY <5>2, <5>3
      <4> QED  BY <2>4, <4>1, <4>3
    <3>2. CASE acc.t1 # None
      <4> DEFINE t == acc.t1
      <4>1. PICK j \in 1 .. k - 1 : t = new_trades[j].day
        BY <3>2 DEF WalkInv
      <4>2. t <= D /\ t \in Nat
        <5>1. j \in 1 .. Len(new_trades) /\ j <= k
          BY <1>1
        <5>2. new_trades[j].day <= D
          BY <5>1 DEF TablesInv, D, row
        <5>3. new_trades[j].day \in Nat
          BY <5>1, TradesAre, ReportNumbers
        <5> QED  BY <4>1, <5>2, <5>3
      <4>3. \A i \in Mine(s, k - 1) : new_trades[i].day <= t
        BY <3>2 DEF WalkInv
      <4>4. \A d \in Days : acc.equity[d] = IF d < t THEN HoldingOn(s, k - 1, d) ELSE 0
        BY <3>2 DEF WalkInv, Days
      <4>5. next.equity = [d \in Days |-> acc.equity[d] + IF t <= d /\ d < D THEN acc.qty ELSE 0]
        BY <2>3, <2>4, <3>2 DEF Reports!Valued
      <4> HIDE DEF t
      <4>6. ASSUME NEW d \in Days
            PROVE  next.equity[d] = IF d < D THEN HoldingOn(s, k, d) ELSE 0
        <5>1. d \in Nat /\ D \in Nat
          BY <1>1, <2>7 DEF D
        <5>2. next.equity[d] = acc.equity[d] + IF t <= d /\ d < D THEN acc.qty ELSE 0
          BY <4>5
        <5>3. CASE d < t
          <6>1. d < D /\ ~(t <= d)
            BY <4>2, <5>1, <5>3
          <6>2. HoldingOn(s, k, d) = HoldingOn(s, k - 1, d)
            BY <2>1, <5>1, <6>1
          <6> QED  BY <2>2, <4>4, <5>2, <5>3, <6>1, <6>2
        <5>4. CASE t <= d /\ d < D
          <6>1. ~(d < t)
            BY <4>2, <5>1, <5>4
          <6>2. \A i \in Mine(s, k - 1) : new_trades[i].day <= d
            BY <2>6, <4>2, <4>3, <5>1, <5>4
          <6>3. HoldingOn(s, k, d) = HoldingOn(s, k - 1, d)
            BY <2>1, <5>1, <5>4
          <6>4. HoldingOn(s, k - 1, d) = Holding(s, k - 1)
            BY <2>2, <6>2
          <6>5. acc.equity[d] = 0
            BY <4>4, <6>1
          <6> QED  BY <2>4, <5>2, <5>4, <6>3, <6>4, <6>5
        <5>5. CASE D <= d
          <6>1. ~(d < t) /\ ~(d < D)
            BY <4>2, <5>1, <5>5
          <6> QED  BY <4>4, <5>2, <6>1
        <5> QED  BY <4>2, <5>1, <5>3, <5>4, <5>5
      <4>7. \A d \in Days : acc.equity[d] + (IF t <= d /\ d < D THEN acc.qty ELSE 0) \in Int
        BY <2>4
      <4> QED  BY <4>5, <4>6, <4>7
    <3> QED  BY <3>1, <3>2
  <2>10. CASE qty = 0
    <3>1. next.t1 = None
      BY <2>3, <2>10
    <3>2. ASSUME NEW d \in Days PROVE next.equity[d] = HoldingOn(s, k, d)
      <4>1. d \in Nat /\ D \in Nat
        BY <1>1, <2>7 DEF D
      <4>2. CASE d < D
        BY <2>9, <4>2
      <4>3. CASE ~(d < D)
        <5>1. D <= d
          BY <4>1, <4>3
        <5> QED  BY <2>4, <2>8, <2>9, <2>10, <4>3, <5>1
      <4> QED  BY <4>2, <4>3
    <3> QED  BY <2>3, <2>4, <2>9, <2>10, <3>1, <3>2 DEF WalkInv, Days, next, row
  <2>11. CASE qty # 0
    <3>1. D # None /\ D \in Nat
      BY <1>1, ReportNumbers DEF D
    <3>2. next.t1 = D
      BY <2>3, <2>11
    <3>3. \E i \in 1 .. k : D = new_trades[i].day
      BY <1>1 DEF D, row
    <3>4. next.qty = Holding(s, k)
      BY <2>3, <2>4
    <3>5. WalkInv(next, s, k)
      BY <2>5, <2>9, <3>1, <3>2, <3>3, <3>4 DEF WalkInv, Days
    <3> QED  BY <3>5 DEF next, row
  <2> QED  BY <2>10, <2>11
<1> QED  BY <1>2, <1>3

LEMMA WalkStart ==
  ASSUME TablesInv, NEW s
  PROVE  WalkInv(Reports!NotHeld, s, 0)
<1> DEFINE Days == Reports!ReportDays
           q == Reports!Quantity
<1>1. Mine(s, 0) = {} /\ \A d : Until(s, 0, d) = {}
  BY DEF Mine, Until
<1>2. Reports!Total(q, {}) = 0
  <2>1. Len(new_trades) \in Nat /\ q \in [1 .. Len(new_trades) -> Int]
    BY TradesAre
  <2> QED  BY <2>1, TotalOfNone
<1>3. Holding(s, 0) = 0 /\ \A d : HoldingOn(s, 0, d) = 0
  BY <1>1, <1>2 DEF Holding, HoldingOn
<1>4. Reports!NotHeld = [equity |-> [d \in Days |-> 0], t1 |-> None, qty |-> 0]
  BY DEF Reports!NotHeld
<1>5. /\ Reports!NotHeld.t1 = None /\ Reports!NotHeld.qty = 0
      /\ Reports!NotHeld.equity = [d \in Days |-> 0]
  BY <1>4
<1>6. /\ [d \in Days |-> 0] \in [Days -> Int]
      /\ \A d \in Days : [e \in Days |-> 0][d] = 0
  OBVIOUS
<1> QED  BY <1>3, <1>5, <1>6 DEF WalkInv

LEMMA WalkOfAll ==
  ASSUME TablesInv, NEW s
  PROVE  WalkInv(Reports!Walked(s), s, Len(new_trades))
<1> DEFINE n == Len(new_trades)
           none == Reports!NotHeld
           F == CHOOSE G : IsWalking(G, n, new_trades, s, none)
           P == [k \in 0 .. n |-> F[1 .. k]]
<1>1. n \in Nat /\ DOMAIN new_trades = 1 .. n
  BY TradesAre
<1>2. IsWalking(F, n, new_trades, s, none)
  BY <1>1, WalkingExists
<1>3. Reports!Walked(s) = F[1 .. n]
  BY <1>1 DEF Reports!Walked, Reports!FoldLeft, Reports!MapThenFoldSet, IsWalking, WalkedOn
<1> HIDE DEF F, n
<1>4. F[1 .. 0] = none
  <2>1. 1 .. 0 = {} /\ {} \in SUBSET (1 .. n)
    OBVIOUS
  <2>2. F[{}] = none
    BY <1>2, <2>1 DEF IsWalking
  <2> QED  BY <2>1, <2>2
<1>5. \A k \in 1 .. n : F[1 .. k] = WalkedOn(F[1 .. k - 1], new_trades[k], s)
  <2> SUFFICES ASSUME NEW k \in 1 .. n
               PROVE  F[1 .. k] = WalkedOn(F[1 .. k - 1], new_trades[k], s)
    OBVIOUS
  <2>1. /\ 1 .. k \in SUBSET (1 .. n) /\ 1 .. k # {}
        /\ Reports!Max(1 .. k) = k /\ (1 .. k) \ {k} = 1 .. k - 1
    BY <1>1, UptoIs
  <2>2. F[1 .. k] = WalkedOn(F[(1 .. k) \ {Reports!Max(1 .. k)}],
                             new_trades[Reports!Max(1 .. k)], s)
    BY <1>2, <2>1 DEF IsWalking
  <2> QED  BY <2>1, <2>2
<1>6. P[0] = none /\ P[n] = Reports!Walked(s)
  BY <1>1, <1>3, <1>4
<1>7. \A k \in 1 .. n : P[k] = WalkedOn(P[k - 1], new_trades[k], s)
  <2>1. \A k \in 1 .. n : k \in 0 .. n /\ k - 1 \in 0 .. n
    BY <1>1
  <2>2. \A k \in 1 .. n : P[k] = F[1 .. k] /\ P[k - 1] = F[1 .. k - 1]
    BY <2>1
  <2> HIDE DEF P
  <2> QED  BY <1>5, <2>2
<1> HIDE DEF P
<1> DEFINE Bad == {k \in 0 .. n : ~WalkInv(P[k], s, k)}
<1> SUFFICES ASSUME Bad # {} PROVE FALSE
  <2>1. n \in 0 .. n
    BY <1>1
  <2> QED  BY <1>6, <2>1 DEF n
<1>8. Bad \in SUBSET Nat
  OBVIOUS
<1>9. PICK k \in Bad : \A j \in Bad : k <= j
  <2> HIDE DEF Bad
  <2> QED  BY <1>8, Least
<1>10. k \in 0 .. n /\ ~WalkInv(P[k], s, k)
  BY <1>9
<1>11. k # 0
  BY <1>6, <1>10, WalkStart
<1>12. k \in 1 .. n /\ k - 1 \in 0 .. n
  BY <1>1, <1>10, <1>11
<1>13. WalkInv(P[k - 1], s, k - 1)
  <2>1. k - 1 \notin Bad
    <3> HIDE DEF Bad
    <3> QED  BY <1>9, <1>12
  <2> QED  BY <1>12, <2>1
<1> DEFINE acc == P[k - 1]
<1>14. WalkInv(WalkedOn(acc, new_trades[k], s), s, k)
  <2>1. WalkInv(acc, s, k - 1) /\ k \in 1 .. Len(new_trades)
    BY <1>12, <1>13 DEF n
  <2> HIDE DEF acc
  <2> QED  BY <2>1, WalkStep
<1> QED  BY <1>7, <1>10, <1>12, <1>14

LEMMA EquityHolds ==
  ASSUME TablesInv
  PROVE  Reports!EquityIsHoldings
<1> DEFINE n == Len(new_trades)
<1>1. n \in Nat /\ DOMAIN new_trades = 1 .. n /\ n \in 0 .. n /\ n \in 0 .. Len(new_trades)
  BY TradesAre
<1> SUFFICES ASSUME NEW s \in Symbols, NEW d \in Reports!ReportDays
             PROVE  Reports!Equity(s)[d] =
                      Reports!Total(Reports!Quantity,
                                    {i \in Reports!TradesOf(s) : new_trades[i].day <= d})
  BY DEF Reports!EquityIsHoldings
<1>2. Until(s, n, d) = {i \in Reports!TradesOf(s) : new_trades[i].day <= d}
  BY <1>1 DEF Until, Reports!TradesOf
<1> SUFFICES Reports!Equity(s)[d] = HoldingOn(s, n, d)
  BY <1>2 DEF HoldingOn
<1> DEFINE acc == Reports!Walked(s)
           Days == Reports!ReportDays
<1>3. WalkInv(acc, s, n)
  BY WalkOfAll
<1>4. /\ Holding(s, n) \in Int /\ HoldingOn(s, n, d) \in Int
      /\ (\A i \in Mine(s, n) : new_trades[i].day <= d) => HoldingOn(s, n, d) = Holding(s, n)
  BY <1>1, HoldingsAre
<1>5. Reports!Equity(s) = IF acc.qty # 0 /\ acc.t1 # None
                          THEN Reports!Valued(acc.equity, acc.t1, LastDay + 1, acc.qty)
                          ELSE acc.equity
  BY DEF Reports!Equity
<1>6. d \in 0 .. LastDay /\ LastDay \in Nat /\ d \in Days
  BY ReportDaysAre, ReportNumbers
<1>7. \A i \in 1 .. n : new_trades[i].day \in Nat
  BY TradesAre, ReportNumbers
<1> HIDE DEF acc, n, Days
<1>8. acc.equity \in [Days -> Int] /\ acc.qty = Holding(s, n)
  BY <1>3 DEF WalkInv, Days
<1>9. CASE acc.t1 = None
  <2>1. Reports!Equity(s) = acc.equity
    BY <1>5, <1>9
  <2>2. acc.equity[d] = HoldingOn(s, n, d)
    BY <1>3, <1>6, <1>9 DEF WalkInv, Days
  <2> QED  BY <2>1, <2>2
<1>10. CASE acc.t1 # None
  <2> DEFINE t == acc.t1
  <2>1. acc.equity[d] = IF d < t THEN HoldingOn(s, n, d) ELSE 0
    BY <1>3, <1>6, <1>10 DEF WalkInv, Days
  <2>2. t \in Nat
    BY <1>3, <1>7, <1>10 DEF WalkInv
  <2>3. t <= d => HoldingOn(s, n, d) = acc.qty
    <3>1. \A i \in Mine(s, n) : new_trades[i].day <= t /\ new_trades[i].day \in Nat
      BY <1>3, <1>7, <1>10 DEF WalkInv, Mine
    <3>2. t <= d => \A i \in Mine(s, n) : new_trades[i].day <= d
      <4> HIDE DEF t
      <4> QED  BY <1>6, <2>2, <3>1
    <3> QED  BY <1>4, <1>8, <3>2
  <2>4. CASE acc.qty # 0
    <3>1. Reports!Equity(s) =
            [e \in Days |-> acc.equity[e] + IF t <= e /\ e < LastDay + 1 THEN acc.qty ELSE 0]
      BY <1>5, <1>8, <1>10, <2>4 DEF Reports!Valued
    <3> HIDE DEF t
    <3>2. Reports!Equity(s)[d] = acc.equity[d] + IF t <= d /\ d < LastDay + 1 THEN acc.qty ELSE 0
      BY <1>6, <3>1
    <3>3. d < LastDay + 1 /\ (d < t <=> ~(t <= d))
      BY <1>6, <2>2
    <3> QED  BY <1>4, <1>8, <2>1, <2>3, <3>2, <3>3
  <2>5. CASE acc.qty = 0
    <3>1. Reports!Equity(s) = acc.equity
      BY <1>5, <2>5
    <3> HIDE DEF t
    <3>2. d < t <=> ~(t <= d)
      BY <1>6, <2>2
    <3> QED  BY <2>1, <2>3, <2>5, <3>1, <3>2
  <2> QED  BY <2>4, <2>5
<1> QED  BY <1>9, <1>10

-----------------------------------------------------------------------------
(* Reports: cash.                                                            *)

LEMMA Greatest ==
  ASSUME NEW n \in Nat, NEW S \in SUBSET (0 .. n), S # {}
  PROVE  \E x \in S : \A y \in S : y <= x
<1> DEFINE B == {k \in Nat : n - k \in S}
<1>1. \A x \in S : x \in Int /\ n - x \in Nat /\ n - (n - x) = x
  OBVIOUS
<1>2. B \in SUBSET Nat /\ B # {} /\ \A x \in S : n - x \in B
  BY <1>1
<1>3. \A k \in B : n - k \in S /\ k \in Nat
  OBVIOUS
<1> HIDE DEF B
<1>4. PICK k \in B : \A j \in B : k <= j
  BY <1>2, Least
<1>5. \A y \in S : k <= n - y
  BY <1>2, <1>4
<1> QED  BY <1>1, <1>3, <1>5

\* The columns of the transactions.
LEMMA TransactionsAre ==
  ASSUME TablesInv
  PROVE  LET m == Len(account_transactions)
         IN /\ m \in Nat /\ DOMAIN account_transactions = 1 .. m
            /\ \A i \in 1 .. m : account_transactions[i].day \in 0 .. LastDay
            /\ Reports!AmountColumn \in [1 .. m -> Int]
            /\ \A d : Reports!TransactionsOn(d) =
                        {i \in 1 .. m : account_transactions[i].day = d}
            /\ \A d : d \in Reports!TransactionDays <=>
                        \E i \in 1 .. m : account_transactions[i].day = d
<1> DEFINE m == Len(account_transactions)
<1>1. /\ m \in Nat /\ DOMAIN account_transactions = 1 .. m
      /\ \A i \in 1 .. m : account_transactions[i] \in Transaction
  BY DEF TablesInv
<1>2. \A i \in 1 .. m : /\ account_transactions[i].day \in 0 .. LastDay
                        /\ account_transactions[i].amount \in Int
  BY <1>1, ReportNumbers DEF Transaction
<1>3. Reports!AmountColumn = [i \in 1 .. m |-> account_transactions[i].amount]
  BY <1>1 DEF Reports!AmountColumn
<1>4. \A d : Reports!TransactionsOn(d) = {i \in 1 .. m : account_transactions[i].day = d}
  BY <1>1 DEF Reports!TransactionsOn
<1>5. \A d : d \in Reports!TransactionDays <=> \E i \in 1 .. m : account_transactions[i].day = d
  BY <1>1 DEF Reports!TransactionDays
<1> HIDE DEF m
<1> QED  BY <1>1, <1>2, <1>3, <1>4, <1>5 DEF m

\* The cash of a day with transactions: the initial one and all amounts so far.
LEMMA CashIs ==
  ASSUME TablesInv, NEW c \in Reports!TransactionDays
  PROVE  Reports!Cash[c] =
           PortfolioSize + Reports!Total(Reports!AmountColumn,
                                         {i \in 1 .. Len(account_transactions) :
                                            account_transactions[i].day <= c})
<1> DEFINE m == Len(account_transactions)
           a == Reports!AmountColumn
           p == LastDay + 1
           When(i) == account_transactions[i].day
           T == Reports!TransactionDays
           On(d) == Reports!TransactionsOn(d)
           past == {i \in 1 .. m : When(i) <= c}
           A == [i \in 1 .. p |-> Reports!Total(a, On(i - 1))]
           Starts(d) == d \in T /\ \A e \in T : d <= e
           B == [i \in 1 .. p |-> IF Starts(i - 1) THEN PortfolioSize ELSE 0]
           D == Reports!DailyAmounts
           N == 1 .. c + 1
<1>1. /\ m \in Nat /\ a \in [1 .. m -> Int]
      /\ \A i \in 1 .. m : When(i) \in 0 .. LastDay
      /\ \A d : On(d) = {i \in 1 .. m : When(i) = d}
      /\ \A d : d \in T <=> \E i \in 1 .. m : When(i) = d
  BY TransactionsAre
<1>2. LastDay \in Nat /\ p \in Nat /\ PortfolioSize \in Nat
  BY ReportNumbers
<1>3. T \in SUBSET (0 .. LastDay)
  BY <1>1
<1>4. c \in 0 .. LastDay /\ c \in T
  BY <1>3
<1>5. \A S : Reports!Total(a, S) \in Int
  BY <1>1, TotalIs
<1>6. A \in [1 .. p -> Int] /\ B \in [1 .. p -> Int]
  BY <1>2, <1>5
<1>7. \A i \in 1 .. p : D[i] = A[i] + B[i]
  BY DEF Reports!DailyAmounts
<1>8. D \in [1 .. p -> Int]
  <2>1. D = [i \in 1 .. p |-> D[i]]
    BY DEF Reports!DailyAmounts
  <2>2. \A i \in 1 .. p : D[i] \in Int
    BY <1>6, <1>7
  <2> HIDE DEF D
  <2> QED  BY <2>1, <2>2
<1>9. Reports!Cash[c] = Reports!Total(D, N)
  BY DEF Reports!Cash
<1>10. PICK first \in T : \A e \in T : first <= e
  <2>1. T \in SUBSET Nat /\ T # {}
    BY <1>2, <1>3, <1>4
  <2> HIDE DEF T
  <2> QED  BY <2>1, Least
<1>11. /\ \A i \in 1 .. p : A[i] = Reports!Total(a, On(i - 1))
       /\ \A i \in 1 .. p : B[i] = IF Starts(i - 1) THEN PortfolioSize ELSE 0
  OBVIOUS
<1> HIDE DEF A, B, D, T
<1> DEFINE OA == Only(p, A, N)
           OB == Only(p, B, N)
           OD == Only(p, D, N)
<1>12. /\ Reports!Cash[c] = Reports!Sum(OD)
       /\ OA \in [1 .. p -> Int] /\ OB \in [1 .. p -> Int] /\ OD \in [1 .. p -> Int]
  <2> HIDE DEF N
  <2> QED  BY <1>2, <1>6, <1>8, <1>9, TotalIs
<1>13. \A i \in 1 .. p : /\ OD[i] = OA[i] + OB[i]
                         /\ OA[i] = IF i \in N THEN A[i] ELSE 0
                         /\ OB[i] = IF i \in N THEN B[i] ELSE 0
  BY <1>6, <1>7 DEF Only
<1> HIDE DEF OA, OB, OD
<1>14. Reports!Sum(OD) = Reports!Sum(OA) + Reports!Sum(OB)
  <2>1. \A i \in 1 .. p : OD[i] = OA[i] + OB[i]
    BY <1>13
  <2> HIDE DEF p
  <2> QED  BY <1>2, <1>12, <2>1, SumOfSums
<1>15. Reports!Sum(OB) = PortfolioSize
  <2> DEFINE k == first + 1
  <2>1. first \in 0 .. LastDay /\ first <= c
    BY <1>3, <1>4, <1>10
  <2>2. k \in 1 .. p /\ k \in N /\ k - 1 = first
    BY <1>2, <1>4, <2>1
  <2>3. OB[k] = PortfolioSize
    <3>1. Starts(k - 1)
      BY <1>10, <2>2
    <3> HIDE DEF k, Starts
    <3> QED  BY <1>11, <1>13, <2>2, <3>1
  <2>4. \A i \in 1 .. p : i # k => OB[i] = 0
    <3> SUFFICES ASSUME NEW i \in 1 .. p, i # k PROVE OB[i] = 0
      OBVIOUS
    <3>1. ~Starts(i - 1)
      <4> SUFFICES ASSUME Starts(i - 1) PROVE FALSE
        OBVIOUS
      <4>1. i - 1 <= first /\ first <= i - 1
        BY <1>10
      <4> QED  BY <2>1, <4>1
    <3> HIDE DEF Starts
    <3> QED  BY <1>11, <1>13, <3>1
  <2> HIDE DEF k
  <2>5. Reports!Sum(OB) = OB[k]
    BY <1>2, <1>12, <2>2, <2>4, SumOfOne
  <2> QED  BY <2>3, <2>5
<1> DEFINE f == Only(m, a, past)
           g == [i \in 1 .. m |-> When(i) + 1]
<1>16. /\ f \in [1 .. m -> Int] /\ Reports!Total(a, past) = Reports!Sum(f)
  <2> HIDE DEF past, a, m
  <2> QED  BY <1>1, TotalIs
<1>17. g \in [1 .. m -> 1 .. p]
  BY <1>1, <1>2
<1>18. ASSUME NEW k \in 1 .. p
       PROVE  OA[k] = Reports!Total(f, {i \in 1 .. m : g[i] = k})
  <2> DEFINE S == On(k - 1)
  <2>1. {i \in 1 .. m : g[i] = k} = S
    <3>1. \A i \in 1 .. m : g[i] = k <=> When(i) = k - 1
      BY <1>1, <1>2
    <3> HIDE DEF g
    <3> QED  BY <1>1, <3>1
  <2>2. \A i \in S : i \in 1 .. m /\ When(i) = k - 1
    BY <1>1
  <2>3. k - 1 \in 0 .. LastDay
    BY <1>2
  <2>4. Reports!Total(f, S) = Reports!Sum(Only(m, f, S))
        /\ Only(m, f, S) \in [1 .. m -> Int]
    <3> HIDE DEF f, S, m
    <3> QED  BY <1>1, <1>16, TotalIs
  <2>5. CASE k \in N
    <3>1. \A i \in S : i \in past
      BY <1>4, <2>2, <2>5
    <3>2. Only(m, f, S) = Only(m, a, S)
      <4>1. \A i \in 1 .. m : i \in S => f[i] = a[i]
        <5> HIDE DEF S, past
        <5> QED  BY <3>1 DEF Only
      <4> HIDE DEF S, f, a, m
      <4> QED  BY <4>1 DEF Only
    <3>3. Reports!Total(a, S) = Reports!Sum(Only(m, a, S))
      <4> HIDE DEF S, a, m
      <4> QED  BY <1>1, TotalIs
    <3>4. OA[k] = Reports!Total(a, S)
      BY <1>11, <1>13, <2>5
    <3> HIDE DEF S, f, a, m
    <3> QED  BY <2>1, <2>4, <3>2, <3>3, <3>4
  <2>6. CASE k \notin N
    <3>1. OA[k] = 0
      BY <1>13, <2>6
    <3>2. \A i \in S : i \notin past
      BY <1>4, <2>2, <2>6
    <3>3. \A i \in 1 .. m : Only(m, f, S)[i] = 0
      <4> SUFFICES ASSUME NEW i \in 1 .. m PROVE Only(m, f, S)[i] = 0
        OBVIOUS
      <4>1. i \in S => f[i] = 0
        <5> HIDE DEF S, past
        <5> QED  BY <3>2 DEF Only
      <4> HIDE DEF S, f, m
      <4> QED  BY <4>1 DEF Only
    <3>4. Reports!Sum(Only(m, f, S)) = 0
      <4> DEFINE z == Only(m, f, S)
      <4> z \in [1 .. m -> Int] /\ \A i \in 1 .. m : z[i] = 0
        BY <2>4, <3>3
      <4> HIDE DEF z, m
      <4>1. Reports!Sum(z) = 0
        BY <1>1, SumOfZeros
      <4> QED  BY <4>1 DEF z, m
    <3> HIDE DEF S, f, m
    <3> QED  BY <2>1, <2>4, <3>1, <3>4
  <2> QED  BY <2>5, <2>6
<1>19. Reports!Sum(OA) = Reports!Sum(f)
  <2>1. ByClass(m, p, f, g, OA)
    <3> HIDE DEF f, g, m, p
    <3> QED  BY <1>1, <1>2, <1>12, <1>16, <1>17, <1>18 DEF ByClass, Numbers
  <2> HIDE DEF f, g, m, p
  <2> QED  BY <2>1, SumByClass
<1> HIDE DEF f, past, a, m
<1>20. Reports!Cash[c] = PortfolioSize + Reports!Total(a, past)
  <2>1. Reports!Total(a, past) \in Int
    BY <1>5
  <2> QED  BY <1>2, <1>12, <1>14, <1>15, <1>16, <1>19, <2>1
<1> QED  BY <1>20 DEF past, a, m

LEMMA CashHolds ==
  ASSUME TablesInv
  PROVE  Reports!CashIsCurrent
<1> DEFINE m == Len(account_transactions)
           a == Reports!AmountColumn
           Days == Reports!ReportDays
           T == Reports!TransactionDays
           When(i) == account_transactions[i].day
           Past(d) == {i \in 1 .. m : When(i) <= d}
           Known(d) == {e \in Days \cap T : e <= d}
<1>1. /\ m \in Nat /\ DOMAIN account_transactions = 1 .. m
      /\ \A i \in 1 .. m : When(i) \in 0 .. LastDay
      /\ \A d : d \in T <=> \E i \in 1 .. m : When(i) = d
  BY TransactionsAre
<1> SUFFICES ASSUME T \subseteq Days, NEW d \in Days
             PROVE  Reports!CashColumn[d] = IF Past(d) = {} THEN None
                                            ELSE PortfolioSize + Reports!Total(a, Past(d))
  BY <1>1 DEF Reports!CashIsCurrent
<1>2. d \in 0 .. LastDay /\ LastDay \in Nat /\ d \in Nat
  BY ReportDaysAre, ReportNumbers
<1>3. Reports!CashColumn[d] =
        IF Known(d) = {} THEN None
        ELSE Reports!Cash[CHOOSE e \in Known(d) : \A x \in Known(d) : x <= e]
  BY DEF Reports!CashColumn
<1>4. \A i \in 1 .. m : When(i) \in T /\ When(i) \in Days
  BY <1>1
<1>5. CASE Known(d) = {}
  <2>1. Past(d) = {}
    BY <1>4, <1>5
  <2> QED  BY <1>3, <1>5, <2>1
<1>6. CASE Known(d) # {}
  <2> DEFINE c == CHOOSE e \in Known(d) : \A x \in Known(d) : x <= e
  <2>1. \E e \in Known(d) : \A x \in Known(d) : x <= e
    <3>1. Known(d) \in SUBSET (0 .. LastDay)
      BY <1>1
    <3> HIDE DEF Known
    <3> QED  BY <1>2, <1>6, <3>1, Greatest
  <2>2. c \in Known(d) /\ \A x \in Known(d) : x <= c
    <3> HIDE DEF Known
    <3> QED  BY <2>1
  <2>3. Reports!CashColumn[d] = Reports!Cash[c]
    BY <1>3, <1>6
  <2> HIDE DEF c
  <2>4. c \in T /\ c <= d /\ c \in Int
    BY <1>1, <2>2
  <2>5. Past(c) = Past(d)
    <3>1. ASSUME NEW i \in 1 .. m PROVE When(i) <= c <=> When(i) <= d
      <4>1. When(i) \in Int /\ When(i) \in T /\ When(i) \in Days
        BY <1>1, <1>4
      <4>2. When(i) <= d => When(i) <= c
        BY <2>2, <4>1
      <4> QED  BY <1>2, <2>4, <4>1, <4>2
    <3> QED  BY <3>1
  <2>6. Past(d) # {}
    <3>1. PICK i \in 1 .. m : When(i) = c
      BY <1>1, <2>4
    <3> QED  BY <2>4, <3>1
  <2>7. Reports!Cash[c] = PortfolioSize + Reports!Total(a, Past(c))
    BY <2>4, CashIs
  <2> HIDE DEF Past, a
  <2> QED  BY <2>3, <2>5, <2>6, <2>7
<1> QED  BY <1>5, <1>6

\* Theorem: in every report, whatever the trades and transactions of a batch, the
\* days' revenues are the symbols' revenues and a saved round trip is the whole
\* batch, the equity of a symbol is what its trades leave on that day, and the
\* cash of a day is the initial cash and every transaction so far (analysis.py
\* and consolidate.py).
THEOREM ReportsAgreeAlways == Reports!Spec => []ReportsAgree
<1>1. TablesInv => ReportsAgree
  <2> SUFFICES ASSUME TablesInv PROVE ReportsAgree
    OBVIOUS
  <2>1. Reports!RevenueAgrees
    BY RevenueByDay, RevenueBySymbol, SavedIsBatch DEF Reports!RevenueAgrees
  <2> QED  BY <2>1, EquityHolds, CashHolds DEF ReportsAgree
<1> QED  BY <1>1, TablesInit, TablesStep, PTL DEF Reports!Spec

-----------------------------------------------------------------------------
(* Optimizer: combinations as the digits of a number.                        *)

LEMMA DivisionIs ==
  ASSUME NEW k \in Nat \ {0}, NEW q \in Nat, NEW r \in 0 .. k - 1
  PROVE  (k * q + r) \div k = q /\ (k * q + r) % k = r
<1> DEFINE x == k * q + r
           y == x \div k
<1>1. x \in Nat /\ k * q \in Nat
  OBVIOUS
<1>2. y \in Nat /\ k * y <= x /\ x < k * y + k
  BY <1>1, Quotient
<1>3. x = (k * (x \div k)) + (x % k)
  BY <1>1
<1>4. x = k * q + r
  OBVIOUS
<1> HIDE DEF x, y
<1>5. ~(y + 1 <= q)
  <2> SUFFICES ASSUME y + 1 <= q PROVE FALSE
    OBVIOUS
  <2>1. k * (y + 1) <= k * q /\ k * (y + 1) = k * y + k
    BY <1>2
  <2> QED  BY <1>1, <1>2, <1>4, <2>1
<1>6. ~(q + 1 <= y)
  <2> SUFFICES ASSUME q + 1 <= y PROVE FALSE
    OBVIOUS
  <2>1. k * (q + 1) <= k * y /\ k * (q + 1) = k * q + k
    BY <1>2
  <2> QED  BY <1>1, <1>2, <1>4, <2>1
<1>7. y = q
  BY <1>2, <1>5, <1>6
<1>8. x % k \in Int
  BY <1>1
<1>9. x % k = r
  BY <1>1, <1>3, <1>4, <1>7, <1>8 DEF y
<1> QED  BY <1>7, <1>9 DEF x, y

LEMMA DivisionTwice ==
  ASSUME NEW a \in Nat \ {0}, NEW b \in Nat \ {0}, NEW j \in Nat
  PROVE  (j \div b) \div a = j \div (a * b)
<1> DEFINE q == j \div b
           r == j % b
           h == q \div a
           s == q % a
<1>1. q \in Nat /\ r \in 0 .. b - 1 /\ j = b * q + r
  OBVIOUS
<1> HIDE DEF q, r
<1>2. h \in Nat /\ s \in 0 .. a - 1 /\ q = a * h + s
  BY <1>1
<1> HIDE DEF h, s
<1>3. a * b \in Nat \ {0} /\ a * h \in Nat
  BY <1>2
<1>4. b * (a * h + s) = (a * b) * h + b * s
  BY <1>2
<1>5. b * s + b <= a * b
  <2>1. s + 1 <= a
    BY <1>2
  <2>2. b * (s + 1) <= b * a /\ b * (s + 1) = b * s + b /\ b * a = a * b
    BY <1>2, <2>1
  <2> QED  BY <1>2, <2>2
<1>6. b * s + r \in 0 .. (a * b) - 1
  <2>1. b * s \in Nat
    BY <1>2
  <2> QED  BY <1>1, <1>3, <1>5, <2>1
<1>7. j = (a * b) * h + (b * s + r)
  <2>1. j = ((a * b) * h + b * s) + r
    BY <1>1, <1>2, <1>4
  <2>2. (a * b) * h \in Nat /\ b * s \in Nat
    BY <1>2, <1>3
  <2> QED  BY <1>1, <2>1, <2>2
<1>8. j \div (a * b) = h
  BY <1>2, <1>3, <1>6, <1>7, DivisionIs
<1> QED  BY <1>8 DEF q, h

\* The numbers L of values and the numbers S of combinations of the parameters from
\* one on.
Radix(n, L, S) ==
  /\ n \in Nat /\ L \in [1 .. n -> Nat \ {0}] /\ S \in [1 .. n + 1 -> Nat \ {0}]
  /\ S[n + 1] = 1
  /\ \A p \in 1 .. n : S[p] = L[p] * S[p + 1]

Digit(L, S, j, p) == (j \div S[p + 1]) % L[p]

\* Numbers below S[1] with the same digits are the same.
LEMMA DigitsDetermine ==
  ASSUME NEW n, NEW L, NEW S, Radix(n, L, S),
         NEW i \in 0 .. S[1] - 1, NEW j \in 0 .. S[1] - 1,
         \A p \in 1 .. n : Digit(L, S, i, p) = Digit(L, S, j, p)
  PROVE  i = j
<1> n \in Nat /\ L \in [1 .. n -> Nat \ {0}] /\ S \in [1 .. n + 1 -> Nat \ {0}]
  BY DEF Radix
<1>0. i \in Nat /\ j \in Nat /\ S[1] \in Nat \ {0} /\ i < S[1] /\ j < S[1]
  OBVIOUS
<1> DEFINE Bad == {p \in Nat : p \in 1 .. n + 1 /\ i \div S[p] # j \div S[p]}
<1>1. Bad = {}
  <2> SUFFICES ASSUME Bad # {} PROVE FALSE
    OBVIOUS
  <2>1. PICK m \in Bad : \A k \in Bad : m <= k
    BY Least
  <2>2. m \in 1 .. n + 1 /\ i \div S[m] # j \div S[m]
    OBVIOUS
  <2>3. CASE m = 1
    <3> DEFINE d == S[1]
    <3>1. d * 0 + i = i /\ d * 0 + j = j
      BY <1>0
    <3>2. (d * 0 + i) \div d = 0 /\ (d * 0 + j) \div d = 0
      BY <1>0, DivisionIs
    <3> QED  BY <2>2, <2>3, <3>1, <3>2
  <2>4. CASE m # 1
    <3> DEFINE p == m - 1
    <3>1. p \in 1 .. n /\ p \in Nat /\ p + 1 = m
      BY <2>2, <2>4
    <3>2. p \notin Bad
      <4> HIDE DEF Bad
      <4> QED  BY <2>1, <2>2, <3>1
    <3>3. i \div S[p] = j \div S[p]
      BY <3>1, <3>2
    <3> DEFINE a == L[p]
               b == S[m]
               x == i \div b
               y == j \div b
    <3>4. a \in Nat \ {0} /\ b \in Nat \ {0} /\ S[p] = a * b
      BY <2>2, <3>1 DEF Radix
    <3>5. x % a = y % a
      <4>1. Digit(L, S, i, p) = Digit(L, S, j, p)
        BY <3>1
      <4> QED  BY <3>1, <4>1 DEF Digit
    <3>6. x \div a = y \div a
      <4>1. i \div (a * b) = j \div (a * b)
        BY <3>3, <3>4
      <4> HIDE DEF a, b
      <4>2. (i \div b) \div a = i \div (a * b) /\ (j \div b) \div a = j \div (a * b)
        BY <1>0, <3>4, DivisionTwice
      <4> QED  BY <4>1, <4>2
    <3>7. x \in Nat /\ y \in Nat /\ x # y
      BY <1>0, <2>2, <3>4, Quotient
    <3> HIDE DEF a, b, x, y, p
    <3>8. x = (a * (x \div a)) + (x % a) /\ y = (a * (y \div a)) + (y % a)
      BY <3>4, <3>7
    <3> QED  BY <3>5, <3>6, <3>7, <3>8
  <2> QED  BY <2>3, <2>4
<1>2. i \div S[n + 1] = j \div S[n + 1]
  BY <1>1
<1>3. S[n + 1] = 1
  BY DEF Radix
<1> QED  BY <1>0, <1>2, <1>3

\* The numbers written with the first digits of g.
Heads(n, L, g, V) ==
  /\ V \in [1 .. n + 1 -> Nat] /\ V[1] = 0
  /\ \A p \in 1 .. n : V[p + 1] = L[p] * V[p] + g[p]

LEMMA HeadsExist ==
  ASSUME NEW n \in Nat, NEW L \in [1 .. n -> Nat \ {0}], NEW g \in [1 .. n -> Nat]
  PROVE  \E V : Heads(n, L, g, V)
<1> DEFINE Bad == {m \in Nat : m <= n /\ ~\E V : Heads(m, L, g, V)}
<1>1. SUFFICES ASSUME Bad # {} PROVE FALSE
  <2> SUFFICES ASSUME Bad = {} PROVE \E V : Heads(n, L, g, V)
    OBVIOUS
  <2> HIDE DEF Bad
  <2>1. n \in Nat /\ n <= n /\ n \notin Bad
    OBVIOUS
  <2> QED  BY <2>1 DEF Bad
<1>2. PICK m \in Bad : \A k \in Bad : m <= k
  BY <1>1, Least
<1>3. m \in Nat /\ m <= n /\ ~\E V : Heads(m, L, g, V)
  OBVIOUS
<1>4. m # 0
  <2> SUFFICES ASSUME m = 0 PROVE FALSE
    OBVIOUS
  <2> DEFINE V == [p \in 1 .. 1 |-> 0]
  <2>1. Heads(m, L, g, V)
    BY DEF Heads
  <2> QED  BY <1>3, <2>1
<1>5. m - 1 \in Nat /\ m - 1 <= n /\ m - 1 \notin Bad
  <2> HIDE DEF Bad
  <2> QED  BY <1>2, <1>3, <1>4
<1>6. PICK V : Heads(m - 1, L, g, V)
  BY <1>5
<1> DEFINE W == [p \in 1 .. m + 1 |-> IF p <= m THEN V[p] ELSE L[m] * V[m] + g[m]]
<1>7. V \in [1 .. m -> Nat] /\ V[1] = 0
      /\ \A p \in 1 .. m - 1 : V[p + 1] = L[p] * V[p] + g[p]
  <2>1. (m - 1) + 1 = m
    BY <1>3
  <2> QED  BY <1>6, <2>1 DEF Heads
<1>8. m \in 1 .. n /\ m \in 1 .. m /\ 1 \in 1 .. m
  BY <1>3, <1>4
<1>9. L[m] * V[m] + g[m] \in Nat
  <2>1. L[m] \in Nat /\ V[m] \in Nat /\ g[m] \in Nat
    BY <1>7, <1>8
  <2>2. \A x, y, z \in Nat : x * y + z \in Nat
    OBVIOUS
  <2> QED  BY <2>1, <2>2
<1>10. W \in [1 .. m + 1 -> Nat] /\ W[1] = 0
  BY <1>3, <1>7, <1>8, <1>9
<1>11. ASSUME NEW p \in 1 .. m PROVE W[p + 1] = L[p] * W[p] + g[p]
  <2>1. CASE p = m
    <3>1. W[m + 1] = L[m] * V[m] + g[m] /\ W[m] = V[m]
      BY <1>3, <1>8
    <3> HIDE DEF W
    <3> QED  BY <2>1, <3>1
  <2>2. CASE p # m
    <3>1. p \in 1 .. m - 1 /\ p + 1 \in 1 .. m /\ p + 1 <= m /\ p <= m
      BY <1>3, <2>2
    <3>2. W[p + 1] = V[p + 1] /\ W[p] = V[p]
      BY <1>3, <3>1
    <3> HIDE DEF W
    <3> QED  BY <1>7, <3>1, <3>2
  <2> QED  BY <2>1, <2>2
<1> HIDE DEF W
<1>12. Heads(m, L, g, W)
  BY <1>10, <1>11 DEF Heads
<1> QED  BY <1>3, <1>12

LEMMA TwoDigits ==
  ASSUME NEW a \in Nat \ {0}, NEW b \in Nat \ {0}, NEW v \in Nat, NEW d \in Nat,
         NEW r \in Nat, d < a, r < b
  PROVE  /\ b * d + r \in 0 .. (a * b) - 1
         /\ b * (a * v + d) + r = (a * b) * v + (b * d + r)
<1>1. b * (a * v + d) = (a * b) * v + b * d
  OBVIOUS
<1>2. b * d \in Nat /\ a * b \in Nat /\ a * v \in Nat
  OBVIOUS
<1>3. b * d + b <= a * b
  <2>1. d + 1 <= a
    OBVIOUS
  <2>2. b * (d + 1) <= b * a
    BY <2>1
  <2>3. b * (d + 1) = b * d + b /\ b * a = a * b
    OBVIOUS
  <2> QED  BY <2>2, <2>3
<1> DEFINE x == b * d
           y == a * b
<1>4. x \in Nat /\ y \in Nat /\ x + b <= y
  BY <1>2, <1>3
<1> HIDE DEF x, y
<1>5. x + r \in 0 .. y - 1
  BY <1>4
<1>6. (a * b) * v \in Nat
  BY <1>2
<1>7. b * (a * v + d) + r = (a * b) * v + (b * d + r)
  BY <1>1, <1>2, <1>6
<1> QED  BY <1>5, <1>7 DEF x, y

\* For all digits there is a number below S[1].
Digits(n, L, g) == g \in [1 .. n -> Nat] /\ \A p \in 1 .. n : g[p] < L[p]
Written(n, L, S, j, g) == \A p \in 1 .. n : Digit(L, S, j, p) = g[p]

LEMMA DigitsExist ==
  ASSUME NEW n, NEW L, NEW S, NEW g, Radix(n, L, S), Digits(n, L, g)
  PROVE  \E j \in 0 .. S[1] - 1 : Written(n, L, S, j, g)
<1> g \in [1 .. n -> Nat] /\ \A p \in 1 .. n : g[p] < L[p]
  BY DEF Digits
<1> n \in Nat /\ L \in [1 .. n -> Nat \ {0}] /\ S \in [1 .. n + 1 -> Nat \ {0}]
  BY DEF Radix
<1>1. PICK V : Heads(n, L, g, V)
  BY HeadsExist
<1>2. /\ V \in [1 .. n + 1 -> Nat] /\ V[1] = 0
      /\ \A p \in 1 .. n : V[p + 1] = L[p] * V[p] + g[p]
  BY <1>1 DEF Heads
<1> DEFINE j == V[n + 1]
           Ends(p) == \E r \in 0 .. S[p] - 1 : j = S[p] * V[p] + r
           Bad == {m \in Nat : m <= n /\ ~Ends(n + 1 - m)}
<1>3. j \in Nat
  BY <1>2
<1>4. Bad = {}
  <2> SUFFICES ASSUME Bad # {} PROVE FALSE
    OBVIOUS
  <2>1. PICK m \in Bad : \A k \in Bad : m <= k
    BY Least
  <2>2. m \in Nat /\ m <= n /\ ~Ends(n + 1 - m)
    OBVIOUS
  <2>3. m # 0
    <3>1. S[n + 1] = 1
      BY DEF Radix
    <3>2. 0 \in 0 .. S[n + 1] - 1 /\ j = S[n + 1] * V[n + 1] + 0
      BY <1>3, <3>1
    <3>3. Ends(n + 1)
      BY <3>2
    <3>4. n + 1 - 0 = n + 1
      OBVIOUS
    <3> QED  BY <2>2, <3>3, <3>4
  <2>4. m - 1 \in Nat /\ m - 1 <= n /\ m - 1 \notin Bad
    <3> HIDE DEF Bad
    <3> QED  BY <2>1, <2>2, <2>3
  <2>5. Ends(n + 1 - (m - 1))
    BY <2>4
  <2> DEFINE p == n + 1 - m
  <2>6. p \in 1 .. n /\ p \in Nat /\ n + 1 - (m - 1) = p + 1 /\ p + 1 \in 1 .. n + 1
        /\ p \in 1 .. n + 1
    BY <2>2, <2>3
  <2> HIDE DEF p
  <2>7. PICK r \in 0 .. S[p + 1] - 1 : j = S[p + 1] * V[p + 1] + r
    BY <2>5, <2>6
  <2> DEFINE a == L[p]
             b == S[p + 1]
             v == V[p]
             d == g[p]
  <2>8. /\ a \in Nat \ {0} /\ b \in Nat \ {0} /\ v \in Nat /\ d \in Nat /\ d < a
        /\ S[p] = a * b /\ V[p + 1] = a * v + d
    BY <1>2, <2>6 DEF Radix
  <2>9. r \in Nat /\ r < b /\ j = b * (a * v + d) + r
    BY <2>7, <2>8
  <2> HIDE DEF a, b, v, d, j
  <2>10. b * d + r \in 0 .. (a * b) - 1
        /\ b * (a * v + d) + r = (a * b) * v + (b * d + r)
    <3>1. /\ a \in Nat \ {0} /\ b \in Nat \ {0} /\ v \in Nat /\ d \in Nat /\ d < a
          /\ r \in Nat /\ r < b
      BY <2>8, <2>9
    <3>2. b * d + r \in 0 .. (a * b) - 1
      BY <3>1, TwoDigits
    <3>3. b * (a * v + d) + r = (a * b) * v + (b * d + r)
      BY <3>1, TwoDigits
    <3> QED  BY <3>2, <3>3
  <2>12. j = (a * b) * v + (b * d + r)
    BY <2>9, <2>10
  <2>13. Ends(p)
    BY <2>8, <2>10, <2>12 DEF v
  <2> QED  BY <2>2, <2>13 DEF p
<1>5. ASSUME NEW p \in 1 .. n + 1 PROVE Ends(p)
  <2>1. n + 1 - p \in Nat /\ n + 1 - p <= n /\ n + 1 - (n + 1 - p) = p
    OBVIOUS
  <2> HIDE DEF Ends
  <2> QED  BY <1>4, <2>1
<1>6. j \in 0 .. S[1] - 1
  <2>1. PICK r \in 0 .. S[1] - 1 : j = S[1] * V[1] + r
    <3>1. 1 \in 1 .. n + 1
      OBVIOUS
    <3> QED  BY <1>5, <3>1
  <2>2. S[1] * V[1] = 0
    BY <1>2
  <2> QED  BY <2>1, <2>2
<1>7. ASSUME NEW p \in 1 .. n PROVE Digit(L, S, j, p) = g[p]
  <2>1. p + 1 \in 1 .. n + 1
    OBVIOUS
  <2>2. PICK r \in 0 .. S[p + 1] - 1 : j = S[p + 1] * V[p + 1] + r
    BY <1>5, <2>1
  <2>3. S[p + 1] \in Nat \ {0} /\ V[p + 1] \in Nat
    BY <1>2, <2>1
  <2>4. j \div S[p + 1] = V[p + 1]
    BY <2>2, <2>3, DivisionIs
  <2>5. L[p] \in Nat \ {0} /\ V[p] \in Nat /\ g[p] \in 0 .. L[p] - 1
    <3>1. p \in 1 .. n + 1 /\ g[p] \in Nat /\ g[p] < L[p] /\ L[p] \in Nat \ {0}
      OBVIOUS
    <3> QED  BY <1>2, <3>1
  <2>6. (L[p] * V[p] + g[p]) % L[p] = g[p]
    BY <2>5, DivisionIs
  <2> QED  BY <1>2, <2>4, <2>6 DEF Digit
<1> QED  BY <1>6, <1>7 DEF Written

-----------------------------------------------------------------------------
(* Optimizer: the numbers of combinations.                                   *)

IsSizes(F, n, L) ==
  F = [p \in (1 .. n) \cup {n + 1} |-> IF p = n + 1 THEN 1 ELSE L[p] * F[p + 1]]

\* The sizes from one parameter on.
Ends(F, n, L, k) ==
  /\ F \in [k .. n + 1 -> Nat] /\ F[n + 1] = 1
  /\ \A p \in k .. n : F[p] = L[p] * F[p + 1]

LEMMA EndsExist ==
  ASSUME NEW n \in Nat, NEW L \in [1 .. n -> Nat]
  PROVE  \E F : Ends(F, n, L, 1)
<1> DEFINE Bad == {m \in Nat : m <= n /\ ~\E F : Ends(F, n, L, n + 1 - m)}
<1>1. SUFFICES ASSUME Bad # {} PROVE FALSE
  <2> SUFFICES ASSUME Bad = {} PROVE \E F : Ends(F, n, L, 1)
    OBVIOUS
  <2> HIDE DEF Bad
  <2>1. n \in Nat /\ n <= n /\ n \notin Bad /\ n + 1 - n = 1
    OBVIOUS
  <2> QED  BY <2>1 DEF Bad
<1>2. PICK m \in Bad : \A k \in Bad : m <= k
  BY <1>1, Least
<1>3. m \in Nat /\ m <= n /\ ~\E F : Ends(F, n, L, n + 1 - m)
  OBVIOUS
<1>4. m # 0
  <2> SUFFICES ASSUME m = 0 PROVE FALSE
    OBVIOUS
  <2> DEFINE F == [p \in n + 1 .. n + 1 |-> 1]
  <2>1. n + 1 - m = n + 1
    OBVIOUS
  <2>2. Ends(F, n, L, n + 1)
    BY DEF Ends
  <2> HIDE DEF F
  <2> QED  BY <1>3, <2>1, <2>2
<1>5. m - 1 \in Nat /\ m - 1 <= n /\ m - 1 \notin Bad
  <2> HIDE DEF Bad
  <2> QED  BY <1>2, <1>3, <1>4
<1> DEFINE q == n + 1 - m
<1>6. q \in 1 .. n /\ q \in Nat /\ n + 1 - (m - 1) = q + 1
  BY <1>3, <1>4
<1>7. PICK F : Ends(F, n, L, q + 1)
  BY <1>5, <1>6
<1> HIDE DEF q
<1>8. /\ F \in [q + 1 .. n + 1 -> Nat] /\ F[n + 1] = 1
      /\ \A p \in q + 1 .. n : F[p] = L[p] * F[p + 1]
  BY <1>7 DEF Ends
<1> DEFINE G == [p \in q .. n + 1 |-> IF p = q THEN L[q] * F[q + 1] ELSE F[p]]
<1>9. L[q] * F[q + 1] \in Nat
  <2>1. q + 1 \in q + 1 .. n + 1
    BY <1>6
  <2>2. L[q] \in Nat /\ F[q + 1] \in Nat
    BY <1>6, <1>8, <2>1
  <2>3. \A x, y \in Nat : x * y \in Nat
    OBVIOUS
  <2> QED  BY <2>2, <2>3
<1>10. G \in [q .. n + 1 -> Nat] /\ G[n + 1] = 1
  BY <1>6, <1>8, <1>9
<1>11. ASSUME NEW p \in q .. n PROVE G[p] = L[p] * G[p + 1]
  <2>1. p \in q .. n + 1 /\ p + 1 \in q .. n + 1 /\ p + 1 # q
    BY <1>6
  <2>2. G[p + 1] = F[p + 1]
    BY <2>1
  <2>3. CASE p = q
    <3>1. G[p] = L[q] * F[q + 1]
      BY <2>1, <2>3
    <3> HIDE DEF G
    <3> QED  BY <2>2, <2>3, <3>1
  <2>4. CASE p # q
    <3>1. G[p] = F[p] /\ p \in q + 1 .. n
      BY <1>6, <2>1, <2>4
    <3> HIDE DEF G
    <3> QED  BY <1>8, <2>2, <3>1
  <2> QED  BY <2>3, <2>4
<1> HIDE DEF G
<1>12. Ends(G, n, L, q)
  BY <1>10, <1>11 DEF Ends
<1> QED  BY <1>3, <1>12 DEF q

LEMMA SizesExist ==
  ASSUME NEW n \in Nat, NEW L \in [1 .. n -> Nat]
  PROVE  \E F : IsSizes(F, n, L)
<1>1. PICK F : Ends(F, n, L, 1)
  BY EndsExist
<1>2. /\ F \in [1 .. n + 1 -> Nat] /\ F[n + 1] = 1
      /\ \A p \in 1 .. n : F[p] = L[p] * F[p + 1]
  BY <1>1 DEF Ends
<1>3. (1 .. n) \cup {n + 1} = 1 .. n + 1
  OBVIOUS
<1> DEFINE G == [p \in 1 .. n + 1 |-> IF p = n + 1 THEN 1 ELSE L[p] * F[p + 1]]
<1>4. ASSUME NEW p \in 1 .. n + 1 PROVE G[p] = F[p]
  <2>1. CASE p = n + 1
    BY <1>2, <2>1
  <2>2. CASE p # n + 1
    <3>1. p \in 1 .. n /\ G[p] = L[p] * F[p + 1]
      BY <2>2
    <3> QED  BY <1>2, <3>1
  <2> QED  BY <2>1, <2>2
<1>5. F = G
  BY <1>2, <1>4
<1>6. IsSizes(F, n, L)
  BY <1>3, <1>5 DEF IsSizes
<1> QED  BY <1>6

\* When no list is empty, the sizes make a radix.
LEMMA SizesAreRadix ==
  ASSUME NEW n \in Nat, NEW L \in [1 .. n -> Nat \ {0}], NEW F, IsSizes(F, n, L)
  PROVE  Radix(n, L, F)
<1>1. (1 .. n) \cup {n + 1} = 1 .. n + 1
  OBVIOUS
<1>2. F = [p \in 1 .. n + 1 |-> IF p = n + 1 THEN 1 ELSE L[p] * F[p + 1]]
  BY <1>1 DEF IsSizes
<1> HIDE DEF IsSizes
<1>3. F[n + 1] = 1 /\ \A p \in 1 .. n : F[p] = L[p] * F[p + 1]
  <2> DEFINE E(p) == IF p = n + 1 THEN 1 ELSE L[p] * F[p + 1]
  <2>1. \A p \in 1 .. n + 1 : F[p] = E(p)
    <3> HIDE DEF E
    <3>1. F = [p \in 1 .. n + 1 |-> E(p)]
      BY <1>2 DEF E
    <3> QED  BY <3>1
  <2>2. n + 1 \in 1 .. n + 1 /\ \A p \in 1 .. n : p \in 1 .. n + 1 /\ p # n + 1
    OBVIOUS
  <2> QED  BY <2>1, <2>2
<1>4. F = [p \in 1 .. n + 1 |-> F[p]]
  BY <1>2
<1> DEFINE Bad == {m \in Nat : m <= n /\ F[n + 1 - m] \notin Nat \ {0}}
<1>5. Bad = {}
  <2> SUFFICES ASSUME Bad # {} PROVE FALSE
    OBVIOUS
  <2>1. PICK m \in Bad : \A k \in Bad : m <= k
    BY Least
  <2>2. m \in Nat /\ m <= n /\ F[n + 1 - m] \notin Nat \ {0}
    OBVIOUS
  <2>3. m # 0
    <3> SUFFICES ASSUME m = 0 PROVE FALSE
      OBVIOUS
    <3>1. n + 1 - m = n + 1
      OBVIOUS
    <3> QED  BY <1>3, <2>2, <3>1
  <2>4. m - 1 \in Nat /\ m - 1 <= n /\ m - 1 \notin Bad
    <3> HIDE DEF Bad
    <3> QED  BY <2>1, <2>2, <2>3
  <2>5. F[n + 1 - (m - 1)] \in Nat \ {0}
    BY <2>4
  <2> DEFINE p == n + 1 - m
  <2>6. p \in 1 .. n /\ n + 1 - (m - 1) = p + 1
    BY <2>2, <2>3
  <2>7. L[p] \in Nat \ {0} /\ F[p + 1] \in Nat \ {0} /\ F[p] = L[p] * F[p + 1]
    BY <1>3, <2>5, <2>6
  <2>8. \A x, y \in Nat \ {0} : x * y \in Nat \ {0}
    OBVIOUS
  <2>9. F[p] \in Nat \ {0}
    BY <2>7, <2>8
  <2> QED  BY <2>2, <2>9
<1>6. ASSUME NEW p \in 1 .. n + 1 PROVE F[p] \in Nat \ {0}
  <2>1. n + 1 - p \in Nat /\ n + 1 - p <= n /\ n + 1 - (n + 1 - p) = p
    OBVIOUS
  <2> QED  BY <1>5, <2>1
<1>7. F \in [1 .. n + 1 -> Nat \ {0}]
  BY <1>4, <1>6
<1> QED  BY <1>3, <1>7 DEF Radix

\* Lists of different numbers, and the combinations of their values.
Lists(n, L, P) ==
  /\ n \in Nat /\ L \in [1 .. n -> Nat \ {0}] /\ P \in [1 .. n -> Seq(Int)]
  /\ \A p \in 1 .. n : Len(P[p]) = L[p]
  /\ \A p \in 1 .. n : \A j, k \in 1 .. L[p] : P[p][j] = P[p][k] => j = k
Listed(L, P, p) == {P[p][k] : k \in 1 .. L[p]}
Choices(n, L, P) == {f \in [1 .. n -> Int] : \A p \in 1 .. n : f[p] \in Listed(L, P, p)}
Chosen(n, L, S, P, i) == [p \in 1 .. n |-> P[p][Digit(L, S, i - 1, p) + 1]]

\* The combinations in the order of their numbers are all of them, each once.
LEMMA ChosenAre ==
  ASSUME NEW n, NEW L, NEW S, NEW P, Radix(n, L, S), Lists(n, L, P)
  PROVE  /\ Choices(n, L, P) = {Chosen(n, L, S, P, i) : i \in 1 .. S[1]}
         /\ Cardinality(Choices(n, L, P)) = S[1]
<1> DEFINE C == Choices(n, L, P)
           B == [i \in 1 .. S[1] |-> Chosen(n, L, S, P, i)]
<1>1. /\ n \in Nat /\ L \in [1 .. n -> Nat \ {0}] /\ P \in [1 .. n -> Seq(Int)]
      /\ \A p \in 1 .. n : Len(P[p]) = L[p]
      /\ \A p \in 1 .. n : \A j, k \in 1 .. L[p] : P[p][j] = P[p][k] => j = k
  BY DEF Lists
<1>2. S \in [1 .. n + 1 -> Nat \ {0}] /\ 1 \in 1 .. n + 1 /\ S[1] \in Nat \ {0}
  BY <1>1 DEF Radix
<1>3. ASSUME NEW j \in Nat, NEW p \in 1 .. n
      PROVE  Digit(L, S, j, p) \in 0 .. L[p] - 1
  <2>1. S[p + 1] \in Nat \ {0} /\ L[p] \in Nat \ {0}
    BY <1>1, <1>2
  <2>2. j \div S[p + 1] \in Nat
    BY <2>1, Quotient
  <2>3. \A x \in Nat, y \in Nat \ {0} : x % y \in 0 .. y - 1
    OBVIOUS
  <2> QED  BY <2>1, <2>2, <2>3 DEF Digit
<1>4. ASSUME NEW i \in 1 .. S[1]
      PROVE  i - 1 \in Nat /\ i - 1 \in 0 .. S[1] - 1
  BY <1>2
<1>5. ASSUME NEW i \in 1 .. S[1] PROVE Chosen(n, L, S, P, i) \in C
  <2>1. ASSUME NEW p \in 1 .. n
        PROVE  P[p][Digit(L, S, i - 1, p) + 1] \in Listed(L, P, p)
               /\ P[p][Digit(L, S, i - 1, p) + 1] \in Int
    <3> DEFINE d == Digit(L, S, i - 1, p)
    <3>1. d \in 0 .. L[p] - 1 /\ L[p] \in Nat \ {0}
      BY <1>1, <1>3, <1>4
    <3> HIDE DEF d
    <3>2. d + 1 \in 1 .. L[p]
      BY <3>1
    <3>3. P[p] \in Seq(Int) /\ Len(P[p]) = L[p]
      BY <1>1
    <3>4. P[p][d + 1] \in Listed(L, P, p)
      BY <3>2 DEF Listed
    <3>5. P[p][d + 1] \in Int
      BY <3>2, <3>3
    <3> QED  BY <3>4, <3>5 DEF d
  <2> QED  BY <2>1 DEF Chosen, Choices
<1>6. ASSUME NEW i \in 1 .. S[1], NEW j \in 1 .. S[1],
             Chosen(n, L, S, P, i) = Chosen(n, L, S, P, j)
      PROVE  i = j
  <2>1. ASSUME NEW p \in 1 .. n PROVE Digit(L, S, i - 1, p) = Digit(L, S, j - 1, p)
    <3> DEFINE d == Digit(L, S, i - 1, p)
               e == Digit(L, S, j - 1, p)
    <3>1. d \in 0 .. L[p] - 1 /\ e \in 0 .. L[p] - 1 /\ L[p] \in Nat \ {0}
      BY <1>1, <1>3, <1>4
    <3>2. Chosen(n, L, S, P, i)[p] = P[p][d + 1] /\ Chosen(n, L, S, P, j)[p] = P[p][e + 1]
      BY DEF Chosen
    <3> HIDE DEF d, e
    <3>3. P[p][d + 1] = P[p][e + 1]
      BY <1>6, <3>2
    <3>4. d + 1 \in 1 .. L[p] /\ e + 1 \in 1 .. L[p]
      BY <3>1
    <3>5. d + 1 = e + 1
      BY <1>1, <3>3, <3>4
    <3>6. d = e
      BY <3>1, <3>5
    <3> QED  BY <3>6 DEF d, e
  <2>2. i - 1 = j - 1
    BY <1>4, <2>1, DigitsDetermine
  <2> QED  BY <2>2
<1>7. ASSUME NEW f \in C PROVE \E i \in 1 .. S[1] : Chosen(n, L, S, P, i) = f
  <2>1. f \in [1 .. n -> Int] /\ \A p \in 1 .. n : f[p] \in Listed(L, P, p)
    BY DEF Choices
  <2> DEFINE Place(p) == CHOOSE k \in 1 .. L[p] : P[p][k] = f[p]
  <2>2. ASSUME NEW p \in 1 .. n PROVE Place(p) \in 1 .. L[p] /\ P[p][Place(p)] = f[p]
    <3>1. \E k \in 1 .. L[p] : P[p][k] = f[p]
      BY <2>1 DEF Listed
    <3> QED  BY <3>1
  <2> HIDE DEF Place
  <2>3. \A p \in 1 .. n : L[p] \in Nat /\ Place(p) - 1 \in Nat /\ Place(p) - 1 < L[p]
    BY <1>1, <2>2
  <2>4. PICK g \in [1 .. n -> Nat] : \A p \in 1 .. n : g[p] = Place(p) - 1
    <3>1. [p \in 1 .. n |-> Place(p) - 1] \in [1 .. n -> Nat]
      BY <2>3
    <3>2. \A p \in 1 .. n : [q \in 1 .. n |-> Place(q) - 1][p] = Place(p) - 1
      OBVIOUS
    <3> QED  BY <3>1, <3>2
  <2>5. PICK j \in 0 .. S[1] - 1 : \A p \in 1 .. n : Digit(L, S, j, p) = g[p]
    <3>1. Digits(n, L, g)
      BY <2>3, <2>4 DEF Digits
    <3>2. PICK j \in 0 .. S[1] - 1 : Written(n, L, S, j, g)
      BY <3>1, DigitsExist
    <3> QED  BY <3>2 DEF Written
  <2>6. j + 1 \in 1 .. S[1] /\ (j + 1) - 1 = j
    BY <1>2
  <2>7. ASSUME NEW p \in 1 .. n PROVE P[p][Digit(L, S, (j + 1) - 1, p) + 1] = f[p]
    <3>1. Digit(L, S, (j + 1) - 1, p) = Place(p) - 1
      BY <2>4, <2>5, <2>6
    <3>2. (Place(p) - 1) + 1 = Place(p)
      BY <2>2
    <3> QED  BY <2>2, <3>1, <3>2
  <2>8. Chosen(n, L, S, P, j + 1) = f
    BY <2>1, <2>7 DEF Chosen
  <2> QED  BY <2>6, <2>8
<1> HIDE DEF C
<1>8. C = {Chosen(n, L, S, P, i) : i \in 1 .. S[1]}
  BY <1>5, <1>7
<1>9. B \in Bijection(1 .. S[1], C)
  <2>1. B \in [1 .. S[1] -> C]
    BY <1>5
  <2>2. \A i, j \in 1 .. S[1] : B[i] = B[j] => i = j
    BY <1>6
  <2>3. \A f \in C : \E i \in 1 .. S[1] : B[i] = f
    BY <1>7
  <2> HIDE DEF B
  <2> QED  BY <2>1, <2>2, <2>3
    DEF Bijection, Injection, Surjection, IsInjective
<1>10. ExistsBijection(1 .. S[1], C)
  BY <1>9 DEF ExistsBijection
<1>11. IsFiniteSet(1 .. S[1]) /\ Cardinality(1 .. S[1]) = S[1]
  BY <1>2, FS_Interval
<1>12. Cardinality(C) = S[1]
  BY <1>10, <1>11, FS_Bijection
<1> QED  BY <1>8, <1>12 DEF C

-----------------------------------------------------------------------------
(* Optimizer: the values of a parameter, and the waves.                      *)

\* The number of steps from lo that reach hi.
Reach(lo, hi, d) == (hi - lo + d - 1) \div d

LEMMA ReachIs ==
  ASSUME NEW lo \in Int, NEW hi \in Int, lo <= hi, NEW d \in Nat \ {0}, NEW k \in Nat
  PROVE  /\ Reach(lo, hi, d) \in Nat
         /\ k = 0 \/ lo + (k - 1) * d < hi => k <= Reach(lo, hi, d)
         /\ lo + k * d >= hi => Reach(lo, hi, d) <= k
<1> DEFINE x == hi - lo + d - 1
           s == Reach(lo, hi, d)
<1>1. x \in Nat /\ x = hi - lo + d - 1
  OBVIOUS
<1> HIDE DEF x
<1>2. s \in Nat /\ d * s <= x /\ x < d * s + d
  <2>1. s = x \div d
    BY DEF Reach, x
  <2> QED  BY <1>1, <2>1, Quotient
<1> HIDE DEF s
<1>3. ASSUME lo + (k - 1) * d < hi PROVE k <= s
  <2> SUFFICES ASSUME s + 1 <= k PROVE FALSE
    BY <1>2
  <2>1. d * (s + 1) <= d * k /\ d * (s + 1) = d * s + d
    BY <1>2
  <2>2. (k - 1) * d = d * k - d /\ d * k \in Nat
    OBVIOUS
  <2> QED  BY <1>1, <1>2, <1>3, <2>1, <2>2
<1>4. ASSUME lo + k * d >= hi PROVE s <= k
  <2> SUFFICES ASSUME k + 1 <= s PROVE FALSE
    BY <1>2
  <2>1. d * (k + 1) <= d * s /\ d * (k + 1) = d * k + d
    BY <1>2
  <2>2. k * d = d * k /\ d * k \in Nat
    OBVIOUS
  <2> QED  BY <1>1, <1>2, <1>4, <2>1, <2>2
<1> QED  BY <1>2, <1>3, <1>4 DEF s

SizesOf(P) ==
  CHOOSE F : F = [p \in Optimizing!Params \cup {NumParams + 1} |->
                    IF p = NumParams + 1 THEN 1 ELSE Len(P[p]) * F[p + 1]]
Combined(P, i) ==
  [p \in Optimizing!Params |->
     P[p][(((i - 1) \div SizesOf(P)[p + 1]) % Len(P[p])) + 1]]

LEMMA CombinationIs ==
  /\ Optimizing!Combinations = SizesOf(pools)[1]
  /\ \A i : Optimizing!Combination(i) = Combined(pools, i)
<1>1. Optimizing!Size = SizesOf(pools)
  BY DEF Optimizing!Size, SizesOf
<1> QED  BY <1>1 DEF Optimizing!Combinations, Optimizing!Combination, Combined

LEMMA OptimizerNumbers ==
  /\ NumParams \in Nat \ {0} /\ MaxPool \in Nat \ {0} /\ None \notin Int
  /\ Optimizing!Params = 1 .. NumParams
  /\ \A c \in Optimizing!Configurations :
       c.min \in Int /\ c.max \in Int /\ c.delta \in Nat \ {0} /\ c.min <= c.max
  BY OptimizerAssumption
     DEF Optimizing!ConstantsAssumption, Optimizing!Params, Optimizing!Configurations

\* What was taken from a parameter without a zero: its values from the minimum on,
\* the last of which may have reached the maximum.
Drawn(p) ==
  /\ \A k \in 1 .. Len(pools[p]) : pools[p][k] = param[p].min + (k - 1) * param[p].delta
  /\ \A k \in 1 .. Len(pools[p]) - 1 : pools[p][k] < param[p].max
  /\ Len(pools[p]) = 0 => value[p] = None
  /\ Len(pools[p]) # 0 => value[p] = pools[p][Len(pools[p])]

Clear == \A p \in Optimizing!Params : Optimizing!Usable(p)

\* The backtests started are the first combinations of lists that are complete.
GridInv ==
  /\ param \in [Optimizing!Params -> Optimizing!Configurations]
  /\ value \in [Optimizing!Params -> Int \cup {None}]
  /\ pools \in [Optimizing!Params -> Seq(Int)]
  /\ \A p \in Optimizing!Params : Len(pools[p]) <= MaxPool
  /\ phase \in {"pools", "start", "join", "done", "failed"}
  /\ started \in Seq({Combined(pools, i) : i \in Nat})
  /\ \A i \in 1 .. Len(started) : started[i] = Combined(pools, i)
  /\ waiting \cup running \cup sessions \subseteq 1 .. Len(started)
  /\ phase \in {"pools", "failed"} => started = <<>>
  /\ phase \in {"start", "join", "done"} =>
       /\ \A p \in Optimizing!Params : Optimizing!Stops(p)
       /\ Len(started) # 0 => Len(started) <= SizesOf(pools)[1]
  /\ phase = "done" => Len(started) >= SizesOf(pools)[1]
  /\ Clear => \A p \in Optimizing!Params : Drawn(p)

LEMMA GridInit == Optimizing!Init => GridInv
<1> SUFFICES ASSUME Optimizing!Init PROVE GridInv
  OBVIOUS
<1>1. \A p \in Optimizing!Params : pools[p] = <<>> /\ value[p] = None
  BY DEF Optimizing!Init
<1>2. pools \in [Optimizing!Params -> Seq(Int)] /\ value \in [Optimizing!Params -> Int \cup {None}]
  BY DEF Optimizing!Init
<1>3. \A p \in Optimizing!Params : Drawn(p) /\ Len(pools[p]) <= MaxPool
  BY <1>1, OptimizerNumbers DEF Drawn
<1> QED  BY <1>2, <1>3 DEF Optimizing!Init, GridInv

\* With the lists and the backtests, what is said of them stays.
LEMMA GridSame ==
  ASSUME GridInv, UNCHANGED <<param, value, pools>>
  PROVE  /\ \A p \in Optimizing!Params : (Drawn(p))' <=> Drawn(p)
         /\ Clear' <=> Clear
         /\ \A p \in Optimizing!Params : Optimizing!Stops(p)' <=> Optimizing!Stops(p)
         /\ SizesOf(pools)' = SizesOf(pools)
         /\ \A i : Combined(pools, i)' = Combined(pools, i)
<1>1. \A p \in Optimizing!Params : (Drawn(p))' <=> Drawn(p)
  BY DEF Drawn
<1>2. Clear' <=> Clear
  BY DEF Clear, Optimizing!Usable, Optimizing!Grid
<1>3. \A p \in Optimizing!Params : Optimizing!Stops(p)' <=> Optimizing!Stops(p)
  BY DEF Optimizing!Stops, Optimizing!Truthy
<1>4. SizesOf(pools)' = SizesOf(pools)
  OBVIOUS
<1>5. \A i : Combined(pools, i)' = Combined(pools, i)
  OBVIOUS
<1> QED  BY <1>1, <1>2, <1>3, <1>4, <1>5

\* A value that was taken is one of the grid.
LEMMA DrawnIs ==
  ASSUME GridInv, Clear, NEW p \in Optimizing!Params, Len(pools[p]) # 0
  PROVE  LET m == Len(pools[p])
             s == Reach(param[p].min, param[p].max, param[p].delta)
         IN /\ m \in Nat \ {0} /\ m - 1 <= s /\ s \in Nat
            /\ value[p] = param[p].min + (m - 1) * param[p].delta
            /\ value[p] \in Int /\ value[p] # None /\ value[p] # 0
<1> DEFINE m == Len(pools[p])
           lo == param[p].min
           hi == param[p].max
           d == param[p].delta
           s == Reach(lo, hi, d)
<1>1. /\ lo \in Int /\ hi \in Int /\ d \in Nat \ {0} /\ lo <= hi /\ pools[p] \in Seq(Int)
      /\ None \notin Int /\ Drawn(p) /\ Optimizing!Usable(p)
  BY OptimizerNumbers DEF GridInv, Clear
<1>2. m \in Nat /\ m # 0
  BY <1>1
<1>3. value[p] = pools[p][m] /\ pools[p][m] = lo + (m - 1) * d
  <2>1. m \in 1 .. Len(pools[p])
    BY <1>2
  <2> QED  BY <1>1, <2>1 DEF Drawn
<1> DEFINE k == m - 1
<1>4. k \in Nat /\ k = m - 1
  BY <1>2
<1>5. k = 0 \/ lo + (k - 1) * d < hi
  <2> SUFFICES ASSUME k # 0 PROVE lo + (k - 1) * d < hi
    OBVIOUS
  <2>1. k \in 1 .. m /\ k \in 1 .. m - 1
    <3> HIDE DEF k, m
    <3> QED  BY <1>2, <1>4
  <2>2. pools[p][k] = lo + (k - 1) * d /\ pools[p][k] < hi
    BY <1>1, <2>1 DEF Drawn
  <2> QED  BY <2>2
<1>6. k <= s /\ s \in Nat
  <2> HIDE DEF k, lo, hi, d, s
  <2>1. Reach(lo, hi, d) \in Nat /\ (k = 0 \/ lo + (k - 1) * d < hi => k <= Reach(lo, hi, d))
    BY <1>1, <1>4, ReachIs
  <2> QED  BY <1>5, <2>1 DEF s
<1>7. Optimizing!Grid(p) = {lo + j * d : j \in 0 .. s}
  BY DEF Optimizing!Grid, Reach
<1>8. lo + k * d \in Optimizing!Grid(p)
  <2> HIDE DEF k, lo, hi, d, s
  <2>1. k \in 0 .. s
    BY <1>4, <1>6
  <2> QED  BY <1>7, <2>1
<1>9. value[p] # 0
  BY <1>1, <1>3, <1>8 DEF Optimizing!Usable
<1>10. value[p] \in Int
  <2>1. m \in 1 .. Len(pools[p])
    BY <1>2
  <2> QED  BY <1>1, <1>3, <2>1
<1> QED  BY <1>1, <1>2, <1>3, <1>6, <1>9, <1>10

LEMMA NextIs ==
  ASSUME GridInv, Clear, NEW p \in Optimizing!Params, Optimizing!Drawing(p)
  PROVE  /\ Optimizing!Following(p) = param[p].min + Len(pools[p]) * param[p].delta
         /\ Len(pools[p]) # 0 => pools[p][Len(pools[p])] < param[p].max
<1>1. /\ param[p].min \in Int /\ param[p].max \in Int /\ param[p].delta \in Nat \ {0}
      /\ Drawn(p) /\ param[p].max # 0 /\ pools[p] \in Seq(Int) /\ ~Optimizing!Stops(p)
  BY OptimizerNumbers DEF GridInv, Clear, Optimizing!Usable, Optimizing!Drawing
<1>2. CASE Len(pools[p]) = 0
  <2>1. value[p] = None
    BY <1>1, <1>2 DEF Drawn
  <2>2. Optimizing!Following(p) = param[p].min
    BY <2>1 DEF Optimizing!Following, Optimizing!Truthy
  <2> QED  BY <1>1, <1>2, <2>2
<1>3. CASE Len(pools[p]) # 0
  <2> DEFINE m == Len(pools[p])
  <2>1. /\ m \in Nat \ {0} /\ value[p] = param[p].min + (m - 1) * param[p].delta
        /\ value[p] \in Int /\ value[p] # None /\ value[p] # 0
    BY <1>3, DrawnIs
  <2>2. value[p] = pools[p][m]
    BY <1>1, <1>3 DEF Drawn
  <2>3. value[p] < param[p].max
    BY <1>1, <2>1 DEF Optimizing!Stops, Optimizing!Truthy
  <2>4. Optimizing!Following(p) = value[p] + param[p].delta
    BY <2>1 DEF Optimizing!Following, Optimizing!Truthy
  <2> DEFINE lo == param[p].min
             d == param[p].delta
  <2>5. lo + (m - 1) * d + d = lo + m * d
    <3>1. lo \in Int /\ d \in Nat /\ m \in Nat
      BY <1>1, <2>1
    <3> HIDE DEF lo, d, m
    <3>2. (m - 1) * d + d = m * d /\ (m - 1) * d \in Int
      BY <3>1
    <3> QED  BY <3>1, <3>2
  <2> QED  BY <2>1, <2>2, <2>3, <2>4, <2>5
<1> QED  BY <1>2, <1>3

LEMMA NextValueStep ==
  ASSUME GridInv, NEW p \in Optimizing!Params, Optimizing!NextValue(p)
  PROVE  GridInv'
<1>1. /\ phase = "pools" /\ started = <<>> /\ Optimizing!Drawing(p)
      /\ Len(pools[p]) < MaxPool /\ pools[p] \in Seq(Int)
      /\ UNCHANGED <<param, started, waiting, running, sessions>>
  BY DEF Optimizing!NextValue, Optimizing!Drawing, GridInv
<1>2. CASE UNCHANGED <<value, pools>> /\ phase' = "failed"
  <2>1. /\ \A q \in Optimizing!Params : (Drawn(q))' <=> Drawn(q)
        /\ Clear' <=> Clear
    BY <1>1, <1>2, GridSame
  <2> QED  BY <1>1, <1>2, <2>1 DEF GridInv
<1>3. CASE /\ value' = [value EXCEPT ![p] = Optimizing!Following(p)]
           /\ pools' = [pools EXCEPT ![p] = Append(@, value'[p])]
           /\ UNCHANGED phase
  <2> DEFINE v == Optimizing!Following(p)
  <2>1. v \in Int
    <3>1. /\ param[p].min \in Int /\ param[p].delta \in Int
          /\ value[p] # None => value[p] \in Int
      <4>1. param[p] \in Optimizing!Configurations /\ value[p] \in Int \cup {None}
        BY DEF GridInv
      <4> QED  BY <4>1, OptimizerNumbers
    <3> QED  BY <3>1 DEF Optimizing!Following, Optimizing!Truthy
  <2>2. value \in [Optimizing!Params -> Int \cup {None}]
        /\ pools \in [Optimizing!Params -> Seq(Int)]
    BY DEF GridInv
  <2> HIDE DEF v
  <2>3. value' = [value EXCEPT ![p] = v] /\ pools' = [pools EXCEPT ![p] = Append(pools[p], v)]
    BY <1>3, <2>2 DEF v
  <2>4. /\ value' \in [Optimizing!Params -> Int \cup {None}]
        /\ pools' \in [Optimizing!Params -> Seq(Int)]
        /\ value'[p] = v /\ pools'[p] = Append(pools[p], v)
        /\ \A q \in Optimizing!Params \ {p} : value'[q] = value[q] /\ pools'[q] = pools[q]
    <3>1. Append(pools[p], v) \in Seq(Int)
      BY <1>1, <2>1
    <3>2. value' \in [Optimizing!Params -> Int \cup {None}] /\ value'[p] = v
          /\ \A q \in Optimizing!Params \ {p} : value'[q] = value[q]
      BY <2>1, <2>2, <2>3
    <3>3. pools' \in [Optimizing!Params -> Seq(Int)] /\ pools'[p] = Append(pools[p], v)
          /\ \A q \in Optimizing!Params \ {p} : pools'[q] = pools[q]
      BY <2>2, <2>3, <3>1
    <3> QED  BY <3>2, <3>3
  <2>5. \A q \in Optimizing!Params : Len(pools'[q]) <= MaxPool
    <3>1. Len(pools'[p]) = Len(pools[p]) + 1 /\ Len(pools[p]) \in Nat
      BY <1>1, <2>1, <2>4
    <3>2. Len(pools'[p]) <= MaxPool
      <4>1. MaxPool \in Nat /\ Len(pools[p]) < MaxPool
        BY <1>1, OptimizerNumbers
      <4> QED  BY <3>1, <4>1
    <3>3. \A q \in Optimizing!Params : Len(pools[q]) <= MaxPool
      BY DEF GridInv
    <3> QED  BY <2>4, <3>2, <3>3
  <2>6. ASSUME Clear' PROVE \A q \in Optimizing!Params : (Drawn(q))'
    <3>1. Clear /\ \A q \in Optimizing!Params : Drawn(q)
      BY <1>1, <2>6 DEF Clear, Optimizing!Usable, Optimizing!Grid, GridInv
    <3>2. ASSUME NEW q \in Optimizing!Params \ {p} PROVE (Drawn(q))'
      <4>1. value'[q] = value[q] /\ pools'[q] = pools[q] /\ param' = param
        BY <1>1, <2>4
      <4>2. Drawn(q)
        BY <3>1
      <4> QED  BY <4>1, <4>2 DEF Drawn
    <3> DEFINE m == Len(pools[p])
    <3>3. v = param[p].min + m * param[p].delta /\ (m # 0 => pools[p][m] < param[p].max)
      BY <1>1, <3>1, NextIs DEF v
    <3>4. m \in Nat /\ Len(pools'[p]) = m + 1
      BY <1>1, <2>1, <2>4
    <3>5. pools'[p][m + 1] = v /\ \A k \in 1 .. m : pools'[p][k] = pools[p][k]
      BY <1>1, <2>1, <2>4
    <3>6. ASSUME NEW k \in 1 .. m + 1
          PROVE  pools'[p][k] = param[p].min + (k - 1) * param[p].delta
      <4>1. CASE k = m + 1
        BY <3>3, <3>4, <3>5, <4>1
      <4>2. CASE k # m + 1
        <5>1. k \in 1 .. m
          BY <3>4, <4>2
        <5> QED  BY <3>1, <3>5, <5>1 DEF Drawn
      <4> QED  BY <4>1, <4>2
    <3>7. ASSUME NEW k \in 1 .. m PROVE pools'[p][k] < param[p].max
      <4>1. CASE k = m
        BY <3>3, <3>4, <3>5, <4>1
      <4>2. CASE k # m
        <5>1. k \in 1 .. m - 1
          BY <3>4, <4>2
        <5> QED  BY <3>1, <3>5, <5>1 DEF Drawn
      <4> QED  BY <4>1, <4>2
    <3> HIDE DEF m
    <3>8. (m + 1) - 1 = m /\ m + 1 # 0
      BY <3>4
    <3>9. value'[p] = pools'[p][m + 1]
      BY <2>4, <3>5
    <3>10. (Drawn(p))'
      BY <1>1, <3>4, <3>6, <3>7, <3>8, <3>9 DEF Drawn
    <3> QED  BY <3>2, <3>10
  <2> QED  BY <1>1, <1>3, <2>4, <2>5, <2>6 DEF GridInv
<1> QED  BY <1>2, <1>3 DEF Optimizing!NextValue

LEMMA GridStep == GridInv /\ [Optimizing!Next]_(Optimizing!vars) => GridInv'
<1> SUFFICES ASSUME GridInv, [Optimizing!Next]_(Optimizing!vars) PROVE GridInv'
  OBVIOUS
<1> DEFINE Same == UNCHANGED <<param, value, pools>>
<1>1. ASSUME Same
      PROVE  /\ Clear' => \A p \in Optimizing!Params : (Drawn(p))'
             /\ \A p \in Optimizing!Params : Optimizing!Stops(p)' <=> Optimizing!Stops(p)
             /\ SizesOf(pools') = SizesOf(pools)
             /\ \A i : Combined(pools', i) = Combined(pools, i)
             /\ {Combined(pools', i) : i \in Nat} = {Combined(pools, i) : i \in Nat}
  <2>1. Clear' => \A p \in Optimizing!Params : (Drawn(p))'
    BY <1>1, GridSame DEF GridInv
  <2>2. pools' = pools
    BY <1>1
  <2>3. \A p \in Optimizing!Params : Optimizing!Stops(p)' <=> Optimizing!Stops(p)
    BY <1>1, GridSame
  <2> QED  BY <2>1, <2>2, <2>3
<1>2. started \in Seq({Combined(pools, i) : i \in Nat}) /\ Len(started) \in Nat
  BY DEF GridInv
<1>3. CASE Optimizing!PoolsFull
  <2>1. Same /\ started = <<>> /\ Len(started) = 0
    BY <1>3 DEF Optimizing!PoolsFull, GridInv
  <2> QED  BY <1>1, <1>3, <2>1 DEF Optimizing!PoolsFull, GridInv
<1>4. CASE Optimizing!StartBacktest
  <2> DEFINE i == Len(started) + 1
             c == Combined(pools, i)
  <2>1. /\ Same /\ phase = "start" /\ phase' = "start"
        /\ i <= SizesOf(pools)[1] /\ started' = Append(started, c)
        /\ waiting' = waiting \cup {i} /\ running' = running \cup {i}
        /\ sessions' = sessions
    BY <1>4, CombinationIs DEF Optimizing!StartBacktest
  <2>2. i \in Nat /\ i # 0
    BY <1>2
  <2>3. c \in {Combined(pools, j) : j \in Nat}
    BY <2>2
  <2> HIDE DEF c
  <2>4. /\ started' \in Seq({Combined(pools, j) : j \in Nat})
        /\ Len(started') = i /\ started'[i] = c
        /\ \A j \in 1 .. Len(started) : started'[j] = started[j]
    BY <1>2, <2>1, <2>3
  <2>5. ASSUME NEW j \in 1 .. i PROVE started'[j] = Combined(pools, j)
    <3>1. CASE j = i
      BY <2>4, <3>1 DEF c
    <3>2. CASE j # i
      <4>1. j \in 1 .. Len(started)
        BY <1>2, <3>2
      <4> QED  BY <2>4, <4>1 DEF GridInv
    <3> QED  BY <3>1, <3>2
  <2>6. waiting' \cup running' \cup sessions' \subseteq 1 .. i
    <3>1. waiting \cup running \cup sessions \subseteq 1 .. Len(started)
      BY DEF GridInv
    <3>2. 1 .. Len(started) \subseteq 1 .. i /\ i \in 1 .. i
      BY <1>2
    <3> QED  BY <2>1, <3>1, <3>2
  <2> HIDE DEF i, Same
  <2>7. started' \in Seq({Combined(pools', j) : j \in Nat})
    BY <1>1, <2>1, <2>4
  <2>8. \A j \in 1 .. Len(started') : started'[j] = Combined(pools', j)
    BY <1>1, <2>1, <2>4, <2>5
  <2>9. \A p \in Optimizing!Params : Optimizing!Stops(p)'
    BY <1>1, <2>1 DEF GridInv
  <2>10. Len(started') <= SizesOf(pools')[1]
    BY <1>1, <2>1, <2>4
  <2>11. UNCHANGED <<param, value, pools>>
    BY <2>1 DEF Same
  <2>12. waiting' \cup running' \cup sessions' \subseteq 1 .. Len(started')
    BY <2>4, <2>6
  <2> QED  BY <1>1, <2>1, <2>7, <2>8, <2>9, <2>10, <2>11, <2>12 DEF GridInv
<1>5. ASSUME Same, started' = started,
             waiting' \cup running' \cup sessions' \subseteq waiting \cup running \cup sessions,
             \/ phase' = phase
             \/ phase \in {"start", "join"} /\ phase' \in {"start", "join"}
             \/ phase = "start" /\ phase' = "done" /\ Len(started) >= SizesOf(pools)[1]
      PROVE  GridInv'
  <2>1. started' \in Seq({Combined(pools', j) : j \in Nat})
    BY <1>1, <1>2, <1>5
  <2>2. \A j \in 1 .. Len(started') : started'[j] = Combined(pools', j)
    BY <1>1, <1>5 DEF GridInv
  <2>3. waiting' \cup running' \cup sessions' \subseteq 1 .. Len(started')
    BY <1>5 DEF GridInv
  <2>4. phase' \in {"start", "join", "done"} =>
          /\ \A p \in Optimizing!Params : Optimizing!Stops(p)'
          /\ Len(started') # 0 => Len(started') <= SizesOf(pools')[1]
    BY <1>1, <1>5 DEF GridInv
  <2>5. phase' = "done" => Len(started') >= SizesOf(pools')[1]
    BY <1>1, <1>5 DEF GridInv
  <2>6. phase' \in {"pools", "failed"} => started' = <<>>
    BY <1>5 DEF GridInv
  <2> QED  BY <1>1, <1>5, <2>1, <2>2, <2>3, <2>4, <2>5, <2>6 DEF GridInv
<1>6. CASE Optimizing!JoinWave
  BY <1>5, <1>6 DEF Optimizing!JoinWave
<1>7. CASE Optimizing!WaveJoined
  BY <1>5, <1>7 DEF Optimizing!WaveJoined
<1>8. CASE Optimizing!NoMore
  BY <1>5, <1>8, CombinationIs DEF Optimizing!NoMore
<1>9. ASSUME NEW i \in running, Optimizing!BacktestEnds(i) PROVE GridInv'
  <2>1. sessions' \subseteq sessions \cup {i} /\ running' \subseteq running /\ waiting' = waiting
    BY <1>9 DEF Optimizing!BacktestEnds
  <2> QED  BY <1>5, <1>9, <2>1 DEF Optimizing!BacktestEnds
<1>10. CASE UNCHANGED Optimizing!vars
  BY <1>5, <1>10 DEF Optimizing!vars
<1> QED  BY <1>3, <1>4, <1>6, <1>7, <1>8, <1>9, <1>10, NextValueStep DEF Optimizing!Next

\* Theorem: every variable of the optimizer has its type, whatever ranges, zeros and
\* failures (optimizer.py, hyperparameter.py).
THEOREM OptimizerTypeCorrect == Optimizing!Spec => []Optimizing!TypeOK
<1>1. GridInv => Optimizing!TypeOK
  <2> SUFFICES ASSUME GridInv PROVE Optimizing!TypeOK
    OBVIOUS
  <2>1. DOMAIN started = 1 .. Len(started)
    BY DEF GridInv
  <2> QED  BY <2>1 DEF GridInv, Optimizing!TypeOK
<1> QED  BY <1>1, GridInit, GridStep, PTL DEF Optimizing!Spec

\* A parameter that stops has given the whole grid, each value once.
LEMMA GridIs ==
  ASSUME GridInv, Clear, NEW p \in Optimizing!Params, Optimizing!Stops(p)
  PROVE  /\ Len(pools[p]) \in Nat \ {0} /\ pools[p] \in Seq(Int)
         /\ Optimizing!Grid(p) = {pools[p][k] : k \in 1 .. Len(pools[p])}
         /\ \A j, k \in 1 .. Len(pools[p]) : pools[p][j] = pools[p][k] => j = k
<1> DEFINE m == Len(pools[p])
           lo == param[p].min
           hi == param[p].max
           d == param[p].delta
           s == Reach(lo, hi, d)
           k0 == m - 1
<1>1. /\ lo \in Int /\ hi \in Int /\ d \in Nat \ {0} /\ lo <= hi /\ pools[p] \in Seq(Int)
      /\ Drawn(p) /\ hi # 0
  BY OptimizerNumbers DEF GridInv, Clear, Optimizing!Usable
<1>2. value[p] # None /\ value[p] >= hi
  BY <1>1 DEF Optimizing!Stops, Optimizing!Truthy
<1>3. Len(pools[p]) # 0
  BY <1>1, <1>2 DEF Drawn
<1>4. m \in Nat \ {0} /\ m - 1 <= s /\ s \in Nat /\ value[p] = lo + (m - 1) * d
  BY <1>3, DrawnIs
<1>5. s = m - 1
  <2> HIDE DEF m, lo, hi, d
  <2>1. k0 \in Nat /\ lo + k0 * d >= hi
    BY <1>2, <1>4
  <2> HIDE DEF k0
  <2>2. Reach(lo, hi, d) <= k0
    BY <1>1, <2>1, ReachIs
  <2> QED  BY <1>4, <2>2 DEF k0
<1>6. \A k \in 1 .. m : pools[p][k] = lo + (k - 1) * d
  BY <1>1 DEF Drawn
<1>7. Optimizing!Grid(p) = {lo + j * d : j \in 0 .. s}
  BY DEF Optimizing!Grid, Reach
<1> HIDE DEF lo, hi, d, s, m
<1>8. {lo + j * d : j \in 0 .. s} = {pools[p][k] : k \in 1 .. m}
  <2>1. ASSUME NEW j \in 0 .. s PROVE lo + j * d \in {pools[p][k] : k \in 1 .. m}
    <3>1. j + 1 \in 1 .. m /\ (j + 1) - 1 = j
      BY <1>4, <1>5
    <3> QED  BY <1>6, <3>1
  <2>2. ASSUME NEW k \in 1 .. m PROVE pools[p][k] \in {lo + j * d : j \in 0 .. s}
    <3>1. k - 1 \in 0 .. s
      BY <1>4, <1>5
    <3> QED  BY <1>6, <3>1
  <2> QED  BY <2>1, <2>2
<1>9. ASSUME NEW j \in 1 .. m, NEW k \in 1 .. m, pools[p][j] = pools[p][k] PROVE j = k
  <2>1. lo + (j - 1) * d = lo + (k - 1) * d
    BY <1>6, <1>9
  <2>2. (j - 1) * d \in Int /\ (k - 1) * d \in Int
    BY <1>1, <1>4
  <2>3. (j - 1) * d = (k - 1) * d
    BY <1>1, <2>1, <2>2
  <2>4. \A x, y \in Int : x * d = y * d => x = y
    <3>1. ASSUME NEW x \in Int, NEW y \in Int, x + 1 <= y PROVE x * d # y * d
      <4>1. (y - x) * d >= d /\ (y - x) * d = y * d - x * d /\ x * d \in Int /\ y * d \in Int
        BY <1>1, <3>1
      <4> QED  BY <1>1, <4>1
    <3>2. ASSUME NEW x \in Int, NEW y \in Int, x * d = y * d PROVE x = y
      <4>1. ~(x + 1 <= y) /\ ~(y + 1 <= x)
        BY <3>1, <3>2
      <4> QED  BY <4>1
    <3> QED  BY <3>2
  <2>5. j - 1 = k - 1
    BY <1>4, <2>3, <2>4
  <2> QED  BY <1>4, <2>5
<1> QED  BY <1>1, <1>4, <1>7, <1>8, <1>9 DEF m

LEMMA CoveredIs == GridInv => Optimizing!GridCovered
<1> DEFINE grid == Optimizing!GridPoints
           n == NumParams
           L == [p \in 1 .. n |-> Len(pools[p])]
           S == SizesOf(pools)
<1>0. SUFFICES ASSUME GridInv, phase = "done", Clear
               PROVE  {started[i] : i \in DOMAIN started} = grid /\ Len(started) = Cardinality(grid)
  <2>1. Optimizing!Cardinality(grid) = Cardinality(grid)
    BY DEF Optimizing!Cardinality, Cardinality
  <2> QED  BY <2>1 DEF Optimizing!GridCovered, Clear
<1>1. n \in Nat \ {0} /\ Optimizing!Params = 1 .. n /\ pools \in [1 .. n -> Seq(Int)]
  BY <1>0, OptimizerNumbers DEF GridInv
<1>2. \A p \in 1 .. n :
        /\ Len(pools[p]) \in Nat \ {0} /\ pools[p] \in Seq(Int)
        /\ Optimizing!Grid(p) = {pools[p][k] : k \in 1 .. Len(pools[p])}
        /\ \A j, k \in 1 .. Len(pools[p]) : pools[p][j] = pools[p][k] => j = k
  <2>1. \A p \in Optimizing!Params : Optimizing!Stops(p)
    BY <1>0 DEF GridInv
  <2> QED  BY <1>0, <1>1, <2>1, GridIs
<1>3. L \in [1 .. n -> Nat \ {0}] /\ \A p \in 1 .. n : L[p] = Len(pools[p])
  BY <1>2
<1> HIDE DEF L, n, S
<1>4. IsSizes(S, n, L)
  <2>1. PICK G : IsSizes(G, n, L)
    <3>1. L \in [1 .. n -> Nat]
      BY <1>3
    <3> QED  BY <1>1, <3>1, SizesExist
  <2>2. ASSUME NEW F
        PROVE  IsSizes(F, n, L) <=>
                 F = [p \in Optimizing!Params \cup {n + 1} |->
                        IF p = n + 1 THEN 1 ELSE Len(pools[p]) * F[p + 1]]
    <3>1. \A p \in (1 .. n) \cup {n + 1} :
            (IF p = n + 1 THEN 1 ELSE L[p] * F[p + 1])
              = (IF p = n + 1 THEN 1 ELSE Len(pools[p]) * F[p + 1])
      BY <1>3
    <3>2. [p \in (1 .. n) \cup {n + 1} |-> IF p = n + 1 THEN 1 ELSE L[p] * F[p + 1]]
            = [p \in (1 .. n) \cup {n + 1} |->
                 IF p = n + 1 THEN 1 ELSE Len(pools[p]) * F[p + 1]]
      BY <3>1
    <3> QED  BY <1>1, <3>2 DEF IsSizes
  <2>3. S = [p \in Optimizing!Params \cup {n + 1} |->
               IF p = n + 1 THEN 1 ELSE Len(pools[p]) * S[p + 1]]
    BY <2>1, <2>2 DEF SizesOf, S, n
  <2> QED  BY <2>2, <2>3
<1>5. Radix(n, L, S)
  BY <1>1, <1>3, <1>4, SizesAreRadix
<1>6. Lists(n, L, pools)
  BY <1>1, <1>2, <1>3 DEF Lists
<1>7. \A i : Chosen(n, L, S, pools, i) = Combined(pools, i)
  BY <1>1, <1>3 DEF Chosen, Combined, Digit, S
<1>8. Choices(n, L, pools) = grid
  <2>1. \A p \in 1 .. n : Optimizing!Grid(p) = Listed(L, pools, p)
    BY <1>2, <1>3 DEF Listed
  <2>2. \A p \in 1 .. n : Optimizing!Grid(p) \subseteq Int
    <3>1. \A p \in 1 .. n : \A k \in 1 .. Len(pools[p]) : pools[p][k] \in Int
      BY <1>2
    <3> QED  BY <1>2, <3>1
  <2>3. ASSUME NEW f \in Choices(n, L, pools) PROVE f \in grid
    <3>1. f \in [1 .. n -> Int] /\ \A p \in 1 .. n : f[p] \in Optimizing!Grid(p)
      BY <2>1 DEF Choices
    <3>2. f \in [1 .. n -> UNION {Optimizing!Grid(p) : p \in 1 .. n}]
      BY <3>1
    <3> QED  BY <1>1, <3>1, <3>2 DEF Optimizing!GridPoints
  <2>4. ASSUME NEW f \in grid PROVE f \in Choices(n, L, pools)
    <3>1. /\ f \in [1 .. n -> UNION {Optimizing!Grid(p) : p \in 1 .. n}]
          /\ \A p \in 1 .. n : f[p] \in Optimizing!Grid(p)
      BY <1>1 DEF Optimizing!GridPoints
    <3>2. f \in [1 .. n -> Int]
      BY <2>2, <3>1
    <3> QED  BY <2>1, <3>1, <3>2 DEF Choices
  <2> HIDE DEF grid
  <2> QED  BY <2>3, <2>4
<1> HIDE DEF grid
<1>9. /\ grid = {Chosen(n, L, S, pools, i) : i \in 1 .. S[1]}
      /\ Cardinality(grid) = S[1]
  BY <1>5, <1>6, <1>8, ChosenAre
<1>10. S[1] \in Nat \ {0}
  <2>1. S \in [1 .. n + 1 -> Nat \ {0}] /\ 1 \in 1 .. n + 1
    BY <1>1, <1>5 DEF Radix
  <2> QED  BY <2>1
<1>11. Len(started) = S[1] /\ DOMAIN started = 1 .. Len(started)
  <2>1. Len(started) \in Nat /\ DOMAIN started = 1 .. Len(started)
    BY <1>0 DEF GridInv
  <2>2. Len(started) >= S[1] /\ (Len(started) # 0 => Len(started) <= S[1])
    BY <1>0 DEF GridInv, S
  <2> QED  BY <1>10, <2>1, <2>2
<1>12. \A i \in 1 .. S[1] : started[i] = Chosen(n, L, S, pools, i)
  BY <1>0, <1>7, <1>11 DEF GridInv
<1>13. {started[i] : i \in DOMAIN started} = grid /\ Len(started) = Cardinality(grid)
  BY <1>9, <1>11, <1>12
<1> QED  BY <1>13

\* Theorem: when the loop of the optimizer ends, every combination of the values of
\* the hyper-parameters has been started, each once and none else, if their ranges
\* keep clear of zero; for any number of parameters, any ranges, any steps and any
\* concurrency (the iterator of Parameter, itertools.product and optimize()).
THEOREM GridCoveredAlways == Optimizing!Spec => []Optimizing!GridCovered
<1> QED  BY CoveredIs, GridInit, GridStep, PTL DEF Optimizing!Spec

-----------------------------------------------------------------------------
(* The index at a date: its passes.                                          *)

LEMMA LastIsMax ==
  ASSUME NEW n \in Nat, NEW s \in SUBSET (1 .. n), n \in s
  PROVE  Index!Max(s) = n
<1>1. Index!Max(s) = Reports!Max(s)
  BY DEF Index!Max, Reports!Max
<1> QED  BY <1>1, MaxIsLast


\* What a pass through the changes makes of the sets of rows up to n.
IsUndoing(F, n, rows, none) ==
  F = [s \in SUBSET (1 .. n) |->
         IF s = {} THEN none
         ELSE Index!Undo(F[s \ {Index!Max(s)}], rows[Index!Max(s)])]

LEMMA UndoingExists ==
  ASSUME NEW rows, NEW n \in Nat, NEW none
  PROVE  \E F : IsUndoing(F, n, rows, none)
<1> DEFINE Bad == {m \in Nat : ~\E F : IsUndoing(F, m, rows, none)}
<1> SUFFICES ASSUME Bad # {} PROVE FALSE
  OBVIOUS
<1>1. PICK m \in Bad : \A k \in Bad : m <= k
  BY Least
<1>2. m # 0
  <2> DEFINE F == [s \in SUBSET (1 .. 0) |-> none]
  <2>1. SUBSET (1 .. 0) = {{}}
    OBVIOUS
  <2>2. IsUndoing(F, 0, rows, none)
    BY <2>1 DEF IsUndoing
  <2> QED  BY <2>2
<1>3. m \in Nat /\ m - 1 \in Nat /\ m - 1 \notin Bad
  BY <1>1, <1>2
<1>4. PICK F : IsUndoing(F, m - 1, rows, none)
  BY <1>3
<1> DEFINE G == [s \in SUBSET (1 .. m) |->
                   IF m \in s THEN Index!Undo(F[s \ {m}], rows[m]) ELSE F[s]]
<1>5. ASSUME NEW s \in SUBSET (1 .. m)
      PROVE  G[s] = IF s = {} THEN none
                    ELSE Index!Undo(G[s \ {Index!Max(s)}], rows[Index!Max(s)])
  <2>1. CASE m \in s
    <3>1. Index!Max(s) = m /\ s # {} /\ s \ {m} \in SUBSET (1 .. m) /\ m \notin s \ {m}
      BY <1>3, <2>1, LastIsMax
    <3>2. G[s] = Index!Undo(F[s \ {m}], rows[m]) /\ G[s \ {m}] = F[s \ {m}]
      BY <2>1, <3>1
    <3> QED  BY <3>1, <3>2
  <2>2. CASE m \notin s
    <3> DEFINE t == s \ {Index!Max(s)}
    <3>1. s \in SUBSET (1 .. m - 1) /\ t \in SUBSET s
      BY <1>2, <1>3, <2>2, BelowIs
    <3>2. t \in SUBSET (1 .. m) /\ m \notin t
      BY <2>2, <3>1
    <3>3. G[s] = F[s] /\ G[t] = F[t]
      BY <2>2, <3>2
    <3>4. F[s] = IF s = {} THEN none ELSE Index!Undo(F[t], rows[Index!Max(s)])
      BY <1>4, <3>1 DEF IsUndoing
    <3> QED  BY <3>3, <3>4
  <2> QED  BY <2>1, <2>2
<1>6. IsUndoing(G, m, rows, none)
  <2>1. G = [s \in SUBSET (1 .. m) |-> G[s]]
    OBVIOUS
  <2> HIDE DEF G
  <2> QED  BY <1>5, <2>1 DEF IsUndoing
<1>7. m \notin Bad
  BY <1>6
<1> QED  BY <1>1, <1>7


\* What a pass through the renames makes of the sets of rows up to n.
IsRestoring(F, n, rows, none) ==
  F = [s \in SUBSET (1 .. n) |->
         IF s = {} THEN none
         ELSE Index!Restore(F[s \ {Index!Max(s)}], rows[Index!Max(s)])]

LEMMA RestoringExists ==
  ASSUME NEW rows, NEW n \in Nat, NEW none
  PROVE  \E F : IsRestoring(F, n, rows, none)
<1> DEFINE Bad == {m \in Nat : ~\E F : IsRestoring(F, m, rows, none)}
<1> SUFFICES ASSUME Bad # {} PROVE FALSE
  OBVIOUS
<1>1. PICK m \in Bad : \A k \in Bad : m <= k
  BY Least
<1>2. m # 0
  <2> DEFINE F == [s \in SUBSET (1 .. 0) |-> none]
  <2>1. SUBSET (1 .. 0) = {{}}
    OBVIOUS
  <2>2. IsRestoring(F, 0, rows, none)
    BY <2>1 DEF IsRestoring
  <2> QED  BY <2>2
<1>3. m \in Nat /\ m - 1 \in Nat /\ m - 1 \notin Bad
  BY <1>1, <1>2
<1>4. PICK F : IsRestoring(F, m - 1, rows, none)
  BY <1>3
<1> DEFINE G == [s \in SUBSET (1 .. m) |->
                   IF m \in s THEN Index!Restore(F[s \ {m}], rows[m]) ELSE F[s]]
<1>5. ASSUME NEW s \in SUBSET (1 .. m)
      PROVE  G[s] = IF s = {} THEN none
                    ELSE Index!Restore(G[s \ {Index!Max(s)}], rows[Index!Max(s)])
  <2>1. CASE m \in s
    <3>1. Index!Max(s) = m /\ s # {} /\ s \ {m} \in SUBSET (1 .. m) /\ m \notin s \ {m}
      BY <1>3, <2>1, LastIsMax
    <3>2. G[s] = Index!Restore(F[s \ {m}], rows[m]) /\ G[s \ {m}] = F[s \ {m}]
      BY <2>1, <3>1
    <3> QED  BY <3>1, <3>2
  <2>2. CASE m \notin s
    <3> DEFINE t == s \ {Index!Max(s)}
    <3>1. s \in SUBSET (1 .. m - 1) /\ t \in SUBSET s
      BY <1>2, <1>3, <2>2, BelowIs
    <3>2. t \in SUBSET (1 .. m) /\ m \notin t
      BY <2>2, <3>1
    <3>3. G[s] = F[s] /\ G[t] = F[t]
      BY <2>2, <3>2
    <3>4. F[s] = IF s = {} THEN none ELSE Index!Restore(F[t], rows[Index!Max(s)])
      BY <1>4, <3>1 DEF IsRestoring
    <3> QED  BY <3>3, <3>4
  <2> QED  BY <2>1, <2>2
<1>6. IsRestoring(G, m, rows, none)
  <2>1. G = [s \in SUBSET (1 .. m) |-> G[s]]
    OBVIOUS
  <2> HIDE DEF G
  <2> QED  BY <1>5, <2>1 DEF IsRestoring
<1>7. m \notin Bad
  BY <1>6
<1> QED  BY <1>1, <1>7

\* A pass through the changes, row after row.
UndoSteps(P, n, set) ==
  /\ P[0] = [set |-> set, changed |-> FALSE, failed |-> FALSE]
  /\ \A k \in 1 .. n : P[k] = Index!Undo(P[k - 1], changes[k])

LEMMA UndoStepsAre ==
  ASSUME NEW n \in Nat, DOMAIN changes = 1 .. n, NEW set
  PROVE  \E P : UndoSteps(P, n, set) /\ Index!Pass(Index!Undo, changes, set) = P[n]
<1> DEFINE none == [set |-> set, changed |-> FALSE, failed |-> FALSE]
           F == CHOOSE G : IsUndoing(G, n, changes, none)
           P == [k \in 0 .. n |-> F[1 .. k]]
<1>1. IsUndoing(F, n, changes, none)
  BY UndoingExists
<1>2. Index!Pass(Index!Undo, changes, set) = F[1 .. n]
  BY DEF Index!Pass, Index!FoldLeft, Index!MapThenFoldSet, IsUndoing
<1> HIDE DEF F, none
<1>3. F[1 .. 0] = none
  <2>1. 1 .. 0 = {} /\ {} \in SUBSET (1 .. n)
    OBVIOUS
  <2>2. F[{}] = none
    BY <1>1, <2>1 DEF IsUndoing
  <2> QED  BY <2>1, <2>2
<1>4. \A k \in 1 .. n : F[1 .. k] = Index!Undo(F[1 .. k - 1], changes[k])
  <2> SUFFICES ASSUME NEW k \in 1 .. n
               PROVE  F[1 .. k] = Index!Undo(F[1 .. k - 1], changes[k])
    OBVIOUS
  <2>1. /\ 1 .. k \in SUBSET (1 .. n) /\ 1 .. k # {} /\ k \in 1 .. k /\ k \in Nat
        /\ (1 .. k) \ {k} = 1 .. k - 1
    BY UptoIs
  <2>2. Index!Max(1 .. k) = k
    BY <2>1, LastIsMax
  <2>3. F[1 .. k] = Index!Undo(F[(1 .. k) \ {Index!Max(1 .. k)}], changes[Index!Max(1 .. k)])
    BY <1>1, <2>1 DEF IsUndoing
  <2> QED  BY <2>1, <2>2, <2>3
<1>5. P[0] = none /\ P[n] = F[1 .. n]
  BY <1>3
<1>6. \A k \in 1 .. n : P[k] = Index!Undo(P[k - 1], changes[k])
  <2>1. \A k \in 1 .. n : k \in 0 .. n /\ k - 1 \in 0 .. n
    OBVIOUS
  <2>2. \A k \in 1 .. n : P[k] = F[1 .. k] /\ P[k - 1] = F[1 .. k - 1]
    BY <2>1
  <2> HIDE DEF P
  <2> QED  BY <1>4, <2>2
<1> HIDE DEF P
<1> QED  BY <1>2, <1>5, <1>6 DEF none, UndoSteps

\* A pass through the renames, row after row.
RestoreSteps(P, n, set) ==
  /\ P[0] = [set |-> set, changed |-> FALSE, failed |-> FALSE]
  /\ \A k \in 1 .. n : P[k] = Index!Restore(P[k - 1], renames[k])

LEMMA RestoreStepsAre ==
  ASSUME NEW n \in Nat, DOMAIN renames = 1 .. n, NEW set
  PROVE  \E P : RestoreSteps(P, n, set) /\ Index!Pass(Index!Restore, renames, set) = P[n]
<1> DEFINE none == [set |-> set, changed |-> FALSE, failed |-> FALSE]
           F == CHOOSE G : IsRestoring(G, n, renames, none)
           P == [k \in 0 .. n |-> F[1 .. k]]
<1>1. IsRestoring(F, n, renames, none)
  BY RestoringExists
<1>2. Index!Pass(Index!Restore, renames, set) = F[1 .. n]
  BY DEF Index!Pass, Index!FoldLeft, Index!MapThenFoldSet, IsRestoring
<1> HIDE DEF F, none
<1>3. F[1 .. 0] = none
  <2>1. 1 .. 0 = {} /\ {} \in SUBSET (1 .. n)
    OBVIOUS
  <2>2. F[{}] = none
    BY <1>1, <2>1 DEF IsRestoring
  <2> QED  BY <2>1, <2>2
<1>4. \A k \in 1 .. n : F[1 .. k] = Index!Restore(F[1 .. k - 1], renames[k])
  <2> SUFFICES ASSUME NEW k \in 1 .. n
               PROVE  F[1 .. k] = Index!Restore(F[1 .. k - 1], renames[k])
    OBVIOUS
  <2>1. /\ 1 .. k \in SUBSET (1 .. n) /\ 1 .. k # {} /\ k \in 1 .. k /\ k \in Nat
        /\ (1 .. k) \ {k} = 1 .. k - 1
    BY UptoIs
  <2>2. Index!Max(1 .. k) = k
    BY <2>1, LastIsMax
  <2>3. F[1 .. k] = Index!Restore(F[(1 .. k) \ {Index!Max(1 .. k)}], renames[Index!Max(1 .. k)])
    BY <1>1, <2>1 DEF IsRestoring
  <2> QED  BY <2>1, <2>2, <2>3
<1>5. P[0] = none /\ P[n] = F[1 .. n]
  BY <1>3
<1>6. \A k \in 1 .. n : P[k] = Index!Restore(P[k - 1], renames[k])
  <2>1. \A k \in 1 .. n : k \in 0 .. n /\ k - 1 \in 0 .. n
    OBVIOUS
  <2>2. \A k \in 1 .. n : P[k] = F[1 .. k] /\ P[k - 1] = F[1 .. k - 1]
    BY <2>1
  <2> HIDE DEF P
  <2> QED  BY <1>4, <2>2
<1> HIDE DEF P
<1> QED  BY <1>2, <1>5, <1>6 DEF none, RestoreSteps

Passed == [set : SUBSET Companies, changed : BOOLEAN, failed : BOOLEAN]

LEMMA RowsAre ==
  /\ None \notin Companies
  /\ \A S : Index!Cardinality(S) = Cardinality(S)
  /\ changes \in Index!Rows(Index!Change) =>
       \E n \in Nat : changes \in [1 .. n -> Index!Change] /\ DOMAIN changes = 1 .. n
  /\ renames \in Index!Rows(Index!Rename) =>
       \E n \in Nat : renames \in [1 .. n -> Index!Rename] /\ DOMAIN renames = 1 .. n
<1>1. \A row : \A rows \in Index!Rows(row) :
        \E n \in Nat : rows \in [1 .. n -> row] /\ DOMAIN rows = 1 .. n
  BY IndexAssumption DEF Index!ConstantsAssumption, Index!Rows
<1>2. \A S : Index!Cardinality(S) = Cardinality(S)
  BY DEF Index!Cardinality, Cardinality
<1> QED  BY <1>1, <1>2, IndexAssumption DEF Index!ConstantsAssumption

-----------------------------------------------------------------------------
(* The index at a date: changes.                                             *)

\* After k rows of a pass through the changes that began with U: only what rows
\* added is gone, and nothing if nothing changed.
Undone(acc, U, k) ==
  /\ acc \in Passed /\ acc.set \subseteq U
  /\ \A u \in U : u \in acc.set \/ \E i \in 1 .. k : u = changes[i].added
  /\ acc.changed = FALSE => acc.set = U /\ \A i \in 1 .. k : changes[i].added \notin U

LEMMA UndoneNext ==
  ASSUME NEW U \in SUBSET Companies, NEW k \in Nat, k # 0, NEW acc, Undone(acc, U, k - 1)
  PROVE  Undone(Index!Undo(acc, changes[k]), U, k)
<1> DEFINE a == changes[k].added
           r == changes[k].removed
           less == IF a \in acc.set THEN acc.set \ {a} ELSE acc.set
           new == Index!Undo(acc, changes[k])
<1>1. /\ acc \in Passed /\ acc.set \subseteq U
      /\ \A u \in U : u \in acc.set \/ \E i \in 1 .. k - 1 : u = changes[i].added
      /\ acc.changed = FALSE => acc.set = U /\ \A i \in 1 .. k - 1 : changes[i].added \notin U
  BY DEF Undone
<1>2. new = [acc EXCEPT !.set = less,
                        !.changed = acc.changed \/ a \in acc.set \/ r \in less]
  BY DEF Index!Undo
<1>3. less \in SUBSET Companies /\ less \subseteq U /\ less = acc.set \ {a}
  BY <1>1 DEF Passed
<1> HIDE DEF less, new
<1>4. /\ new \in Passed /\ new.set = less
      /\ new.changed = (acc.changed \/ a \in acc.set \/ r \in less)
  <2>1. (acc.changed \/ a \in acc.set \/ r \in less) \in BOOLEAN
    OBVIOUS
  <2> DEFINE b == (acc.changed \/ a \in acc.set \/ r \in less)
  <2> HIDE DEF b
  <2>2. b \in BOOLEAN
    BY <2>1 DEF b
  <2>3. new = [acc EXCEPT !.set = less, !.changed = b]
    BY <1>2 DEF b
  <2>4. new \in Passed /\ new.set = less /\ new.changed = b
    BY <1>1, <1>3, <2>2, <2>3 DEF Passed
  <2> QED  BY <2>4 DEF b
<1>5. \A i \in 1 .. k : i \in 1 .. k - 1 \/ i = k
  OBVIOUS
<1>6. \A i \in 1 .. k - 1 : i \in 1 .. k
  OBVIOUS
<1>7. k \in 1 .. k
  OBVIOUS
<1> HIDE DEF a
<1>8. \A u \in U : u \in new.set \/ \E i \in 1 .. k : u = changes[i].added
  BY <1>1, <1>3, <1>4, <1>6, <1>7 DEF a
<1>9. ASSUME new.changed = FALSE
      PROVE  new.set = U /\ \A i \in 1 .. k : changes[i].added \notin U
  <2>1. acc.changed = FALSE /\ a \notin acc.set
    <3>1. ~(acc.changed \/ a \in acc.set \/ r \in less)
      BY <1>4, <1>9, Zenon
    <3>2. acc.changed \in BOOLEAN
      BY <1>1 DEF Passed
    <3> QED  BY <3>1, <3>2
  <2>2. acc.set = U /\ \A i \in 1 .. k - 1 : changes[i].added \notin U
    BY <1>1, <2>1
  <2> QED  BY <1>3, <1>4, <1>5, <2>1, <2>2 DEF a
<1> QED  BY <1>3, <1>4, <1>8, <1>9 DEF new, Undone

LEMMA UndoneAll ==
  ASSUME NEW U \in SUBSET Companies, NEW n \in Nat, DOMAIN changes = 1 .. n
  PROVE  Undone(Index!Pass(Index!Undo, changes, U), U, n)
<1>1. PICK P : UndoSteps(P, n, U) /\ Index!Pass(Index!Undo, changes, U) = P[n]
  BY UndoStepsAre
<1> DEFINE Bad == {k \in 0 .. n : ~Undone(P[k], U, k)}
<1> SUFFICES ASSUME Bad # {} PROVE FALSE
  <2>1. n \in 0 .. n
    OBVIOUS
  <2> QED  BY <1>1, <2>1
<1>2. Bad \in SUBSET Nat
  OBVIOUS
<1>3. PICK k \in Bad : \A j \in Bad : k <= j
  <2> HIDE DEF Bad
  <2> QED  BY <1>2, Least
<1>4. k \in 0 .. n /\ ~Undone(P[k], U, k)
  BY <1>3
<1>5. k # 0
  <2> SUFFICES ASSUME k = 0 PROVE FALSE
    OBVIOUS
  <2>1. P[0] = [set |-> U, changed |-> FALSE, failed |-> FALSE]
    BY <1>1 DEF UndoSteps
  <2>2. Undone(P[0], U, 0)
    BY <2>1 DEF Undone, Passed
  <2> QED  BY <1>4, <2>2
<1>6. k \in 1 .. n /\ k - 1 \in 0 .. n /\ k \in Nat
  BY <1>4, <1>5
<1>7. Undone(P[k - 1], U, k - 1)
  <2>1. k - 1 \notin Bad
    <3> HIDE DEF Bad
    <3> QED  BY <1>3, <1>6
  <2> QED  BY <1>6, <2>1
<1>8. P[k] = Index!Undo(P[k - 1], changes[k])
  BY <1>1, <1>6 DEF UndoSteps
<1> DEFINE acc == P[k - 1]
<1>9. Undone(Index!Undo(acc, changes[k]), U, k)
  <2>1. Undone(acc, U, k - 1)
    BY <1>7
  <2> HIDE DEF acc
  <2> QED  BY <1>5, <1>6, <2>1, UndoneNext
<1> QED  BY <1>4, <1>8, <1>9

-----------------------------------------------------------------------------
(* The index at a date: names.                                               *)

\* U is the index of then, under present names or under those of then.
Renaming(U) ==
  /\ \A s \in Index!Left : s \in U \/ Index!NameThen(s) \in U
  /\ \A u \in U : u \in Index!Left \/ \E s \in Index!Left : u = Index!NameThen(s)

\* After k rows of a pass through the renames that began with U.
Restored(acc, U, k) ==
  /\ acc \in Passed
  /\ Index!PlainRenames /\ Renaming(U) =>
       /\ acc.failed = FALSE /\ Renaming(acc.set)
       /\ acc.changed = FALSE =>
            /\ acc.set = U
            /\ \A i \in 1 .. k : renames[i].later => renames[i].to \notin U

\* A row of a later date renames a symbol to what it was.
LEMMA NamesAre ==
  ASSUME NEW n \in Nat, renames \in [1 .. n -> Index!Rename], DOMAIN renames = 1 .. n,
         NEW k \in 1 .. n
  PROVE  /\ Index!FormerName(renames[k].to) \in Companies
         /\ Index!PlainRenames =>
              /\ Index!Cardinality(Index!FormerNames(renames[k].to)) = 1
              /\ Index!FormerName(renames[k].to) = renames[k].from
              /\ renames[k].later => Index!NameThen(renames[k].to) = renames[k].from
<1> DEFINE t == renames[k].to
           N == Index!FormerNames(t)
<1>1. k \in N /\ \A i \in N : i \in 1 .. n /\ renames[i].to = t /\ renames[i].from \in Companies
  BY DEF Index!FormerNames, Index!Rename
<1>2. Index!FormerName(t) = renames[CHOOSE i \in N : TRUE].from /\ (CHOOSE i \in N : TRUE) \in N
  <2>1. \E i \in N : TRUE
    BY <1>1
  <2>2. (CHOOSE i \in N : TRUE) \in N
    BY <2>1
  <2>3. Index!FormerName(t) = renames[CHOOSE i \in N : TRUE].from
    BY DEF Index!FormerName
  <2> QED  BY <2>2, <2>3
<1>3. Index!FormerName(t) \in Companies
  <2> HIDE DEF N
  <2> QED  BY <1>1, <1>2
<1>4. ASSUME Index!PlainRenames
      PROVE  /\ Index!Cardinality(N) = 1 /\ Index!FormerName(t) = renames[k].from
             /\ renames[k].later => Index!NameThen(t) = renames[k].from
  <2>1. \A i \in N : i = k
    BY <1>1, <1>4 DEF Index!PlainRenames
  <2>2. N = {k}
    <3> HIDE DEF N
    <3> QED  BY <1>1, <2>1
  <2>3. Index!Cardinality(N) = 1
    <3> HIDE DEF N
    <3> QED  BY <2>2, FS_Singleton, RowsAre
  <2>4. Index!FormerName(t) = renames[k].from
    <3> HIDE DEF N
    <3>1. (CHOOSE i \in N : TRUE) = k
      BY <1>2, <2>2
    <3> QED  BY <1>2, <3>1
  <2>5. renames[k].later => Index!NameThen(t) = renames[k].from
    BY <1>1, <2>4 DEF Index!NameThen
  <2> QED  BY <2>3, <2>4, <2>5
<1> QED  BY <1>3, <1>4

\* Another symbol than that of a row does not become it, whatever it was.
LEMMA OtherNames ==
  ASSUME NEW n \in Nat, renames \in [1 .. n -> Index!Rename], DOMAIN renames = 1 .. n,
         NEW k \in 1 .. n, Index!PlainRenames, NEW s
  PROVE  Index!NameThen(s) = renames[k].to => s = renames[k].to
<1>1. CASE \E i \in Index!FormerNames(s) : renames[i].later
  <2>1. PICK i \in Index!FormerNames(s) : renames[i].later
    BY <1>1
  <2>2. i \in 1 .. n /\ renames[i].to = s
    BY DEF Index!FormerNames
  <2>3. Index!FormerName(s) = renames[i].from
    BY <2>2, NamesAre
  <2>4. Index!NameThen(s) = renames[i].from
    BY <1>1, <2>3 DEF Index!NameThen
  <2>5. renames[i].from # renames[k].to
    BY <2>2 DEF Index!PlainRenames
  <2> QED  BY <2>4, <2>5
<1>2. CASE ~\E i \in Index!FormerNames(s) : renames[i].later
  BY <1>2 DEF Index!NameThen
<1> QED  BY <1>1, <1>2

LEMMA RenamingNext ==
  ASSUME NEW n \in Nat, renames \in [1 .. n -> Index!Rename], DOMAIN renames = 1 .. n,
         NEW k \in 1 .. n, Index!PlainRenames, NEW U, Renaming(U),
         renames[k].later, renames[k].to \in U
  PROVE  Renaming((U \cup {renames[k].from}) \ {renames[k].to})
<1> DEFINE t == renames[k].to
           f == renames[k].from
           V == (U \cup {f}) \ {t}
<1>1. f # t /\ Index!NameThen(t) = f
  BY NamesAre DEF Index!PlainRenames
<1>2. \A s : Index!NameThen(s) = t => s = t
  BY OtherNames
<1> HIDE DEF t, f
<1>3. t \in U
  BY DEF t
<1>4. ASSUME NEW s \in Index!Left PROVE s \in V \/ Index!NameThen(s) \in V
  <2>1. s \in U \/ Index!NameThen(s) \in U
    BY DEF Renaming
  <2> QED  BY <1>1, <1>2, <2>1
<1>5. ASSUME NEW u \in V PROVE u \in Index!Left \/ \E s \in Index!Left : u = Index!NameThen(s)
  <2>1. \A x \in U : x \in Index!Left \/ \E s \in Index!Left : x = Index!NameThen(s)
    BY DEF Renaming
  <2>2. t \in Index!Left
    BY <1>2, <1>3, <2>1
  <2> QED  BY <1>1, <2>1, <2>2
<1>6. Renaming(V)
  BY <1>4, <1>5 DEF Renaming
<1> QED  BY <1>6 DEF t, f

LEMMA RestoredNext ==
  ASSUME NEW n \in Nat, renames \in [1 .. n -> Index!Rename], DOMAIN renames = 1 .. n,
         NEW k \in 1 .. n, NEW U, NEW acc, Restored(acc, U, k - 1)
  PROVE  Restored(Index!Restore(acc, renames[k]), U, k)
<1> DEFINE row == renames[k]
           f == Index!FormerName(row.to)
           new == Index!Restore(acc, row)
<1>1. acc \in Passed /\ row.to \in Companies /\ row.later \in BOOLEAN /\ f \in Companies
  <2>1. row \in Index!Rename /\ acc \in Passed
    BY DEF Restored
  <2>2. f \in Companies
    BY NamesAre
  <2> QED  BY <2>1, <2>2 DEF Index!Rename
<1>2. Index!PlainRenames /\ Renaming(U) =>
        /\ acc.failed = FALSE /\ Renaming(acc.set)
        /\ acc.changed = FALSE =>
             /\ acc.set = U
             /\ \A i \in 1 .. k - 1 : renames[i].later => renames[i].to \notin U
  BY DEF Restored
<1>3. Index!PlainRenames =>
        Index!Cardinality(Index!FormerNames(row.to)) = 1 /\ f = row.from
  BY NamesAre
<1>4. \A i \in 1 .. k : i \in 1 .. k - 1 \/ i = k
  OBVIOUS
<1>5. CASE ~row.later \/ row.to \notin acc.set \/ acc.failed
  <2>1. new = acc
    BY <1>5 DEF Index!Restore
  <2>2. Index!PlainRenames /\ Renaming(U) =>
          /\ acc.failed = FALSE /\ Renaming(acc.set)
          /\ acc.changed = FALSE =>
               /\ acc.set = U
               /\ \A i \in 1 .. k : renames[i].later => renames[i].to \notin U
    <3> SUFFICES ASSUME Index!PlainRenames, Renaming(U)
                 PROVE  /\ acc.failed = FALSE /\ Renaming(acc.set)
                        /\ acc.changed = FALSE =>
                             /\ acc.set = U
                             /\ \A i \in 1 .. k : renames[i].later => renames[i].to \notin U
      OBVIOUS
    <3>1. row.later => row.to \notin acc.set
      BY <1>2, <1>5
    <3> QED  BY <1>2, <1>4, <3>1
  <2> HIDE DEF new
  <2> QED  BY <1>1, <2>1, <2>2 DEF Restored, new
<1>6. CASE ~(~row.later \/ row.to \notin acc.set \/ acc.failed)
           /\ Index!Cardinality(Index!FormerNames(row.to)) # 1
  <2>1. new = [acc EXCEPT !.failed = TRUE]
    BY <1>6 DEF Index!Restore
  <2>2. new \in Passed
    BY <1>1, <2>1 DEF Passed
  <2>3. ~Index!PlainRenames
    BY <1>3, <1>6
  <2> HIDE DEF new
  <2> QED  BY <2>2, <2>3 DEF Restored, new
<1>7. CASE ~(~row.later \/ row.to \notin acc.set \/ acc.failed)
           /\ Index!Cardinality(Index!FormerNames(row.to)) = 1
  <2> DEFINE V == (acc.set \cup {f}) \ {row.to}
  <2>1. new = [acc EXCEPT !.set = V, !.changed = TRUE]
    BY <1>7 DEF Index!Restore
  <2>2. V \in SUBSET Companies
    BY <1>1 DEF Passed
  <2> HIDE DEF V, new
  <2>3. new \in Passed /\ new.set = V /\ new.changed = TRUE /\ new.failed = acc.failed
    BY <1>1, <2>1, <2>2 DEF Passed
  <2>4. ASSUME Index!PlainRenames, Renaming(U)
        PROVE  new.failed = FALSE /\ Renaming(new.set)
    <3> DEFINE S == acc.set
    <3>1. Renaming(S) /\ row.to \in S /\ row.later /\ f = row.from
      BY <1>2, <1>3, <1>7, <2>4
    <3> HIDE DEF S
    <3>2. Renaming((S \cup {renames[k].from}) \ {renames[k].to})
      BY <2>4, <3>1, RenamingNext
    <3>3. V = (S \cup {renames[k].from}) \ {renames[k].to}
      BY <3>1 DEF V, S
    <3>4. acc.failed = FALSE
      BY <1>2, <2>4
    <3> QED  BY <2>3, <3>2, <3>3, <3>4
  <2> QED  BY <2>3, <2>4 DEF Restored, new
<1> QED  BY <1>5, <1>6, <1>7

LEMMA RestoredAll ==
  ASSUME NEW n \in Nat, renames \in [1 .. n -> Index!Rename], DOMAIN renames = 1 .. n,
         NEW U \in SUBSET Companies
  PROVE  Restored(Index!Pass(Index!Restore, renames, U), U, n)
<1>1. PICK P : RestoreSteps(P, n, U) /\ Index!Pass(Index!Restore, renames, U) = P[n]
  BY RestoreStepsAre
<1> DEFINE Bad == {k \in 0 .. n : ~Restored(P[k], U, k)}
<1> SUFFICES ASSUME Bad # {} PROVE FALSE
  <2>1. n \in 0 .. n
    OBVIOUS
  <2> QED  BY <1>1, <2>1
<1>2. Bad \in SUBSET Nat
  OBVIOUS
<1>3. PICK k \in Bad : \A j \in Bad : k <= j
  <2> HIDE DEF Bad
  <2> QED  BY <1>2, Least
<1>4. k \in 0 .. n /\ ~Restored(P[k], U, k)
  BY <1>3
<1>5. k # 0
  <2> SUFFICES ASSUME k = 0 PROVE FALSE
    OBVIOUS
  <2>1. P[0] = [set |-> U, changed |-> FALSE, failed |-> FALSE]
    BY <1>1 DEF RestoreSteps
  <2>2. Restored(P[0], U, 0)
    BY <2>1 DEF Restored, Passed
  <2> QED  BY <1>4, <2>2
<1>6. k \in 1 .. n /\ k - 1 \in 0 .. n
  BY <1>4, <1>5
<1>7. Restored(P[k - 1], U, k - 1)
  <2>1. k - 1 \notin Bad
    <3> HIDE DEF Bad
    <3> QED  BY <1>3, <1>6
  <2> QED  BY <1>6, <2>1
<1>8. P[k] = Index!Restore(P[k - 1], renames[k])
  BY <1>1, <1>6 DEF RestoreSteps
<1> DEFINE acc == P[k - 1]
<1>9. Restored(Index!Restore(acc, renames[k]), U, k)
  <2>1. Restored(acc, U, k - 1)
    BY <1>7
  <2> HIDE DEF acc
  <2> QED  BY <1>6, <2>1, RestoredNext
<1> QED  BY <1>4, <1>8, <1>9

\* While changes are undone nothing is missing that is left of the index; then it
\* is the index of then, under names that are in part those of then.
IndexInv ==
  /\ Index!TypeOK
  /\ loop = "changes" => Index!Left \subseteq unadjusted /\ unadjusted \subseteq present
  /\ Index!PlainRenames =>
       /\ loop # "failed"
       /\ loop = "renames" => Renaming(unadjusted)
       /\ loop = "done" => unadjusted = {Index!NameThen(s) : s \in Index!Left}

LEMMA NoRows ==
  <<>> \in Index!Rows(Index!Change) /\ <<>> \in Index!Rows(Index!Rename)
<1>1. 0 \in 0 .. IndexRows
  BY IndexAssumption DEF Index!ConstantsAssumption
<1>2. \A row : <<>> \in [1 .. 0 -> row]
  OBVIOUS
<1> QED  BY <1>1, <1>2 DEF Index!Rows

LEMMA IndexInit == Index!Init => IndexInv
<1> SUFFICES ASSUME Index!Init PROVE IndexInv
  OBVIOUS
<1>2. Index!TypeOK
  BY NoRows DEF Index!Init, Index!TypeOK
<1> QED  BY <1>2 DEF Index!Init, IndexInv, Index!Left

LEMMA UndoChangesStep == IndexInv /\ Index!UndoChanges => IndexInv'
<1> SUFFICES ASSUME IndexInv, Index!UndoChanges PROVE IndexInv'
  OBVIOUS
<1> DEFINE pass == Index!Pass(Index!Undo, changes, unadjusted)
<1>1. /\ loop = "changes" /\ unadjusted' = pass.set
      /\ loop' = IF pass.changed THEN "changes" ELSE "renames"
      /\ UNCHANGED <<changes, renames, present>>
  BY DEF Index!UndoChanges, Index!tables
<1>2. Index!TypeOK /\ Index!Left \subseteq unadjusted /\ unadjusted \subseteq present
  BY <1>1 DEF IndexInv
<1>3. PICK n \in Nat : changes \in [1 .. n -> Index!Change] /\ DOMAIN changes = 1 .. n
  BY <1>2, RowsAre DEF Index!TypeOK
<1>4. unadjusted \in SUBSET Companies
  BY <1>2 DEF Index!TypeOK
<1>5. Undone(pass, unadjusted, n)
  BY <1>3, <1>4, UndoneAll
<1> HIDE DEF pass
<1>6. /\ pass.set \subseteq unadjusted /\ pass.changed \in BOOLEAN
      /\ \A u \in unadjusted : u \in pass.set \/ \E i \in 1 .. n : u = changes[i].added
      /\ pass.changed = FALSE =>
           pass.set = unadjusted /\ \A i \in 1 .. n : changes[i].added \notin unadjusted
  BY <1>5 DEF Undone, Passed
<1>7. Index!AddedSince = {changes[i].added : i \in 1 .. n}
  BY <1>3 DEF Index!AddedSince
<1>8. Index!Left \subseteq pass.set
  BY <1>2, <1>6, <1>7 DEF Index!Left
<1>9. (Index!TypeOK)'
  BY <1>1, <1>2, <1>6 DEF Index!TypeOK
<1>10. /\ (Index!Left)' = Index!Left /\ (Index!PlainRenames)' = Index!PlainRenames
  BY <1>1 DEF Index!Left, Index!AddedSince, Index!PlainRenames
<1>11. CASE pass.changed
  <2>1. loop' = "changes"
    BY <1>1, <1>11
  <2> QED  BY <1>1, <1>2, <1>6, <1>8, <1>9, <1>10, <2>1 DEF IndexInv
<1>12. CASE ~pass.changed
  <2>1. loop' = "renames"
    BY <1>1, <1>12
  <2>2. unadjusted' = unadjusted /\ unadjusted \subseteq Index!Left
    <3>1. pass.changed = FALSE
      BY <1>6, <1>12
    <3> QED  BY <1>1, <1>2, <1>6, <1>7, <3>1 DEF Index!Left
  <2>3. (\A s \in Index!Left : s \in unadjusted') /\ \A u \in unadjusted' : u \in Index!Left
    BY <1>2, <2>2
  <2>4. (Renaming(unadjusted))'
    BY <1>10, <2>3 DEF Renaming
  <2> QED  BY <1>9, <2>1, <2>4 DEF IndexInv
<1> QED  BY <1>11, <1>12

LEMMA RestoreNamesStep == IndexInv /\ Index!RestoreNames => IndexInv'
<1> SUFFICES ASSUME IndexInv, Index!RestoreNames PROVE IndexInv'
  OBVIOUS
<1> DEFINE pass == Index!Pass(Index!Restore, renames, unadjusted)
<1>1. /\ loop = "renames" /\ unadjusted' = pass.set
      /\ loop' = IF pass.failed THEN "failed" ELSE IF pass.changed THEN "renames" ELSE "done"
      /\ UNCHANGED <<changes, renames, present>>
  BY DEF Index!RestoreNames, Index!tables
<1>2. Index!TypeOK /\ (Index!PlainRenames => Renaming(unadjusted))
  BY <1>1 DEF IndexInv
<1>3. PICK n \in Nat : renames \in [1 .. n -> Index!Rename] /\ DOMAIN renames = 1 .. n
  BY <1>2, RowsAre DEF Index!TypeOK
<1>4. unadjusted \in SUBSET Companies
  BY <1>2 DEF Index!TypeOK
<1>5. Restored(pass, unadjusted, n)
  BY <1>3, <1>4, RestoredAll
<1> HIDE DEF pass
<1>6. pass \in Passed /\ pass.set \subseteq Companies
      /\ pass.changed \in BOOLEAN /\ pass.failed \in BOOLEAN
  BY <1>5 DEF Restored, Passed
<1>7. (Index!TypeOK)'
  <2>1. loop' \in {"failed", "renames", "done"}
    BY <1>1
  <2> QED  BY <1>1, <1>2, <1>6, <2>1 DEF Index!TypeOK
<1>8. loop' # "changes"
  BY <1>1
<1>9. /\ (Index!Left)' = Index!Left /\ (Index!PlainRenames)' = Index!PlainRenames
      /\ \A s : Index!NameThen(s)' = Index!NameThen(s)
  BY <1>1 DEF Index!Left, Index!AddedSince, Index!PlainRenames, Index!NameThen,
     Index!FormerNames, Index!FormerName
<1>10. CASE ~Index!PlainRenames
  BY <1>7, <1>8, <1>9, <1>10 DEF IndexInv
<1>11. CASE Index!PlainRenames
  <2>1. /\ pass.failed = FALSE /\ Renaming(pass.set)
        /\ pass.changed = FALSE =>
             /\ pass.set = unadjusted
             /\ \A i \in 1 .. n : renames[i].later => renames[i].to \notin unadjusted
    BY <1>2, <1>5, <1>11 DEF Restored
  <2>2. loop' = IF pass.changed THEN "renames" ELSE "done"
    BY <1>1, <2>1
  <2>3. (Renaming(unadjusted))'
    BY <1>1, <1>9, <2>1 DEF Renaming
  <2>4. ASSUME loop' = "done" PROVE unadjusted' = {Index!NameThen(s) : s \in Index!Left}
    <3>1. /\ unadjusted' = unadjusted
          /\ \A i \in 1 .. n : renames[i].later => renames[i].to \notin unadjusted
      BY <1>1, <1>6, <2>1, <2>2, <2>4
    <3>2. ASSUME NEW s \in unadjusted PROVE Index!NameThen(s) = s
      <4>1. ~\E i \in Index!FormerNames(s) : renames[i].later
        BY <1>3, <3>1 DEF Index!FormerNames
      <4> QED  BY <4>1 DEF Index!NameThen
    <3>3. Renaming(unadjusted)
      BY <1>2, <1>11
    <3>4. ASSUME NEW u \in unadjusted PROVE u \in {Index!NameThen(s) : s \in Index!Left}
      BY <3>2, <3>3 DEF Renaming
    <3>5. ASSUME NEW s \in Index!Left PROVE Index!NameThen(s) \in unadjusted
      BY <3>2, <3>3 DEF Renaming
    <3> QED  BY <3>1, <3>4, <3>5
  <2>5. loop' = "done" => unadjusted' = {Index!NameThen(s)' : s \in (Index!Left)'}
    BY <1>9, <2>4
  <2>6. loop' # "failed"
    BY <2>2
  <2> QED  BY <1>7, <1>8, <2>3, <2>5, <2>6 DEF IndexInv
<1> QED  BY <1>10, <1>11

LEMMA IndexStep == IndexInv /\ [Index!Next]_(Index!vars) => IndexInv'
<1> SUFFICES ASSUME IndexInv, [Index!Next]_(Index!vars) PROVE IndexInv'
  OBVIOUS
<1>1. CASE UNCHANGED Index!vars
  BY <1>1 DEF Index!vars, Index!tables, IndexInv, Index!TypeOK, Renaming, Index!Left,
     Index!AddedSince, Index!PlainRenames, Index!NameThen, Index!FormerNames,
     Index!FormerName
<1> QED  BY <1>1, UndoChangesStep, RestoreNamesStep DEF Index!Next

\* Theorem: when the loops for the index at a date end, what is left is the present
\* index less what was added since, each symbol under its name of then, and
\* no ambiguous name was met, if each symbol has one former name that is no later
\* name; for any tables (sp500_historical_constituents, market_data.py).
THEOREM EndsThenAlways == Index!Spec => []Index!EndsThen
<1>1. IndexInv => Index!EndsThen
  BY DEF IndexInv, Index!EndsThen
<1> QED  BY <1>1, IndexInit, IndexStep, PTL DEF Index!Spec

-----------------------------------------------------------------------------
(* What is done off-line shares nothing: what the specifications of the parts *)
(* have, the composition of them has.                                       *)

\* Theorem: in every state of the composition the reports agree with the tables and
\* the charts with the bars, an optimizer that is done has covered its grid, and an
\* index that is done is that of the date, whichever of the off-line parts is at work.
THEOREM CalculationsAgree ==
  MCSpec => [](ReportsAgree /\ ChartsAgree /\ Optimizing!GridCovered /\ Index!EndsThen)
<1>1. MCInit => Reports!Init /\ Chart!Init
  BY DEF MCInit
<1>2. [MCNext]_allvars => [Reports!Next]_(Reports!vars)
  BY DEF MCNext, allvars, reports, Reports!vars
<1>3. [MCNext]_allvars => [Chart!Next]_bars
  BY DEF MCNext, allvars, calculations
<1>4. MCSpec => Reports!Spec
  BY <1>1, <1>2, PTL DEF MCSpec, Reports!Spec
<1>5. MCSpec => Chart!Spec
  BY <1>1, <1>3, PTL DEF MCSpec, Chart!Spec
<1>6. MCInit => Optimizing!Init
  BY DEF MCInit, OptimizerAtRest
<1>7. [MCNext]_allvars => [Optimizing!Next]_(Optimizing!vars)
  BY DEF MCNext, allvars, optimizer, Optimizing!vars
<1>8. MCSpec => Optimizing!Spec
  BY <1>6, <1>7, PTL DEF MCSpec, Optimizing!Spec
<1>9. MCInit => IndexInv
  <2> SUFFICES ASSUME MCInit PROVE IndexInv
    OBVIOUS
  <2>1. CASE part = "index"
    BY <2>1, IndexInit DEF MCInit
  <2>2. CASE part # "index"
    <3>1. IndexAtRest
      BY <2>2 DEF MCInit
    <3>2. <<>> \in Index!Rows(Index!Change) /\ <<>> \in Index!Rows(Index!Rename)
      BY NoRows
    <3>3. Index!TypeOK
      BY <3>1, <3>2 DEF IndexAtRest, Index!TypeOK
    <3>4. loop = "done" /\ unadjusted = {} /\ Index!Left = {}
      BY <3>1 DEF IndexAtRest, Index!Left
    <3> QED  BY <3>3, <3>4 DEF IndexInv
  <2> QED  BY <2>1, <2>2
<1>10. [MCNext]_allvars => [Index!Next]_(Index!vars)
  BY DEF MCNext, allvars, index, calculations, Index!vars, Index!tables
<1>11. MCSpec => []Index!EndsThen
  <2>1. IndexInv => Index!EndsThen
    BY DEF IndexInv, Index!EndsThen
  <2> QED  BY <1>9, <1>10, <2>1, IndexStep, PTL DEF MCSpec
<1> QED  BY <1>4, <1>5, <1>8, <1>11, ReportsAgreeAlways, ChartsAgreeAlways,
            GridCoveredAlways, PTL

=============================================================================
