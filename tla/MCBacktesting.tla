---------------------------- MODULE MCBacktesting ----------------------------
(***************************************************************************)
(* What is done off-line: a replay and an optimizer of replays, and the      *)
(* calculations: reports of what was traded, charts, candles and the index   *)
(* of a date.  Each is in a process of its own or a function of its input:   *)
(* they share nothing, so that a state is of one of them.                    *)
(***************************************************************************)
EXTENDS Backtest, TLC

MCScannerList == <<[recurrence |-> 0, target |-> "_all"],
                   [recurrence |-> 3, target |-> "byBar"]>>
MCStrategyList == <<"byBar", "atOnce">>
MCAskedQty == {-1, 1}

MCSymmetry == Permutations(Symbols)

VARIABLES
  part,       \* whose state it is
  param, value, pools, phase, started, waiting, running, sessions,
  today, new_trades, account_transactions,
  bars, candle,
  changes, renames, present, unadjusted, loop

\* Ranges around zero, with zero at either end.
CONSTANTS NumParams, Lowest, Highest, Steps, Concurrency, MaxPool
Optimizing == INSTANCE Optimizer WITH
  Bounds <- -Lowest .. Highest, Deltas <- Steps

ASSUME OptimizerAssumption == Optimizing!ConstantsAssumption

CONSTANTS LastDay, Closed, Quantities, Amounts, PortfolioSize, MaxRows,
          MaxTransactions
Reports == INSTANCE Returns WITH Nil <- None, MaxTrades <- MaxRows

ASSUME ReportsAssumption == Reports!ConstantsAssumption

CONSTANTS BarPrices, Gaps, MaxBars, BinLength, ChartDay, Window
Chart == INSTANCE Charts WITH DayLength <- ChartDay

ASSUME ChartAssumption == Chart!ConstantsAssumption

CONSTANT MaxPrice
Pattern == INSTANCE Candles

ASSUME PatternAssumption == Pattern!ConstantsAssumption

CONSTANTS Companies, IndexRows
Index == INSTANCE Constituents WITH
  Symbols <- Companies, MaxRows <- IndexRows, symbols <- present

ASSUME IndexAssumption == Index!ConstantsAssumption

calculations ==
  <<bars, candle, changes, renames, present, unadjusted, loop>>
reports == <<today, new_trades, account_transactions>>
optimizer == <<param, value, pools, phase, started, waiting, running, sessions>>
allvars == <<part, vars, optimizer, reports, calculations>>

OptimizerAtRest ==
  /\ param = [p \in Optimizing!Params |-> [min |-> 0, max |-> 0, delta |-> 1]]
  /\ Optimizing!Init
PatternAtRest == candle = [open |-> 0, high |-> 0, low |-> 0, close |-> 0]
IndexAtRest ==
  /\ changes = <<>> /\ renames = <<>> /\ present = {} /\ unadjusted = {}
  /\ loop = "done"

MCInit ==
  /\ part \in {"replay", "optimizer", "reports", "chart", "candles", "index"}
  /\ Init /\ Reports!Init /\ Chart!Init
  /\ IF part = "optimizer" THEN Optimizing!Init ELSE OptimizerAtRest
  /\ IF part = "candles" THEN Pattern!Init ELSE PatternAtRest
  /\ IF part = "index" THEN Index!Init ELSE IndexAtRest

index == <<changes, renames, present, unadjusted, loop>>

MCNext ==
  \/ /\ part = "replay" /\ Next
     /\ UNCHANGED <<part, optimizer, reports, calculations>>
  \/ /\ part = "optimizer" /\ Optimizing!Next
     /\ UNCHANGED <<part, vars, reports, calculations>>
  \/ /\ part = "reports" /\ Reports!Next
     /\ UNCHANGED <<part, vars, optimizer, calculations>>
  \/ /\ part = "chart" /\ Chart!Next
     /\ UNCHANGED <<part, vars, optimizer, reports, candle, index>>
  \/ /\ part = "candles" /\ Pattern!Next
     /\ UNCHANGED <<part, vars, optimizer, reports, bars, index>>
  \/ /\ part = "index" /\ Index!Next
     /\ UNCHANGED <<part, vars, optimizer, reports, bars, candle>>

MCSpec == MCInit /\ [][MCNext]_allvars /\ WF_allvars(MCNext)


\* An optimizer whose parameters' ranges can be walked through ends, with every
\* replay joined, and has replayed each configuration of the ranges once.
GridReplayed == Optimizing!GridReplayed

\* Revenues by day, by symbol and by round trip agree; a symbol's equity on a
\* day is what its trades until then leave, and the cash of a day the initial
\* one with every transaction until then.
ReportsAgree ==
  Reports!RevenueAgrees /\ Reports!EquityIsHoldings /\ Reports!CashIsCurrent

\* A bin of twice the length is the join of its halves; extremes are found.
ChartsAgree == Chart!ResampleComposes /\ Chart!ExtremesFound

\* No candle has two patterns that contradict one another.
PatternsExclude == Pattern!PatternsExclude

\* The loops that go back to the index of a date end with that index.
ConstituentsOfThen == Index!ConstituentsOfThen
=============================================================================
