------------------------------- MODULE Returns -------------------------------
(***************************************************************************)
(* What the analytics make of the trades of a batch and the transactions of  *)
(* its account: revenues by symbol and by day, the round trips consolidate   *)
(* stores, and the daily equity and cash of a portfolio.                     *)
(*                                                                         *)
(* The reports are functions of the two tables; the tables grow by a row at  *)
(* a time.  Prices are left out but for one a day, the same for all symbols, *)
(* and a symbol's equity is counted in units of its close.  Quantities are   *)
(* positive, as a consumer writes them.                                      *)
(***************************************************************************)
EXTENDS Integers, Sequences, FiniteSets, SequencesExt

CONSTANTS
  Symbols,        \* traded symbols, each with one algo_run
  LastDay,        \* calendar days 0 .. LastDay
  Closed,         \* days on which the market is closed
  Quantities,     \* of a trade
  Amounts,        \* of a transaction
  PortfolioSize,  \* initial cash
  MaxTrades,      \* bound
  MaxTransactions,\* bound
  Nil             \* no value

ConstantsAssumption ==
  /\ LastDay \in Nat /\ Closed \subseteq 0..LastDay
  /\ Quantities \subseteq Nat \ {0} /\ Amounts \subseteq Int
  /\ PortfolioSize \in Nat /\ MaxTrades \in Nat /\ MaxTransactions \in Nat
  /\ Nil \notin Nat

VARIABLES
  today,
  new_trades,            \* rows in the order of their time
  account_transactions
vars == <<today, new_trades, account_transactions>>

Calendar == 0..LastDay
Price(day) == day + 1
Amount(row) == row.qty * Price(row.day)

Init == today = 0 /\ new_trades = <<>> /\ account_transactions = <<>>

NextDay ==
  /\ today < LastDay
  /\ today' = today + 1
  /\ UNCHANGED <<new_trades, account_transactions>>

Trade(s, op, qty) ==
  /\ today \notin Closed /\ Len(new_trades) < MaxTrades
  /\ new_trades' =
       Append(new_trades, [sym |-> s, op |-> op, qty |-> qty, day |-> today])
  /\ UNCHANGED <<today, account_transactions>>

Transact(amount) ==
  /\ Len(account_transactions) < MaxTransactions
  /\ account_transactions' =
       Append(account_transactions, [day |-> today, amount |-> amount])
  /\ UNCHANGED <<today, new_trades>>

Next ==
  \/ NextDay
  \/ \E s \in Symbols, op \in {"buy", "sell"}, q \in Quantities : Trade(s, op, q)
  \/ \E a \in Amounts : Transact(a)

Spec == Init /\ [][Next]_vars

-----------------------------------------------------------------------------
(* Sums of a sequence of numbers, and of those at some places of it.        *)

Sum(numbers) == FoldLeft(LAMBDA sum, number : sum + number, 0, numbers)
Total(numbers, places) ==
  Sum([i \in DOMAIN numbers |-> IF i \in places THEN numbers[i] ELSE 0])

-----------------------------------------------------------------------------
(* Revenues.                                                                *)

\* What a trade brings in.
Delta(row) == IF row.op = "sell" /\ row.qty > 0 THEN Amount(row) ELSE -Amount(row)
Deltas == [i \in DOMAIN new_trades |-> Delta(new_trades[i])]

TradesOf(s) == {i \in DOMAIN new_trades : new_trades[i].sym = s}
SymbolsTraded == {new_trades[i].sym : i \in DOMAIN new_trades}

BatchRevenue(s) == Total(Deltas, TradesOf(s))

\* trades_analysis: a row for each symbol, in the order of their first trades.
FirstTrades ==
  {i \in DOMAIN new_trades : \A j \in TradesOf(new_trades[i].sym) : i <= j}
Revenues ==
  [i \in DOMAIN new_trades |->
     IF i \in FirstTrades THEN BatchRevenue(new_trades[i].sym) ELSE 0]

\* portfolio_return: the tables of revenue and investment by day.
TradesOn(day) == {i \in DOMAIN new_trades : new_trades[i].day = day}
Investments ==
  [i \in DOMAIN new_trades |->
     IF new_trades[i].op = "buy" THEN Amount(new_trades[i]) ELSE 0]
PortfolioReturn ==
  [d \in Calendar |-> [revenue |-> Total(Deltas, TradesOn(d)),
                       invested |-> Total(Investments, TradesOn(d))]]

-----------------------------------------------------------------------------
(* consolidate.trades: a row of trade_analysis is a round trip of a symbol.  *)

NoneConsolidated == [gain_loss |-> <<>>, analysis |-> <<>>, aborted |-> FALSE]

IsOpen(trip, s) == trip.sym = s /\ trip.status = "open"
OpenTrip(analysis, s) ==
  SelectInSeq(analysis, LAMBDA trip : IsOpen(trip, s))

Opened(row) ==
  [sym |-> row.sym, gain |-> Delta(row), qty |-> row.qty, status |-> "open",
   opened_by |-> row.op]

Added_NeverNegative(trip, row) ==
  LET qty == trip.qty + IF row.op = "sell" /\ row.qty > 0 THEN -row.qty ELSE row.qty
  IN [trip EXCEPT !.gain = @ + Delta(row), !.qty = qty,
                  !.status = IF qty <= 0 THEN "close" ELSE "open"]
Added(trip, row) ==
  LET qty == trip.qty + IF row.op = "sell" /\ row.qty > 0 THEN -row.qty ELSE row.qty
  IN [trip EXCEPT !.gain = @ + Delta(row), !.qty = qty,
                  !.status = IF qty = 0 THEN "close" ELSE "open"]

Analysed(analysis, row) ==
  LET i == OpenTrip(analysis, row.sym)
  IN IF i = 0 THEN Append(analysis, Opened(row))
     ELSE [analysis EXCEPT ![i] = Added(@, row)]

Gained(gain_loss, row) ==
  LET i == SelectInSeq(gain_loss, LAMBDA g : g.sym = row.sym)
  IN IF i = 0 THEN Append(gain_loss, [sym |-> row.sym, gain |-> Delta(row)])
     ELSE [gain_loss EXCEPT ![i].gain = @ + Delta(row)]

\* The percentage of a whole column is converted to one float, which raises
\* unless the column has one row.
Consolidate(acc, row) ==
  LET gain_loss == Gained(acc.gain_loss, row)
      analysis == Analysed(acc.analysis, row)
  IN IF acc.aborted THEN acc
     ELSE [gain_loss |-> gain_loss, analysis |-> analysis,
           aborted |-> Len(gain_loss) > 1 \/ Len(analysis) > 1]

Consolidated == FoldLeft(Consolidate, NoneConsolidated, new_trades)

\* What is saved of the analysis: its rows at these places.
SavedTrips ==
  {i \in DOMAIN Consolidated.analysis :
     ~Consolidated.aborted /\ Consolidated.analysis[i].status = "close"}

-----------------------------------------------------------------------------
(* calc_portfolio_returns.                                                  *)

\* The days of the report: the trading days from the first trade to the last.
ReportDays ==
  IF new_trades = <<>> THEN {}
  ELSE (new_trades[1].day .. Last(new_trades).day) \ Closed

\* calc_symbol_trades_returns, one trade of a symbol: the days since the
\* trade before it are valued at the quantity held until now.
Signed(row) == IF row.op = "buy" THEN row.qty ELSE -row.qty
Valued(equity, first, last, qty) ==
  [d \in DOMAIN equity |->
     equity[d] + IF first <= d /\ d < last THEN qty ELSE 0]

Walk_FromFirstTrade(acc, row) ==
  LET qty == acc.qty + Signed(row)
  IN [equity |-> IF acc.t1 = Nil THEN acc.equity
                 ELSE Valued(acc.equity, acc.t1, row.day, acc.qty),
      t1 |-> IF qty = 0 THEN Nil ELSE IF acc.t1 = Nil THEN row.day ELSE acc.t1,
      qty |-> qty]
Walk(acc, row) ==
  LET qty == acc.qty + Signed(row)
  IN [equity |-> IF acc.t1 = Nil THEN acc.equity
                 ELSE Valued(acc.equity, acc.t1, row.day, acc.qty),
      t1 |-> IF qty = 0 THEN Nil ELSE row.day,
      qty |-> qty]

\* The trades of one symbol.  What is still held is valued to the end of the
\* report.
NotHeld == [equity |-> [d \in ReportDays |-> 0], t1 |-> Nil, qty |-> 0]
Walked(s) ==
  FoldLeft(LAMBDA acc, row : IF row.sym = s THEN Walk(acc, row) ELSE acc,
           NotHeld, new_trades)
Equity(s) ==
  LET walked == Walked(s)
  IN IF walked.qty # 0 /\ walked.t1 # Nil
     THEN Valued(walked.equity, walked.t1, LastDay + 1, walked.qty)
     ELSE walked.equity

\* calc_symbol_state.
Quantity == [i \in DOMAIN new_trades |-> Signed(new_trades[i])]
SymbolState(s) == Total(Quantity, TradesOf(s))

\* get_cash: the days with transactions and the sum of all amounts until each,
\* the initial cash counted with the first.  (The reindexed copy is not kept.)
TransactionDays ==
  {account_transactions[i].day : i \in DOMAIN account_transactions}
TransactionsOn(day) ==
  {i \in DOMAIN account_transactions : account_transactions[i].day = day}
AmountColumn ==
  [i \in DOMAIN account_transactions |-> account_transactions[i].amount]
\* A day's row is at the place day + 1; a day without one counts nothing.
DailyAmounts ==
  [i \in 1..LastDay + 1 |->
     Total(AmountColumn, TransactionsOn(i - 1))
       + IF i - 1 \in TransactionDays /\ \A e \in TransactionDays : i - 1 <= e
         THEN PortfolioSize ELSE 0]
Cash == [d \in TransactionDays |-> Total(DailyAmounts, 1..d + 1)]

\* td.join(cash_df) and its forward fill: the newest row of cash that is on a
\* day of the report.
CashColumn_NotFilled ==
  [d \in ReportDays |-> IF d \in TransactionDays THEN Cash[d] ELSE Nil]
CashColumn ==
  [d \in ReportDays |->
     LET known == {e \in ReportDays \cap TransactionDays : e <= d}
     IN IF known = {} THEN Nil
        ELSE Cash[CHOOSE e \in known : \A f \in known : f <= e]]

-----------------------------------------------------------------------------
(* Properties.                                                              *)

\* Every variable has its type.
TypeOK ==
  /\ today \in Calendar
  /\ new_trades \in Seq([sym : Symbols, op : {"buy", "sell"},
                         qty : Quantities, day : Calendar \ Closed])
  /\ account_transactions \in Seq([day : Calendar, amount : Amounts])

\* The days' revenues and the symbols' revenues are of the same trades.  A
\* round trip is saved only of a batch with a single one: its gain is the batch's
\* revenue, and if a purchase opened it, what was bought has been sold.
RevenueAgrees ==
  /\ Sum([i \in 1..LastDay + 1 |-> PortfolioReturn[i - 1].revenue]) = Sum(Revenues)
  /\ \A i \in SavedTrips :
       LET trip == Consolidated.analysis[i]
       IN /\ SavedTrips = {i} /\ SymbolsTraded = {trip.sym}
          /\ trip.gain = BatchRevenue(trip.sym)
          /\ trip.opened_by = "buy" => SymbolState(trip.sym) = 0

\* The equity of a symbol on a day of the report is what its trades until the
\* end of that day leave, however they are spread over the days.
EquityIsHoldings ==
  \A s \in Symbols, d \in ReportDays :
    Equity(s)[d] = Total(Quantity, {i \in TradesOf(s) : new_trades[i].day <= d})

\* If transactions were made on days of the report alone, its cash is without a
\* value until the first of them, and then the initial cash and every transaction
\* so far.  (One on another day is only seen with the next one.)
CashIsCurrent ==
  TransactionDays \subseteq ReportDays =>
    \A d \in ReportDays :
      LET past == {i \in DOMAIN account_transactions :
                     account_transactions[i].day <= d}
      IN CashColumn[d] = IF past = {} THEN Nil
                         ELSE PortfolioSize + Total(AmountColumn, past)
=============================================================================
