---------------------------- MODULE OrderTracking ----------------------------
(***************************************************************************)
(* How one consumer process follows the orders it sends to the broker      *)
(* (liualgotrader/consumer.py), with a personal Alpaca account.            *)
(*                                                                         *)
(* Three kinds of asyncio task share the dictionaries of trading_data:     *)
(*   "qc"   queue_consumer: trade updates and bars, one message at a time; *)
(*   "clo"  cancel_lingering_orders: polls every open order once a minute; *)
(*   one do_strategy_all task for each strategy that implements run_all.   *)
(* A task runs until it awaits something that really suspends: a database  *)
(* write, or a strategy callback that awaits.  REST calls block the event  *)
(* loop: the broker moves during them, no other task does.                 *)
(***************************************************************************)
EXTENDS Integers, Sequences, SequencesExt

CONSTANTS
  Symbols,           \* the symbols traded by this consumer
  RunStrategies,     \* strategies called per symbol and per bar: run()
  RunAllStrategies,  \* strategies called by periodic_runner: run_all()
  OrderIds,          \* the orders that may ever be submitted (a bound)
  OrderQty,          \* the quantity of every order
  Sources,           \* how news of an order reaches the process
  PartialFills,      \* may the broker fill an order in several executions?
  Disciplined,       \* do strategies look at open_orders before they ask?
  CallbackSuspends,  \* does buy_callback / sell_callback await something?
  MaxSaveFailures,   \* bound: database writes that fail
  MaxLost,           \* bound: trade updates the stream loses
  MaxNotices,        \* bound: updates that report neither a fill nor an end
  MaxRestarts,       \* bound: restarts of the application
  None

Strategies == RunStrategies \cup RunAllStrategies
Handlers == {"qc", "clo"}

ASSUME OrderQtyAssumption == OrderQty \in Nat \ {0}
ASSUME SourcesAssumption == Sources \subseteq {"stream", "bars", "lingering"}
ASSUME FlagsAssumption ==
  {PartialFills, Disciplined, CallbackSuspends} \subseteq BOOLEAN
ASSUME BoundsAssumption ==
  {MaxSaveFailures, MaxLost, MaxNotices, MaxRestarts} \subseteq Nat
ASSUME NoneAssumption == None \notin OrderIds \cup Strategies
ASSUME KindsAssumption == RunStrategies \cap RunAllStrategies = {}

VARIABLES
  open_orders,         \* trading_data.open_orders: order tracked per symbol
  open_order_strategy, \* trading_data.open_order_strategy
  positions,           \* trading_data.positions
  recorded,            \* net quantity per symbol in the table new_trades
  pc,                  \* where each handler is suspended
  job,                 \* the order each handler is working on
  todo,                \* do_strategies: <<symbol, strategy>> still to run
  snapshot,            \* cancel_lingering_orders: items of its list copy
  runAllTodo,          \* do_strategy_all: symbols still to be ordered
  queue,               \* trade updates in this consumer's queue
  broker,              \* the broker's own view of every order
  aged,                \* orders submitted more than a minute ago
  counted,             \* quantity of each order added to positions so far
  saveFailures, lost, notices, restarts

data     == <<open_orders, open_order_strategy, positions, recorded, counted>>
control  == <<pc, job, todo, snapshot, runAllTodo>>
counters == <<saveFailures, lost, notices, restarts>>
vars     == <<data, control, queue, broker, aged, counters>>

Update == [order : OrderIds, sym : Symbols, qty : 0 .. OrderQty,
           event : {"partial_fill", "fill", "canceled", "other"}]
Job == [order : OrderIds, sym : Symbols, qty : 0 .. OrderQty,
        fill : BOOLEAN, after : {"idle", "strategies", "scan"}]
PC == {"idle", "callback", "save", "cancel", "scan", "strategies", "orderSave"}
BrokerOrder ==
  [status : {"unused", "live", "pending_cancel", "filled", "canceled"},
   sym : Symbols \cup {None}, by : Strategies \cup {None},
   side : {"buy", "sell"}, filled : 0 .. OrderQty]

TypeOK ==
  /\ open_orders \in [Symbols -> OrderIds \cup {None}]
  /\ open_order_strategy \in [Symbols -> Strategies \cup {None}]
  /\ positions \in [Symbols -> Int]
  /\ recorded \in [Symbols -> Int]
  /\ pc \in [Handlers -> PC]
  /\ job \in [Handlers -> Job \cup {None}]
  /\ todo \subseteq Symbols \X RunStrategies
  /\ snapshot \subseteq Symbols \X OrderIds
  /\ runAllTodo \in [RunAllStrategies -> SUBSET Symbols]
  /\ queue \in Seq(Update)
  /\ broker \in [OrderIds -> BrokerOrder]
  /\ aged \subseteq OrderIds
  /\ counted \in [OrderIds -> Nat]
  /\ saveFailures \in 0 .. MaxSaveFailures
  /\ lost \in 0 .. MaxLost
  /\ notices \in 0 .. MaxNotices
  /\ restarts \in 0 .. MaxRestarts

Init ==
  /\ open_orders = [s \in Symbols |-> None]
  /\ open_order_strategy = [s \in Symbols |-> None]
  /\ positions = [s \in Symbols |-> 0]
  /\ recorded = [s \in Symbols |-> 0]
  /\ pc = [h \in Handlers |-> "idle"]
  /\ job = [h \in Handlers |-> None]
  /\ todo = {}
  /\ snapshot = {}
  /\ runAllTodo = [st \in RunAllStrategies |-> {}]
  /\ queue = << >>
  /\ broker = [o \in OrderIds |-> [status |-> "unused", sym |-> None,
                                   by |-> None, side |-> "buy", filled |-> 0]]
  /\ aged = {}
  /\ counted = [o \in OrderIds |-> 0]
  /\ saveFailures = 0 /\ lost = 0 /\ notices = 0 /\ restarts = 0

-----------------------------------------------------------------------------
(* Event loop, and the continuation of a handler.                           *)

\* A handler that has not reached a suspending await keeps the event loop.
KeepsLoop(h) == pc[h] \in {"cancel", "scan", "strategies"}
LoopFreeFor(h) == \A g \in Handlers \ {h} : ~KeepsLoop(g)
LoopFree == \A g \in Handlers : ~KeepsLoop(g)

\* Where the caller of order_inflight or handle_trade_update goes on: the
\* next message, do_strategies for this bar, or the next item of the copy.
Return(h, j) ==
  /\ pc' = [pc EXCEPT ![h] = j.after]
  /\ job' = [job EXCEPT ![h] = None]

Suspend(h, at, j) ==
  /\ pc' = [pc EXCEPT ![h] = at]
  /\ job' = [job EXCEPT ![h] = j]

-----------------------------------------------------------------------------
(* Accounting for a fill.                                                    *)

Signed(o, q) == IF broker[o].side = "buy" THEN q ELSE -q

\* update_partially_filled_order after the callback: positions change, then
\* save() looks the strategy up and awaits the INSERT.  A missing strategy
\* raises KeyError: the position has moved and no row is written.
CountFill(h, j) ==
  /\ positions' = [positions EXCEPT ![j.sym] = @ + Signed(j.order, j.qty)]
  /\ counted' = [counted EXCEPT ![j.order] = @ + j.qty]
  /\ IF open_order_strategy[j.sym] = None THEN Return(h, j)
     ELSE Suspend(h, "save", j)

\* The callers pass open_order_strategy[symbol]: KeyError when it is missing,
\* swallowed by order_inflight and by queue_consumer.  Then
\* update_filled_order and update_partially_filled_order run up to their first
\* await, do_callbacks, which suspends only if the strategy's code does.
BeginFill(h, j) ==
  IF open_order_strategy[j.sym] = None
  THEN Return(h, j) /\ UNCHANGED <<positions, counted>>
  ELSE IF CallbackSuspends
       THEN Suspend(h, "callback", j) /\ UNCHANGED <<positions, counted>>
       ELSE CountFill(h, j)

CallbackReturns(h) ==
  /\ pc[h] = "callback"
  /\ LoopFreeFor(h)
  /\ CountFill(h, job[h])
  /\ UNCHANGED <<open_orders, open_order_strategy, recorded, todo, snapshot,
                 runAllTodo, queue, broker, aged, counters>>

\* Mutant: the row of a sale is read back as a purchase.
SaveTrade_Unsigned(h) ==
  LET j == job[h] IN
  /\ pc[h] = "save"
  /\ LoopFreeFor(h)
  /\ recorded' = [recorded EXCEPT ![j.sym] = @ + j.qty]
  /\ IF j.fill /\ open_orders[j.sym] # None
     THEN /\ open_orders' = [open_orders EXCEPT ![j.sym] = None]
          /\ open_order_strategy' = [open_order_strategy EXCEPT ![j.sym] = None]
     ELSE UNCHANGED <<open_orders, open_order_strategy>>
  /\ Return(h, j)
  /\ UNCHANGED <<positions, counted, todo, snapshot, runAllTodo, queue, broker,
                 aged, counters>>

\* The INSERT commits.  For a complete fill update_filled_order then pops the
\* symbol from both dictionaries; open_orders.pop raises KeyError when another
\* task popped it meanwhile, and open_order_strategy then keeps its entry.
SaveTrade(h) ==
  LET j == job[h] IN
  /\ pc[h] = "save"
  /\ LoopFreeFor(h)
  /\ recorded' = [recorded EXCEPT ![j.sym] = @ + Signed(j.order, j.qty)]
  /\ IF j.fill /\ open_orders[j.sym] # None
     THEN /\ open_orders' = [open_orders EXCEPT ![j.sym] = None]
          /\ open_order_strategy' = [open_order_strategy EXCEPT ![j.sym] = None]
     ELSE UNCHANGED <<open_orders, open_order_strategy>>
  /\ Return(h, j)
  /\ UNCHANGED <<positions, counted, todo, snapshot, runAllTodo, queue, broker,
                 aged, counters>>

\* The INSERT fails.  order_inflight swallows every exception; queue_consumer
\* puts the message back at the end of its queue on a ConnectionError and
\* drops it on any other exception.
SaveTradeFails(h) ==
  LET j == job[h] IN
  /\ pc[h] = "save"
  /\ LoopFreeFor(h)
  /\ saveFailures < MaxSaveFailures
  /\ saveFailures' = saveFailures + 1
  /\ \/ UNCHANGED queue
     \/ /\ j.after = "idle"
        /\ queue' = Append(queue,
             [order |-> j.order, sym |-> j.sym, qty |-> j.qty,
              event |-> IF j.fill THEN "fill" ELSE "partial_fill"])
  /\ Return(h, j)
  /\ UNCHANGED <<data, todo, snapshot, runAllTodo, broker, aged, lost, notices,
                 restarts>>

-----------------------------------------------------------------------------
(* The broker, and the stream of its trade updates.                          *)

\* _trade_from_dict and trade_update_handler put an update in the queue of
\* every consumer; an exception there, or a broken connection, loses it.
Send(o, event, q) ==
  LET u == [order |-> o, sym |-> broker[o].sym, qty |-> q, event |-> event]
  IN IF "stream" \in Sources
     THEN \/ queue' = Append(queue, u) /\ UNCHANGED lost
          \/ lost < MaxLost /\ lost' = lost + 1 /\ UNCHANGED queue
     ELSE UNCHANGED <<queue, lost>>

Working(o) == broker[o].status \in {"live", "pending_cancel"}

Executed(o, total) ==
  LET status == IF total = OrderQty THEN "filled" ELSE broker[o].status
  IN [broker[o] EXCEPT !.filled = total, !.status = status]

\* An execution; an update carries the quantity of this execution alone.
BrokerFills(o, q) ==
  LET total == broker[o].filled + q IN
  /\ Working(o)
  /\ total <= OrderQty
  /\ PartialFills \/ total = OrderQty
  /\ broker' = [broker EXCEPT ![o] = Executed(o, total)]
  /\ Send(o, IF total = OrderQty THEN "fill" ELSE "partial_fill", q)
  /\ UNCHANGED <<data, control, aged, saveFailures, notices, restarts>>

\* A requested cancel takes effect, or the order expires on its own.
BrokerCancels(o) ==
  /\ Working(o)
  /\ broker' = [broker EXCEPT ![o].status = "canceled"]
  /\ Send(o, "canceled", 0)
  /\ UNCHANGED <<data, control, aged, saveFailures, notices, restarts>>

\* Any other update of a working order (accepted, replaced, done_for_day...).
BrokerNotice(o) ==
  /\ "stream" \in Sources
  /\ Working(o)
  /\ notices < MaxNotices
  /\ notices' = notices + 1
  /\ queue' = Append(queue, [order |-> o, sym |-> broker[o].sym, qty |-> 0,
                             event |-> "other"])
  /\ UNCHANGED <<data, control, broker, aged, saveFailures, lost, restarts>>

\* should_cancel_order: a minute has passed since the order was submitted.
\* Only order_inflight looks at the age.
Age(o) ==
  /\ Sources \cap {"bars", "lingering"} # {}
  /\ broker[o].status # "unused"
  /\ o \notin aged
  /\ aged' = aged \cup {o}
  /\ UNCHANGED <<data, control, queue, broker, counters>>

-----------------------------------------------------------------------------
(* queue_consumer, "trade_update": handle_trade_update.                      *)

\* The message at the head of the queue, when queue_consumer asks for one.
Receives ==
  /\ pc["qc"] = "idle"
  /\ LoopFree
  /\ queue # << >>
  /\ queue' = Tail(queue)

\* The symbol alone decides whether an order is open; the order id of the
\* update is not looked at.
UpdateWithoutOrder ==
  /\ Receives
  /\ open_orders[Head(queue).sym] = None
  /\ UNCHANGED <<data, control, broker, aged, counters>>

\* Mutant: only the strategy is popped.
OrderEnds_HalfPopped ==
  LET u == Head(queue) IN
  /\ Receives
  /\ open_orders[u.sym] # None
  /\ u.event \in {"canceled", "other"}
  /\ open_order_strategy' = [open_order_strategy EXCEPT ![u.sym] = None]
  /\ UNCHANGED <<open_orders, positions, recorded, counted, control, broker, aged,
                 counters>>

\* Mutant: a partial fill falls into the branch of the other events.
OrderEnds_OnPartialFill ==
  LET u == Head(queue) IN
  /\ Receives
  /\ open_orders[u.sym] # None
  /\ u.event # "fill"
  /\ open_orders' = [open_orders EXCEPT ![u.sym] = None]
  /\ open_order_strategy' = [open_order_strategy EXCEPT ![u.sym] = None]
  /\ UNCHANGED <<positions, recorded, counted, control, broker, aged, counters>>

\* Every event but a fill or a partial fill stops the tracking.
OrderEnds ==
  LET u == Head(queue) IN
  /\ Receives
  /\ open_orders[u.sym] # None
  /\ u.event \in {"canceled", "other"}
  /\ open_orders' = [open_orders EXCEPT ![u.sym] = None]
  /\ open_order_strategy' = [open_order_strategy EXCEPT ![u.sym] = None]
  /\ UNCHANGED <<positions, recorded, counted, control, broker, aged, counters>>

\* Mutant: a partial fill is handled by update_filled_order.
UpdateFills_AlwaysComplete ==
  LET u == Head(queue) IN
  /\ Receives
  /\ open_orders[u.sym] # None
  /\ u.event \in {"partial_fill", "fill"}
  /\ BeginFill("qc", [order |-> u.order, sym |-> u.sym, qty |-> u.qty,
                      fill |-> TRUE, after |-> "idle"])
  /\ UNCHANGED <<open_orders, open_order_strategy, recorded, todo, snapshot,
                 runAllTodo, broker, aged, counters>>

UpdateFills ==
  LET u == Head(queue) IN
  /\ Receives
  /\ open_orders[u.sym] # None
  /\ u.event \in {"partial_fill", "fill"}
  /\ BeginFill("qc", [order |-> u.order, sym |-> u.sym, qty |-> u.qty,
                      fill |-> u.event = "fill", after |-> "idle"])
  /\ UNCHANGED <<open_orders, open_order_strategy, recorded, todo, snapshot,
                 runAllTodo, broker, aged, counters>>

-----------------------------------------------------------------------------
(* order_inflight: what a poll of the broker does to an order.              *)

PartlyFilled(o) == broker[o].status = "live" /\ broker[o].filled > 0

\* Mutant: the branch for partial_fill works, with the cumulative quantity.
OrderInflight_CountsPartialFills(h, s, o, after) ==
  LET j == [order |-> o, sym |-> s, qty |-> broker[o].filled,
            fill |-> broker[o].status = "filled", after |-> after] IN
  \/ /\ o \notin aged
     /\ Return(h, j)
     /\ UNCHANGED <<positions, counted>>
  \/ /\ o \in aged
     /\ broker[o].status = "filled" \/ PartlyFilled(o)
     /\ BeginFill(h, j)
  \/ /\ o \in aged
     /\ broker[o].status # "filled"
     /\ ~PartlyFilled(o)
     /\ Suspend(h, "cancel", j)
     /\ UNCHANGED <<positions, counted>>

\* Mutant: an order that is not filled is left alone.
OrderInflight_NeverCancels(h, s, o, after) ==
  LET j == [order |-> o, sym |-> s, qty |-> broker[o].filled, fill |-> TRUE,
            after |-> after] IN
  \/ /\ o \notin aged \/ broker[o].status # "filled"
     /\ Return(h, j)
     /\ UNCHANGED <<positions, counted>>
  \/ /\ o \in aged
     /\ broker[o].status = "filled"
     /\ BeginFill(h, j)

\* A young order is left alone, and so is a partly filled one: the branch
\* for partial_fill reads existing_order.id, which Order does not have, and
\* the AttributeError is swallowed.  A filled one is accounted for with its
\* whole quantity, anything else is cancelled.
OrderInflight(h, s, o, after) ==
  LET j == [order |-> o, sym |-> s, qty |-> broker[o].filled, fill |-> TRUE,
            after |-> after] IN
  \/ /\ o \notin aged \/ PartlyFilled(o)
     /\ Return(h, j)
     /\ UNCHANGED <<positions, counted>>
  \/ /\ o \in aged
     /\ broker[o].status = "filled"
     /\ BeginFill(h, j)
  \/ /\ o \in aged
     /\ broker[o].status # "filled"
     /\ ~PartlyFilled(o)
     /\ Suspend(h, "cancel", j)
     /\ UNCHANGED <<positions, counted>>

\* trader.cancel_order: the broker refuses (the exception is swallowed) if the
\* order has ended meanwhile or a cancel is pending.  If it accepts, the order
\* of the symbol is popped; its entry in open_order_strategy stays.
CancelOrder(h) ==
  LET j == job[h] IN
  /\ pc[h] = "cancel"
  /\ IF broker[j.order].status = "live"
     THEN /\ broker' = [broker EXCEPT ![j.order].status = "pending_cancel"]
          /\ open_orders' = [open_orders EXCEPT ![j.sym] = None]
     ELSE UNCHANGED <<broker, open_orders>>
  /\ Return(h, j)
  /\ UNCHANGED <<open_order_strategy, positions, recorded, counted, todo,
                 snapshot, runAllTodo, queue, aged, counters>>

\* cancel_lingering_orders, once a minute while something is open.
LingeringWakes ==
  /\ "lingering" \in Sources
  /\ pc["clo"] = "idle"
  /\ LoopFree
  /\ \E s \in Symbols : open_orders[s] # None
  /\ snapshot' = {item \in Symbols \X OrderIds : open_orders[item[1]] = item[2]}
  /\ pc' = [pc EXCEPT !["clo"] = "scan"]
  /\ UNCHANGED <<data, job, todo, runAllTodo, queue, broker, aged, counters>>

LingeringNext ==
  /\ pc["clo"] = "scan"
  /\ \E item \in snapshot :
       /\ snapshot' = snapshot \ {item}
       /\ OrderInflight("clo", item[1], item[2], "scan")
  /\ UNCHANGED <<open_orders, open_order_strategy, recorded, todo, runAllTodo,
                 queue, broker, aged, counters>>

LingeringDone ==
  /\ pc["clo"] = "scan"
  /\ snapshot = {}
  /\ pc' = [pc EXCEPT !["clo"] = "idle"]
  /\ UNCHANGED <<data, job, todo, snapshot, runAllTodo, queue, broker, aged,
                 counters>>

-----------------------------------------------------------------------------
(* Strategies ask for orders.                                               *)

\* submit_order and update_trading_data: no other task runs in between.
SubmitOrder(o, s, st, side) ==
  /\ broker[o].status = "unused"
  /\ broker' = [broker EXCEPT ![o] = [status |-> "live", sym |-> s, by |-> st,
                                      side |-> side, filled |-> 0]]
  /\ open_orders' = [open_orders EXCEPT ![s] = o]
  /\ open_order_strategy' = [open_order_strategy EXCEPT ![s] = st]

\* handle_aggregate: order_inflight on the symbol's open order, if any, then
\* do_strategies in any case, since order_inflight returns None.
HandleBar(s) ==
  /\ "bars" \in Sources
  /\ pc["qc"] = "idle"
  /\ LoopFree
  /\ todo' = {s} \X RunStrategies
  /\ IF open_orders[s] = None
     THEN /\ pc' = [pc EXCEPT !["qc"] = "strategies"]
          /\ UNCHANGED <<job, positions, counted>>
     ELSE OrderInflight("qc", s, open_orders[s], "strategies")
  /\ UNCHANGED <<open_orders, open_order_strategy, recorded, snapshot,
                 runAllTodo, queue, broker, aged, counters>>

\* do_strategy: run() asks for an order.  execute_strategy_result submits it
\* and awaits the INSERT of a row with quantity 0.
StrategySubmits(s, st, side) ==
  /\ pc["qc"] = "strategies"
  /\ <<s, st>> \in todo
  /\ Disciplined => open_orders[s] = None
  /\ \E o \in OrderIds : SubmitOrder(o, s, st, side)
  /\ todo' = todo \ {<<s, st>>}
  /\ pc' = [pc EXCEPT !["qc"] = "orderSave"]
  /\ UNCHANGED <<positions, recorded, counted, job, snapshot, runAllTodo, queue,
                 aged, counters>>

\* The row is written, or an exception that do_strategies swallows.
OrderRowSaved ==
  /\ pc["qc"] = "orderSave"
  /\ LoopFreeFor("qc")
  /\ pc' = [pc EXCEPT !["qc"] = "strategies"]
  /\ UNCHANGED <<data, job, todo, snapshot, runAllTodo, queue, broker, aged,
                 counters>>

\* The remaining strategies do nothing.
StrategiesDone ==
  /\ pc["qc"] = "strategies"
  /\ todo' = {}
  /\ pc' = [pc EXCEPT !["qc"] = "idle"]
  /\ UNCHANGED <<data, job, snapshot, runAllTodo, queue, broker, aged, counters>>

\* do_strategy_all: run_all() chooses its orders now; they are submitted one
\* by one later, with an await before each.
RunAll(st) ==
  /\ LoopFree
  /\ runAllTodo[st] = {}
  /\ \E T \in SUBSET {s \in Symbols : Disciplined => open_orders[s] = None} \ {{}} :
       runAllTodo' = [runAllTodo EXCEPT ![st] = T]
  /\ UNCHANGED <<data, pc, job, todo, snapshot, queue, broker, aged, counters>>

RunAllSubmits(st, s, side) ==
  /\ LoopFree
  /\ s \in runAllTodo[st]
  /\ runAllTodo' = [runAllTodo EXCEPT ![st] = @ \ {s}]
  /\ \E o \in OrderIds : SubmitOrder(o, s, st, side)
  /\ UNCHANGED <<positions, recorded, counted, pc, job, todo, snapshot, queue,
                 aged, counters>>

\* The broker refuses an order or a row cannot be written: the exception ends
\* the task, and the orders not yet submitted are forgotten.
RunAllAborts(st) ==
  /\ LoopFree
  /\ runAllTodo[st] # {}
  /\ runAllTodo' = [runAllTodo EXCEPT ![st] = {}]
  /\ UNCHANGED <<data, pc, job, todo, snapshot, queue, broker, aged, counters>>

\* The application stops and starts again: positions come from new_trades
\* (load_symbol_position), everything else in memory is gone.
Restart ==
  /\ restarts < MaxRestarts
  /\ restarts' = restarts + 1
  /\ positions' = recorded
  /\ open_orders' = [s \in Symbols |-> None]
  /\ open_order_strategy' = [s \in Symbols |-> None]
  /\ pc' = [h \in Handlers |-> "idle"]
  /\ job' = [h \in Handlers |-> None]
  /\ todo' = {}
  /\ snapshot' = {}
  /\ runAllTodo' = [st \in RunAllStrategies |-> {}]
  /\ queue' = << >>
  /\ UNCHANGED <<recorded, counted, broker, aged, saveFailures, lost, notices>>

-----------------------------------------------------------------------------
Fill(h) == CallbackReturns(h) \/ SaveTrade(h) \/ SaveTradeFails(h)
Lingering == LingeringWakes \/ LingeringNext \/ LingeringDone
TradeUpdate == UpdateWithoutOrder \/ OrderEnds \/ UpdateFills
Bar == (\E s \in Symbols : HandleBar(s)) \/ OrderRowSaved \/ StrategiesDone
Submission ==
  \E s \in Symbols, side \in {"buy", "sell"} :
    \/ \E st \in RunStrategies : StrategySubmits(s, st, side)
    \/ \E st \in RunAllStrategies : RunAllSubmits(st, s, side)
Periodic == \E st \in RunAllStrategies : RunAll(st) \/ RunAllAborts(st)
Broker ==
  \E o \in OrderIds :
    \/ \E q \in 1 .. OrderQty : BrokerFills(o, q)
    \/ BrokerCancels(o) \/ BrokerNotice(o) \/ Age(o)

Next ==
  \/ \E h \in Handlers : Fill(h) \/ CancelOrder(h)
  \/ Lingering \/ TradeUpdate \/ Bar \/ Submission \/ Periodic
  \/ Broker \/ Restart

Spec == Init /\ [][Next]_vars

\* asyncio runs every task that is ready; time passes.  Nothing is assumed of
\* the broker, of bars or of strategies.
Fairness ==
  /\ \A h \in Handlers : SF_vars(Fill(h) \/ CancelOrder(h))
  /\ SF_vars(TradeUpdate)
  /\ WF_vars(Lingering)
  /\ \A o \in OrderIds : WF_vars(Age(o))
FairSpec == Spec /\ Fairness

-----------------------------------------------------------------------------
(* Properties.                                                              *)

\* Both dictionaries speak of the same request: the strategy filed under a
\* symbol with an open order is the one that sent that order, for that symbol.
\* handle_trade_update and save() index open_order_strategy relying on it.
TrackedWithItsStrategy ==
  \A s \in Symbols : open_orders[s] # None =>
    /\ open_order_strategy[s] = broker[open_orders[s]].by
    /\ broker[open_orders[s]].sym = s

\* The change of a position that handler h still has to write to new_trades.
InFlight(h, s) ==
  IF pc[h] = "save" /\ job[h].sym = s THEN Signed(job[h].order, job[h].qty) ELSE 0

\* What the position of s holds beyond the rows of new_trades and the rows being
\* written: what a restart would change, since load_symbol_position adds rows up.
Gap(s) == positions[s] - recorded[s] - InFlight("qc", s) - InFlight("clo", s)

\* Whatever fills arrive twice, late, for another order or again after a failed
\* write put them back in the queue, each failed write costs at most the rows of
\* one fill: positions and new_trades drift apart by no more than that, and not
\* at all while no write fails.  A callback that suspends is left out: the
\* strategy may be popped meanwhile, and the position moves without a row.
LedgerAgrees ==
  ~CallbackSuspends => \A s \in Symbols :
    Gap(s) \in -(saveFailures * OrderQty) .. saveFailures * OrderQty

\* Every order is followed and accounted for as OrderBook promises.
Book == INSTANCE OrderBook WITH
  Orders    <- OrderIds,
  Quantity  <- OrderQty,
  submitted <- {o \in OrderIds : broker[o].status # "unused"},
  closing   <- {o \in OrderIds :
                  broker[o].status \in {"pending_cancel", "filled", "canceled"}},
  followed  <- {o \in OrderIds : \E s \in Symbols : open_orders[s] = o},
  executed  <- [o \in OrderIds |-> broker[o].filled]
ImplementsOrderBook == Book!BookSpec

\* No order moves a position by more than the broker has executed.
CountedOnce == \A o \in OrderIds : counted[o] <= broker[o].filled

\* The quantity of order o that updates still in the queue report, and the
\* one a suspended callback will add.
Queued(o) ==
  FoldLeft(LAMBDA sum, u : sum + IF u.order = o THEN u.qty ELSE 0, 0, queue)
InCallback(o) ==
  LET j == job["qc"]
  IN IF pc["qc"] = "callback" /\ j.order = o THEN j.qty ELSE 0

\* With a stream that loses nothing and is the only source of news, every
\* executed share is in the position, in a callback, or still in the queue.
NothingForgotten ==
  \A o \in OrderIds : counted[o] + InCallback(o) + Queued(o) = broker[o].filled

\* An order does not stay in open_orders for ever.
EventuallyUntracked ==
  \A s \in Symbols, o \in OrderIds : open_orders[s] = o ~> open_orders[s] # o

=============================================================================
