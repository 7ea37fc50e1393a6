------------------------ MODULE OrderTracking_proofs -------------------------
(* Proofs about OrderTracking, and about the consumer with one source of    *)
(* news that MCSingleSource makes of it, for every value of their constants. *)
EXTENDS MCSingleSource, WellFoundedInduction, TLAPS

\* A handler suspended in the middle of an order holds a job, and callbacks
\* are awaited only if strategies' callbacks suspend at all.
JobsHeld ==
  \A h \in Handlers :
    /\ pc[h] \in {"callback", "save", "cancel"} => job[h] \in Job
    /\ pc[h] = "callback" => CallbackSuspends

\* An order at the broker is for a symbol of ours.
OrdersPlaced ==
  \A o \in OrderIds : broker[o].status # "unused" => broker[o].sym \in Symbols

Busy == {"callback", "save", "cancel"}
Placed == {o \in OrderIds : broker[o].status # "unused"}

\* Whatever names an order names one that was submitted.
OrdersKnown ==
  /\ \A s \in Symbols : open_orders[s] # None => open_orders[s] \in Placed
  /\ \A i \in 1 .. Len(queue) : queue[i].order \in Placed
  /\ \A item \in snapshot : item[2] \in Placed
  /\ \A h \in Handlers : pc[h] \in Busy => job[h].order \in Placed

TypeInv == TypeOK /\ JobsHeld /\ OrdersPlaced
TrackingInv == TypeInv /\ OrdersKnown /\ TrackedWithItsStrategy
LedgerInv == TrackingInv /\ LedgerAgrees

-----------------------------------------------------------------------------
(* Type correctness.                                                        *)

LEMMA ReturnType ==
  ASSUME TypeInv, NEW h \in Handlers, NEW j \in Job, Return(h, j)
  PROVE  /\ pc' \in [Handlers -> PC]
         /\ job' \in [Handlers -> Job \cup {None}]
         /\ JobsHeld'
BY DEF TypeInv, TypeOK, JobsHeld, Return, Job, PC

LEMMA SuspendType ==
  ASSUME TypeInv, NEW h \in Handlers, NEW j \in Job,
         NEW at \in {"callback", "save", "cancel"}, at = "callback" => CallbackSuspends,
         Suspend(h, at, j)
  PROVE  /\ pc' \in [Handlers -> PC]
         /\ job' \in [Handlers -> Job \cup {None}]
         /\ JobsHeld'
BY DEF TypeInv, TypeOK, JobsHeld, Suspend, Job, PC

LEMMA CountFillType ==
  ASSUME TypeInv, NEW h \in Handlers, NEW j \in Job, CountFill(h, j)
  PROVE  /\ pc' \in [Handlers -> PC]
         /\ job' \in [Handlers -> Job \cup {None}]
         /\ JobsHeld'
         /\ positions' \in [Symbols -> Int]
         /\ counted' \in [OrderIds -> Nat]
<1>1. j.order \in OrderIds /\ j.sym \in Symbols /\ j.qty \in Nat
  BY OrderQtyAssumption DEF Job
<1>2. Signed(j.order, j.qty) \in Int
  BY <1>1 DEF Signed
<1>3. positions' \in [Symbols -> Int] /\ counted' \in [OrderIds -> Nat]
  <2>1. positions \in [Symbols -> Int] /\ counted \in [OrderIds -> Nat]
    BY DEF TypeInv, TypeOK
  <2>2. positions' = [positions EXCEPT ![j.sym] = @ + Signed(j.order, j.qty)]
    BY DEF CountFill
  <2>3. counted' = [counted EXCEPT ![j.order] = @ + j.qty]
    BY DEF CountFill
  <2>4. positions[j.sym] + Signed(j.order, j.qty) \in Int /\ counted[j.order] + j.qty \in Nat
    BY <1>1, <1>2, <2>1
  <2> QED BY <2>1, <2>2, <2>3, <2>4, <1>1
<1>4. Return(h, j) \/ Suspend(h, "save", j)
  BY DEF CountFill
<1> QED BY <1>3, <1>4, ReturnType, SuspendType

LEMMA BeginFillType ==
  ASSUME TypeInv, NEW h \in Handlers, NEW j \in Job, BeginFill(h, j)
  PROVE  /\ pc' \in [Handlers -> PC]
         /\ job' \in [Handlers -> Job \cup {None}]
         /\ JobsHeld'
         /\ positions' \in [Symbols -> Int]
         /\ counted' \in [OrderIds -> Nat]
<1>1. CASE UNCHANGED <<positions, counted>>
  <2>1. Return(h, j) \/ (Suspend(h, "callback", j) /\ CallbackSuspends) \/ CountFill(h, j)
    BY DEF BeginFill
  <2> QED BY <1>1, <2>1, ReturnType, SuspendType, CountFillType DEF TypeInv, TypeOK
<1>2. CASE CountFill(h, j)
  BY <1>2, CountFillType
<1> QED BY <1>1, <1>2 DEF BeginFill

LEMMA OrderInflightType ==
  ASSUME TypeInv, NEW h \in Handlers, NEW s \in Symbols, NEW o \in OrderIds,
         NEW after \in {"scan", "strategies"}, OrderInflight(h, s, o, after)
  PROVE  /\ pc' \in [Handlers -> PC]
         /\ job' \in [Handlers -> Job \cup {None}]
         /\ JobsHeld'
         /\ positions' \in [Symbols -> Int]
         /\ counted' \in [OrderIds -> Nat]
<1> DEFINE j == [order |-> o, sym |-> s, qty |-> broker[o].filled, fill |-> TRUE,
                 after |-> after]
<1>1. j \in Job
  BY DEF TypeInv, TypeOK, BrokerOrder, Job
<1> HIDE DEF j
<1>2. CASE Return(h, j) /\ UNCHANGED <<positions, counted>>
  BY <1>1, <1>2, ReturnType DEF TypeInv, TypeOK
<1>3. CASE BeginFill(h, j)
  BY <1>1, <1>3, BeginFillType
<1>4. CASE Suspend(h, "cancel", j) /\ UNCHANGED <<positions, counted>>
  BY <1>1, <1>4, SuspendType DEF TypeInv, TypeOK
<1> QED BY <1>2, <1>3, <1>4 DEF OrderInflight, j

LEMMA SendType ==
  ASSUME TypeInv, NEW o \in OrderIds, Working(o),
         NEW event \in {"partial_fill", "fill", "canceled", "other"},
         NEW q \in 0 .. OrderQty, Send(o, event, q)
  PROVE  queue' \in Seq(Update) /\ lost' \in 0 .. MaxLost
<1> DEFINE u == [order |-> o, sym |-> broker[o].sym, qty |-> q, event |-> event]
<1>1. u \in Update
  BY DEF Update, TypeInv, OrdersPlaced, Working
<1>2. queue \in Seq(Update) /\ lost \in 0 .. MaxLost /\ MaxLost \in Nat
  BY BoundsAssumption DEF TypeInv, TypeOK
<1> HIDE DEF u
<1>3. CASE queue' = Append(queue, u) /\ lost' = lost
  BY <1>1, <1>2, <1>3
<1>4. CASE lost < MaxLost /\ lost' = lost + 1 /\ queue' = queue
  BY <1>2, <1>4
<1>5. CASE UNCHANGED <<queue, lost>>
  BY <1>2, <1>5
<1> QED BY <1>3, <1>4, <1>5 DEF Send, u

LEMMA SubmitOrderType ==
  ASSUME TypeInv, NEW o \in OrderIds, NEW s \in Symbols, NEW st \in Strategies,
         NEW side \in {"buy", "sell"}, SubmitOrder(o, s, st, side)
  PROVE  /\ broker' \in [OrderIds -> BrokerOrder]
         /\ OrdersPlaced'
         /\ open_orders' \in [Symbols -> OrderIds \cup {None}]
         /\ open_order_strategy' \in [Symbols -> Strategies \cup {None}]
<1> DEFINE b == [status |-> "live", sym |-> s, by |-> st, side |-> side, filled |-> 0]
<1>1. b \in BrokerOrder
  BY OrderQtyAssumption DEF BrokerOrder
<1>2. b.sym \in Symbols
  OBVIOUS
<1> HIDE DEF b
<1>3. broker' = [broker EXCEPT ![o] = b]
  BY DEF SubmitOrder, b
<1>4. broker' \in [OrderIds -> BrokerOrder] /\ OrdersPlaced'
  BY <1>1, <1>2, <1>3 DEF TypeInv, TypeOK, OrdersPlaced
<1> QED BY <1>4 DEF SubmitOrder, TypeInv, TypeOK

Same(b, c) == b.sym = c.sym /\ b.by = c.by /\ b.side = c.side

LEMMA BrokerOrderEdit ==
  ASSUME NEW b \in BrokerOrder, NEW q \in 0 .. OrderQty,
         NEW st \in {"unused", "live", "pending_cancel", "filled", "canceled"}
  PROVE  /\ [b EXCEPT !.filled = q, !.status = st] \in BrokerOrder
         /\ [b EXCEPT !.filled = q, !.status = st].status = st
         /\ Same([b EXCEPT !.filled = q, !.status = st], b)
         /\ [b EXCEPT !.status = st] \in BrokerOrder
         /\ [b EXCEPT !.status = st].status = st
         /\ Same([b EXCEPT !.status = st], b)
BY DEF BrokerOrder, Same

LEMMA InitType == Init => TypeInv
<1> SUFFICES ASSUME Init PROVE TypeInv
  OBVIOUS
<1>1. [status |-> "unused", sym |-> None, by |-> None, side |-> "buy", filled |-> 0]
        \in BrokerOrder
  BY OrderQtyAssumption DEF BrokerOrder
<1>2. broker \in [OrderIds -> BrokerOrder]
  BY <1>1 DEF Init
<1>3. TypeOK
  BY <1>2, BoundsAssumption DEF Init, TypeOK, PC
<1>4. JobsHeld /\ OrdersPlaced
  BY DEF Init, JobsHeld, OrdersPlaced
<1> QED BY <1>3, <1>4 DEF TypeInv

LEMMA FillType ==
  ASSUME TypeInv, NEW h \in Handlers, Fill(h)
  PROVE  TypeInv'
<1>1. CASE CallbackReturns(h)
  <2>1. job[h] \in Job /\ CountFill(h, job[h])
    BY <1>1 DEF TypeInv, JobsHeld, CallbackReturns
  <2> QED BY <1>1, <2>1, CountFillType
          DEF CallbackReturns, TypeInv, TypeOK, counters, OrdersPlaced
<1>2. CASE SaveTrade(h)
  <2>1. job[h] \in Job /\ Return(h, job[h])
    BY <1>2 DEF TypeInv, JobsHeld, SaveTrade
  <2>2. job[h].sym \in Symbols /\ Signed(job[h].order, job[h].qty) \in Int
    BY <2>1, OrderQtyAssumption DEF Job, Signed
  <2>3. recorded' \in [Symbols -> Int]
    BY <1>2, <2>2 DEF SaveTrade, TypeInv, TypeOK
  <2>4. /\ open_orders' \in [Symbols -> OrderIds \cup {None}]
        /\ open_order_strategy' \in [Symbols -> Strategies \cup {None}]
    BY <1>2, <2>2 DEF SaveTrade, TypeInv, TypeOK
  <2> QED BY <1>2, <2>1, <2>3, <2>4, ReturnType
          DEF SaveTrade, TypeInv, TypeOK, counters, OrdersPlaced
<1>3. CASE SaveTradeFails(h)
  <2>1. job[h] \in Job /\ Return(h, job[h])
    BY <1>3 DEF TypeInv, JobsHeld, SaveTradeFails
  <2> DEFINE u == [order |-> job[h].order, sym |-> job[h].sym, qty |-> job[h].qty,
                   event |-> IF job[h].fill THEN "fill" ELSE "partial_fill"]
  <2>2. u \in Update
    BY <2>1 DEF Job, Update
  <2> HIDE DEF u
  <2>3. queue' = queue \/ queue' = Append(queue, u)
    BY <1>3 DEF SaveTradeFails, u
  <2>4. queue' \in Seq(Update)
    <3>1. queue \in Seq(Update)
      BY DEF TypeInv, TypeOK
    <3> QED BY <2>2, <2>3, <3>1
  <2>5. saveFailures' \in 0 .. MaxSaveFailures
    <3>1. saveFailures \in 0 .. MaxSaveFailures /\ MaxSaveFailures \in Nat
      BY BoundsAssumption DEF TypeInv, TypeOK
    <3> QED BY <1>3, <3>1 DEF SaveTradeFails
  <2> QED BY <1>3, <2>1, <2>4, <2>5, ReturnType
          DEF SaveTradeFails, TypeInv, TypeOK, data, OrdersPlaced
<1> QED BY <1>1, <1>2, <1>3 DEF Fill

LEMMA CancelOrderType ==
  ASSUME TypeInv, NEW h \in Handlers, CancelOrder(h)
  PROVE  TypeInv'
<1>1. job[h] \in Job /\ Return(h, job[h])
  BY DEF TypeInv, JobsHeld, CancelOrder
<1>2. job[h].order \in OrderIds /\ job[h].sym \in Symbols
  BY <1>1 DEF Job
<1>3. broker' \in [OrderIds -> BrokerOrder] /\ OrdersPlaced'
  <2> DEFINE b == [broker[job[h].order] EXCEPT !.status = "pending_cancel"]
  <2>1. broker[job[h].order] \in BrokerOrder /\ 0 \in 0 .. OrderQty
    BY <1>2, OrderQtyAssumption DEF TypeInv, TypeOK
  <2>2. b \in BrokerOrder /\ b.sym = broker[job[h].order].sym
    <3>1. b \in BrokerOrder /\ Same(b, broker[job[h].order])
      BY <2>1, BrokerOrderEdit
    <3> QED BY <3>1 DEF Same
  <2> HIDE DEF b
  <2>3. CASE broker[job[h].order].status = "live" /\ broker' = [broker EXCEPT ![job[h].order] = b]
    BY <1>2, <2>2, <2>3 DEF TypeInv, TypeOK, OrdersPlaced
  <2>4. CASE broker' = broker
    BY <2>4 DEF TypeInv, TypeOK, OrdersPlaced
  <2> QED BY <2>3, <2>4 DEF CancelOrder, b
<1>4. open_orders' \in [Symbols -> OrderIds \cup {None}]
  BY <1>2 DEF CancelOrder, TypeInv, TypeOK
<1> QED BY <1>1, <1>3, <1>4, ReturnType DEF CancelOrder, TypeInv, TypeOK, counters

LEMMA BrokerType ==
  ASSUME TypeInv, Broker
  PROVE  TypeInv'
<1> SUFFICES ASSUME NEW o \in OrderIds,
                    \/ \E q \in 1 .. OrderQty : BrokerFills(o, q)
                    \/ BrokerCancels(o) \/ BrokerNotice(o) \/ Age(o)
             PROVE  TypeInv'
  BY DEF Broker
<1>1. ASSUME NEW q \in 1 .. OrderQty, BrokerFills(o, q) PROVE TypeInv'
  <2> DEFINE total == broker[o].filled + q
             st == IF total = OrderQty THEN "filled" ELSE broker[o].status
             b == [broker[o] EXCEPT !.filled = total, !.status = st]
  <2>1. total \in 0 .. OrderQty /\ q \in 0 .. OrderQty
    <3>1. broker[o] \in BrokerOrder
      BY DEF TypeInv, TypeOK
    <3>2. broker[o].filled \in 0 .. OrderQty
      BY <3>1 DEF BrokerOrder
    <3>3. total <= OrderQty
      BY <1>1 DEF BrokerFills
    <3>4. q \in Nat /\ OrderQty \in Nat /\ q <= OrderQty
      BY OrderQtyAssumption
    <3>5. broker[o].filled + q \in Nat
      BY <3>2, <3>4
    <3> QED BY <3>3, <3>4, <3>5
  <2> HIDE DEF total
  <2>2. b \in BrokerOrder /\ b.sym = broker[o].sym
    <3>1. broker[o] \in BrokerOrder
      BY DEF TypeInv, TypeOK
    <3>2. broker[o].status \in {"unused", "live", "pending_cancel", "filled", "canceled"}
      BY <3>1 DEF BrokerOrder
    <3>3. st \in {"unused", "live", "pending_cancel", "filled", "canceled"}
      BY <3>2
    <3> HIDE DEF st
    <3>4. b \in BrokerOrder /\ Same(b, broker[o])
      BY <2>1, <3>1, <3>3, BrokerOrderEdit
    <3> QED BY <3>4 DEF Same
  <2>3. broker' = [broker EXCEPT ![o] = b]
    BY <1>1 DEF BrokerFills, Executed, total
  <2> HIDE DEF b, st
  <2>4. broker' \in [OrderIds -> BrokerOrder] /\ OrdersPlaced'
    BY <1>1, <2>2, <2>3 DEF TypeInv, TypeOK, OrdersPlaced, BrokerFills, Working
  <2>5. Working(o) /\ (Send(o, "fill", q) \/ Send(o, "partial_fill", q))
    BY <1>1 DEF BrokerFills
  <2>6. queue' \in Seq(Update) /\ lost' \in 0 .. MaxLost
    BY <2>1, <2>5, SendType
  <2> QED BY <1>1, <2>4, <2>6 DEF BrokerFills, TypeInv, TypeOK, JobsHeld, data, control
<1>2. CASE BrokerCancels(o)
  <2> DEFINE b == [broker[o] EXCEPT !.status = "canceled"]
  <2>1. b \in BrokerOrder /\ b.sym = broker[o].sym
    <3>1. broker[o] \in BrokerOrder /\ 0 \in 0 .. OrderQty
      BY OrderQtyAssumption DEF TypeInv, TypeOK
    <3>2. b \in BrokerOrder /\ Same(b, broker[o])
      BY <3>1, BrokerOrderEdit
    <3> QED BY <3>2 DEF Same
  <2> HIDE DEF b
  <2>2. broker' = [broker EXCEPT ![o] = b]
    BY <1>2 DEF BrokerCancels, TypeInv, TypeOK, b
  <2>3. broker' \in [OrderIds -> BrokerOrder] /\ OrdersPlaced'
    BY <1>2, <2>1, <2>2 DEF TypeInv, TypeOK, OrdersPlaced, BrokerCancels, Working
  <2>4. queue' \in Seq(Update) /\ lost' \in 0 .. MaxLost
    BY <1>2, SendType, OrderQtyAssumption DEF BrokerCancels
  <2> QED BY <1>2, <2>3, <2>4 DEF BrokerCancels, TypeInv, TypeOK, JobsHeld, data, control
<1>3. CASE BrokerNotice(o)
  <2> DEFINE u == [order |-> o, sym |-> broker[o].sym, qty |-> 0, event |-> "other"]
  <2>1. u \in Update
    BY <1>3, OrderQtyAssumption DEF BrokerNotice, Update, TypeInv, OrdersPlaced, Working
  <2> HIDE DEF u
  <2>2. queue' = Append(queue, u)
    BY <1>3 DEF BrokerNotice, u
  <2>3. queue' \in Seq(Update)
    BY <2>1, <2>2 DEF TypeInv, TypeOK
  <2>4. notices' \in 0 .. MaxNotices
    <3>1. notices \in 0 .. MaxNotices /\ MaxNotices \in Nat
      BY BoundsAssumption DEF TypeInv, TypeOK
    <3> QED BY <1>3, <3>1 DEF BrokerNotice
  <2> QED BY <1>3, <2>3, <2>4
          DEF BrokerNotice, TypeInv, TypeOK, JobsHeld, OrdersPlaced, data, control
<1>4. CASE Age(o)
  BY <1>4 DEF Age, TypeInv, TypeOK, JobsHeld, OrdersPlaced, data, control, counters
<1> QED BY <1>1, <1>2, <1>3, <1>4

LEMMA TradeUpdateType ==
  ASSUME TypeInv, TradeUpdate
  PROVE  TypeInv'
<1>1. Receives
  BY DEF TradeUpdate, UpdateWithoutOrder, OrderEnds, UpdateFills
<1>2. queue # << >> /\ queue \in Seq(Update)
  BY <1>1 DEF Receives, TypeInv, TypeOK
<1>3. queue' \in Seq(Update) /\ Head(queue) \in Update
  BY <1>1, <1>2 DEF Receives
<1> DEFINE u == Head(queue)
<1>4. CASE UpdateWithoutOrder
  BY <1>3, <1>4 DEF UpdateWithoutOrder, TypeInv, TypeOK, JobsHeld, OrdersPlaced,
                    data, control, counters
<1>5. CASE OrderEnds
  <2>1. u.sym \in Symbols
    BY <1>3 DEF Update
  <2> QED BY <1>3, <1>5, <2>1
          DEF OrderEnds, TypeInv, TypeOK, JobsHeld, OrdersPlaced, control, counters
<1>6. CASE UpdateFills
  <2> DEFINE j == [order |-> u.order, sym |-> u.sym, qty |-> u.qty,
                   fill |-> u.event = "fill", after |-> "idle"]
  <2>1. j \in Job
    BY <1>3 DEF Update, Job
  <2>2. "qc" \in Handlers /\ BeginFill("qc", j)
    BY <1>6 DEF UpdateFills, Handlers
  <2> HIDE DEF j
  <2> QED BY <1>3, <1>6, <2>1, <2>2, BeginFillType
          DEF UpdateFills, TypeInv, TypeOK, OrdersPlaced, counters
<1> QED BY <1>4, <1>5, <1>6 DEF TradeUpdate

LEMMA LingeringType ==
  ASSUME TypeInv, Lingering
  PROVE  TypeInv'
<1>1. CASE LingeringWakes
  BY <1>1 DEF LingeringWakes, TypeInv, TypeOK, JobsHeld, OrdersPlaced, PC, Handlers,
              data, counters
<1>2. CASE LingeringNext
  <2>1. PICK item \in snapshot : /\ snapshot' = snapshot \ {item}
                                 /\ OrderInflight("clo", item[1], item[2], "scan")
    BY <1>2 DEF LingeringNext
  <2>2. item[1] \in Symbols /\ item[2] \in OrderIds /\ "clo" \in Handlers
    BY DEF TypeInv, TypeOK, Handlers
  <2> QED BY <1>2, <2>1, <2>2, OrderInflightType
          DEF LingeringNext, TypeInv, TypeOK, OrdersPlaced, counters
<1>3. CASE LingeringDone
  BY <1>3 DEF LingeringDone, TypeInv, TypeOK, JobsHeld, OrdersPlaced, PC, Handlers,
              data, counters
<1> QED BY <1>1, <1>2, <1>3 DEF Lingering

LEMMA BarType ==
  ASSUME TypeInv, Bar
  PROVE  TypeInv'
<1>1. ASSUME NEW s \in Symbols, HandleBar(s) PROVE TypeInv'
  <2>1. todo' \subseteq Symbols \X RunStrategies
    BY <1>1 DEF HandleBar
  <2>2. CASE open_orders[s] = None
    BY <1>1, <2>1, <2>2
    DEF HandleBar, TypeInv, TypeOK, JobsHeld, OrdersPlaced, PC, Handlers, counters
  <2>3. CASE open_orders[s] # None
    <3>1. open_orders[s] \in OrderIds /\ "qc" \in Handlers
      BY <2>3 DEF TypeInv, TypeOK, Handlers
    <3>2. OrderInflight("qc", s, open_orders[s], "strategies")
      BY <1>1, <2>3 DEF HandleBar
    <3> QED BY <1>1, <2>1, <3>1, <3>2, OrderInflightType
            DEF HandleBar, TypeInv, TypeOK, OrdersPlaced, counters
  <2> QED BY <2>2, <2>3
<1>2. CASE OrderRowSaved
  BY <1>2 DEF OrderRowSaved, TypeInv, TypeOK, JobsHeld, OrdersPlaced, PC, Handlers,
              data, counters
<1>3. CASE StrategiesDone
  BY <1>3 DEF StrategiesDone, TypeInv, TypeOK, JobsHeld, OrdersPlaced, PC, Handlers,
              data, counters
<1> QED BY <1>1, <1>2, <1>3 DEF Bar

LEMMA SubmissionType ==
  ASSUME TypeInv, Submission
  PROVE  TypeInv'
<1>1. ASSUME NEW s \in Symbols, NEW side \in {"buy", "sell"}, NEW st \in RunStrategies,
             StrategySubmits(s, st, side)
      PROVE  TypeInv'
  <2>1. PICK o \in OrderIds : SubmitOrder(o, s, st, side)
    BY <1>1 DEF StrategySubmits
  <2>2. st \in Strategies
    BY DEF Strategies
  <2>3. todo' \subseteq Symbols \X RunStrategies
    BY <1>1 DEF StrategySubmits, TypeInv, TypeOK
  <2>4. pc' \in [Handlers -> PC] /\ JobsHeld'
    BY <1>1 DEF StrategySubmits, TypeInv, TypeOK, JobsHeld, PC, Handlers
  <2>5. /\ broker' \in [OrderIds -> BrokerOrder]
        /\ OrdersPlaced'
        /\ open_orders' \in [Symbols -> OrderIds \cup {None}]
        /\ open_order_strategy' \in [Symbols -> Strategies \cup {None}]
    BY <2>1, <2>2, SubmitOrderType
  <2> QED BY <1>1, <2>3, <2>4, <2>5 DEF StrategySubmits, TypeInv, TypeOK, counters
<1>2. ASSUME NEW s \in Symbols, NEW side \in {"buy", "sell"}, NEW st \in RunAllStrategies,
             RunAllSubmits(st, s, side)
      PROVE  TypeInv'
  <2>1. PICK o \in OrderIds : SubmitOrder(o, s, st, side)
    BY <1>2 DEF RunAllSubmits
  <2>2. st \in Strategies
    BY DEF Strategies
  <2>3. runAllTodo' \in [RunAllStrategies -> SUBSET Symbols] /\ JobsHeld'
    BY <1>2 DEF RunAllSubmits, TypeInv, TypeOK, JobsHeld
  <2>4. /\ broker' \in [OrderIds -> BrokerOrder]
        /\ OrdersPlaced'
        /\ open_orders' \in [Symbols -> OrderIds \cup {None}]
        /\ open_order_strategy' \in [Symbols -> Strategies \cup {None}]
    BY <2>1, <2>2, SubmitOrderType
  <2> QED BY <1>2, <2>3, <2>4 DEF RunAllSubmits, TypeInv, TypeOK, counters
<1> QED BY <1>1, <1>2 DEF Submission

LEMMA PeriodicType ==
  ASSUME TypeInv, Periodic
  PROVE  TypeInv'
<1>1. runAllTodo' \in [RunAllStrategies -> SUBSET Symbols]
  BY DEF Periodic, RunAll, RunAllAborts, TypeInv, TypeOK
<1>2. UNCHANGED <<data, pc, job, todo, snapshot, queue, broker, aged, counters>>
  BY DEF Periodic, RunAll, RunAllAborts
<1> QED BY <1>1, <1>2 DEF TypeInv, TypeOK, JobsHeld, OrdersPlaced, data, counters

LEMMA RestartType ==
  ASSUME TypeInv, Restart
  PROVE  TypeInv'
<1>1. restarts' \in 0 .. MaxRestarts
  <2>1. restarts \in 0 .. MaxRestarts /\ MaxRestarts \in Nat
    BY BoundsAssumption DEF TypeInv, TypeOK
  <2> QED BY <2>1 DEF Restart
<1> QED BY <1>1 DEF Restart, TypeInv, TypeOK, JobsHeld, OrdersPlaced, PC

LEMMA TypeStep == TypeInv /\ [Next]_vars => TypeInv'
<1> SUFFICES ASSUME TypeInv, [Next]_vars PROVE TypeInv'
  OBVIOUS
<1>1. CASE \E h \in Handlers : Fill(h) \/ CancelOrder(h)
  BY <1>1, FillType, CancelOrderType
<1>2. CASE UNCHANGED vars
  BY <1>2 DEF vars, data, control, counters, TypeInv, TypeOK, JobsHeld, OrdersPlaced
<1> QED BY <1>1, <1>2, LingeringType, TradeUpdateType, BarType, SubmissionType,
           PeriodicType, BrokerType, RestartType DEF Next

\* Every variable keeps the type OrderTracking declares for it: no step counts
\* below zero, files an unknown order or leaves a handler in an unknown place.
THEOREM TypeCorrect == Spec => []TypeOK
<1>1. TypeInv => TypeOK
  BY DEF TypeInv
<1> QED BY <1>1, InitType, TypeStep, PTL DEF Spec

-----------------------------------------------------------------------------
(* An order and its strategy.                                               *)

\* An order stays placed, for the same symbol, strategy and side.
LEMMA PlacedForGood ==
  ASSUME TypeInv, [Next]_vars, NEW o \in Placed
  PROVE  o \in Placed' /\ Same(broker'[o], broker[o])
<1> DEFINE Kept == o \in Placed' /\ Same(broker'[o], broker[o])
<1> SUFFICES Kept
  OBVIOUS
<1>1. o \in OrderIds /\ broker \in [OrderIds -> BrokerOrder] /\ 0 \in 0 .. OrderQty
  BY OrderQtyAssumption DEF Placed, TypeInv, TypeOK
<1>2. CASE broker' = broker
  BY <1>2 DEF Placed, Same
<1>3. ASSUME NEW p \in OrderIds, NEW b, b.status # "unused", Same(b, broker[p]),
             broker' = [broker EXCEPT ![p] = b]
      PROVE  Kept
  BY <1>1, <1>3 DEF Placed, Same
<1>4. ASSUME NEW p \in OrderIds, NEW s \in Symbols, NEW st \in Strategies,
             NEW side \in {"buy", "sell"}, SubmitOrder(p, s, st, side)
      PROVE  Kept
  BY <1>1, <1>4 DEF Placed, SubmitOrder, Same
<1>5. CASE \E h \in Handlers : CancelOrder(h)
  <2>1. PICK h \in Handlers : CancelOrder(h)
    BY <1>5
  <2>2. job[h].order \in OrderIds
    BY <2>1 DEF CancelOrder, TypeInv, JobsHeld, Job
  <2> DEFINE b == [broker[job[h].order] EXCEPT !.status = "pending_cancel"]
  <2>3. b.status # "unused" /\ Same(b, broker[job[h].order])
    BY <1>1, <2>2, BrokerOrderEdit
  <2>4. broker' = broker \/ broker' = [broker EXCEPT ![job[h].order] = b]
    BY <2>1 DEF CancelOrder
  <2> HIDE DEF b
  <2> QED BY <1>2, <1>3, <2>2, <2>3, <2>4
<1>6. CASE Broker
  <2> SUFFICES ASSUME NEW p \in OrderIds,
                      \/ \E q \in 1 .. OrderQty : BrokerFills(p, q)
                      \/ BrokerCancels(p) \/ BrokerNotice(p) \/ Age(p)
               PROVE  Kept
    BY <1>6 DEF Broker
  <2>1. ASSUME NEW q \in 1 .. OrderQty, BrokerFills(p, q) PROVE Kept
    <3> DEFINE b == Executed(p, broker[p].filled + q)
    <3>1. broker[p].status # "unused" /\ broker' = [broker EXCEPT ![p] = b]
      BY <2>1 DEF BrokerFills, Working
    <3>2. b.status # "unused" /\ Same(b, broker[p])
      BY <1>1, <3>1 DEF Executed, Same, BrokerOrder
    <3> HIDE DEF b
    <3> QED BY <1>3, <3>1, <3>2
  <2>2. CASE BrokerCancels(p)
    <3> DEFINE b == [broker[p] EXCEPT !.status = "canceled"]
    <3>1. broker' = [broker EXCEPT ![p] = b]
      BY <2>2 DEF BrokerCancels
    <3>2. b.status # "unused" /\ Same(b, broker[p])
      BY <1>1, BrokerOrderEdit
    <3> HIDE DEF b
    <3> QED BY <1>3, <3>1, <3>2
  <2>3. CASE BrokerNotice(p) \/ Age(p)
    BY <1>2, <2>3 DEF BrokerNotice, Age
  <2> QED BY <2>1, <2>2, <2>3
<1>7. CASE Submission
  <2>1. PICK s \in Symbols, side \in {"buy", "sell"} :
          \/ \E st \in RunStrategies : StrategySubmits(s, st, side)
          \/ \E st \in RunAllStrategies : RunAllSubmits(st, s, side)
    BY <1>7 DEF Submission
  <2>2. \E st \in Strategies, p \in OrderIds : SubmitOrder(p, s, st, side)
    BY <2>1 DEF StrategySubmits, RunAllSubmits, Strategies
  <2> HIDE DEF Kept
  <2> QED BY <1>4, <2>2
<1>8. CASE \E h \in Handlers : Fill(h)
  BY <1>2, <1>8 DEF Fill, CallbackReturns, SaveTrade, SaveTradeFails
<1>9. CASE Lingering \/ TradeUpdate \/ Bar \/ Periodic \/ Restart \/ UNCHANGED vars
  BY <1>2, <1>9 DEF Lingering, LingeringWakes, LingeringNext, LingeringDone,
     TradeUpdate, UpdateWithoutOrder, OrderEnds, UpdateFills,
     Bar, HandleBar, OrderRowSaved, StrategiesDone,
     Periodic, RunAll, RunAllAborts, Restart, vars
<1> HIDE DEF Kept
<1> QED BY <1>5, <1>6, <1>7, <1>8, <1>9 DEF Next

\* A handler is busy after accounting for, or polling, an order only with that
\* order or with what it was busy with before.
LEMMA BusyAfterFill ==
  ASSUME TypeInv, NEW h \in Handlers, NEW j \in Job,
         BeginFill(h, j) \/ CountFill(h, j) \/ Return(h, j) \/ Suspend(h, "cancel", j)
  PROVE  \A g \in Handlers : pc'[g] \in Busy =>
           (g = h /\ job'[g] = j) \/ (pc'[g] = pc[g] /\ job'[g] = job[g])
BY DEF TypeInv, TypeOK, BeginFill, CountFill, Return, Suspend, Busy, Job

LEMMA BusyAfterInflight ==
  ASSUME TypeInv, NEW h \in Handlers, NEW s \in Symbols, NEW o \in OrderIds,
         NEW after \in {"scan", "strategies"}, OrderInflight(h, s, o, after)
  PROVE  \A g \in Handlers : pc'[g] \in Busy =>
           \/ g = h /\ job'[g].order = o /\ job'[g].sym = s
           \/ pc'[g] = pc[g] /\ job'[g] = job[g]
<1> DEFINE j == [order |-> o, sym |-> s, qty |-> broker[o].filled, fill |-> TRUE,
                 after |-> after]
<1>1. j \in Job /\ j.order = o /\ j.sym = s
  BY DEF TypeInv, TypeOK, BrokerOrder, Job
<1>2. BeginFill(h, j) \/ Return(h, j) \/ Suspend(h, "cancel", j)
  BY DEF OrderInflight
<1> HIDE DEF j
<1> QED BY <1>1, <1>2, BusyAfterFill

\* A step leaves both entries of a symbol alone, removes its order, or files an
\* order that was never placed before together with its strategy.
Untracked(s) == open_orders'[s] = None
StillTracked(s) ==
  open_orders'[s] = open_orders[s] /\ open_order_strategy'[s] = open_order_strategy[s]
NewlyTracked(s) ==
  \E o \in OrderIds, st \in Strategies :
    /\ o \notin Placed /\ o \in Placed'
    /\ open_orders'[s] = o /\ broker'[o].sym = s
    /\ open_order_strategy'[s] = st /\ broker'[o].by = st

LEMMA SubmitOrderTracks ==
  ASSUME TypeInv, NEW o \in OrderIds, NEW z \in Symbols, NEW st \in Strategies,
         NEW side \in {"buy", "sell"}, SubmitOrder(o, z, st, side), NEW s \in Symbols
  PROVE  StillTracked(s) \/ NewlyTracked(s)
<1>1. CASE s # z
  BY <1>1 DEF SubmitOrder, TypeInv, TypeOK, StillTracked
<1>2. CASE s = z
  <2>1. /\ open_orders'[s] = o /\ open_order_strategy'[s] = st
        /\ broker'[o].sym = s /\ broker'[o].by = st /\ broker'[o].status = "live"
        /\ broker[o].status = "unused"
    BY <1>2 DEF SubmitOrder, TypeInv, TypeOK
  <2> QED BY <2>1 DEF NewlyTracked, Placed
<1> QED BY <1>1, <1>2

LEMMA TrackingSteps ==
  ASSUME TypeInv, [Next]_vars, NEW s \in Symbols
  PROVE  Untracked(s) \/ StillTracked(s) \/ NewlyTracked(s)
<1>1. CASE UNCHANGED <<open_orders, open_order_strategy>>
  BY <1>1 DEF StillTracked
<1>2. CASE Submission
  <2>1. PICK z \in Symbols, side \in {"buy", "sell"} :
          \/ \E st \in RunStrategies : StrategySubmits(z, st, side)
          \/ \E st \in RunAllStrategies : RunAllSubmits(st, z, side)
    BY <1>2 DEF Submission
  <2>2. \E st \in Strategies, o \in OrderIds : SubmitOrder(o, z, st, side)
    BY <2>1 DEF StrategySubmits, RunAllSubmits, Strategies
  <2> QED BY <2>2, SubmitOrderTracks
<1>3. ASSUME NEW h \in Handlers, Fill(h) \/ CancelOrder(h)
      PROVE  Untracked(s) \/ StillTracked(s)
  <2>1. CASE CallbackReturns(h) \/ SaveTradeFails(h)
    BY <2>1 DEF CallbackReturns, SaveTradeFails, data, StillTracked
  <2>2. CASE SaveTrade(h) \/ CancelOrder(h)
    <3>1. job[h].sym \in Symbols
      BY <2>2 DEF SaveTrade, CancelOrder, TypeInv, JobsHeld, Job
    <3> QED BY <2>2, <3>1 DEF SaveTrade, CancelOrder, TypeInv, TypeOK,
            StillTracked, Untracked
  <2> QED BY <1>3, <2>1, <2>2 DEF Fill
<1>4. CASE OrderEnds
  <2>1. open_orders' = [open_orders EXCEPT ![Head(queue).sym] = None]
        /\ open_order_strategy' = [open_order_strategy EXCEPT ![Head(queue).sym] = None]
    BY <1>4 DEF OrderEnds
  <2> QED BY <2>1 DEF TypeInv, TypeOK, StillTracked, Untracked
<1>5. CASE Restart
  BY <1>5 DEF Restart, Untracked
<1>6. CASE Lingering \/ UpdateWithoutOrder \/ UpdateFills \/ Bar \/ Periodic \/ Broker
           \/ UNCHANGED vars
  <2>1. UNCHANGED <<open_orders, open_order_strategy>>
    BY <1>6 DEF Lingering, LingeringWakes, LingeringNext, LingeringDone,
       UpdateWithoutOrder, UpdateFills, Bar, HandleBar, OrderRowSaved, StrategiesDone,
       Periodic, RunAll, RunAllAborts, Broker, BrokerFills, BrokerCancels,
       BrokerNotice, Age, vars, data
  <2> QED BY <1>1, <2>1
<1> QED BY <1>2, <1>3, <1>4, <1>5, <1>6 DEF Next, TradeUpdate

LEMMA SendKnown ==
  ASSUME TypeInv, OrdersKnown, [Next]_vars, NEW o \in Placed, NEW event, NEW q,
         Send(o, event, q) \/ queue' = Append(queue, [order |-> o, sym |-> broker[o].sym,
                                                     qty |-> q, event |-> event])
  PROVE  \A i \in 1 .. Len(queue') : queue'[i].order \in Placed'
<1> DEFINE u == [order |-> o, sym |-> broker[o].sym, qty |-> q, event |-> event]
<1>1. u.order \in Placed'
  BY PlacedForGood
<1>2. queue' = queue \/ queue' = Append(queue, u)
  BY DEF Send
<1>3. \A i \in 1 .. Len(queue) : queue[i].order \in Placed'
  BY PlacedForGood DEF OrdersKnown
<1>4. queue \in Seq(Update)
  BY DEF TypeInv, TypeOK
<1> HIDE DEF u
<1>5. CASE queue' = queue
  BY <1>3, <1>5
<1>6. CASE queue' = Append(queue, u)
  BY <1>1, <1>3, <1>4, <1>6
<1> QED BY <1>2, <1>5, <1>6

LEMMA QueueKnown ==
  ASSUME TypeInv, OrdersKnown, [Next]_vars
  PROVE  \A i \in 1 .. Len(queue') : queue'[i].order \in Placed'
<1> DEFINE Known == \A i \in 1 .. Len(queue') : queue'[i].order \in Placed'
<1> SUFFICES Known
  OBVIOUS
<1>1. CASE queue' = queue
  BY <1>1, PlacedForGood DEF OrdersKnown
<1>2. CASE TradeUpdate
  <2>1. queue' = Tail(queue) /\ queue # << >> /\ queue \in Seq(Update)
    BY <1>2 DEF TradeUpdate, UpdateWithoutOrder, OrderEnds, UpdateFills, Receives,
                TypeInv, TypeOK
  <2>2. \A i \in 1 .. Len(queue) : queue[i].order \in Placed'
    BY PlacedForGood DEF OrdersKnown
  <2> QED BY <2>1, <2>2
<1>3. ASSUME NEW h \in Handlers, SaveTradeFails(h) PROVE Known
  <2>1. job[h].order \in Placed
    BY <1>3 DEF SaveTradeFails, OrdersKnown, Busy
  <2> DEFINE u == [order |-> job[h].order, sym |-> job[h].sym, qty |-> job[h].qty,
                   event |-> IF job[h].fill THEN "fill" ELSE "partial_fill"]
  <2>2. u.order \in Placed'
    BY <2>1, PlacedForGood
  <2>3. queue' = queue \/ queue' = Append(queue, u)
    BY <1>3 DEF SaveTradeFails
  <2>4. \A i \in 1 .. Len(queue) : queue[i].order \in Placed'
    BY PlacedForGood DEF OrdersKnown
  <2>5. queue \in Seq(Update)
    BY DEF TypeInv, TypeOK
  <2> HIDE DEF u
  <2> QED BY <2>2, <2>3, <2>4, <2>5
<1>4. CASE Broker
  <2>1. PICK o \in OrderIds : \/ \E q \in 1 .. OrderQty : BrokerFills(o, q)
                             \/ BrokerCancels(o) \/ BrokerNotice(o) \/ Age(o)
    BY <1>4 DEF Broker
  <2>2. CASE \E q \in 1 .. OrderQty : BrokerFills(o, q)
    <3>1. PICK q \in 1 .. OrderQty : BrokerFills(o, q)
      BY <2>2
    <3>2. o \in Placed /\ \E event : Send(o, event, q)
      BY <3>1 DEF BrokerFills, Working, Placed
    <3> QED BY <3>2, SendKnown
  <2>3. CASE BrokerCancels(o)
    <3>1. o \in Placed /\ Send(o, "canceled", 0)
      BY <2>3 DEF BrokerCancels, Working, Placed
    <3> QED BY <3>1, SendKnown
  <2>4. CASE BrokerNotice(o)
    <3>1. /\ o \in Placed
          /\ queue' = Append(queue, [order |-> o, sym |-> broker[o].sym, qty |-> 0,
                                     event |-> "other"])
      BY <2>4 DEF BrokerNotice, Working, Placed
    <3> QED BY <3>1, SendKnown
  <2>5. CASE Age(o)
    BY <1>1, <2>5 DEF Age
  <2> QED BY <2>1, <2>2, <2>3, <2>4, <2>5
<1>5. CASE Restart
  BY <1>5 DEF Restart
<1>6. CASE (\E h \in Handlers : CallbackReturns(h) \/ SaveTrade(h) \/ CancelOrder(h))
           \/ Lingering \/ Bar \/ Submission \/ Periodic \/ UNCHANGED vars
  <2>1. queue' = queue
    BY <1>6 DEF CallbackReturns, SaveTrade, CancelOrder, Lingering, LingeringWakes,
       LingeringNext, LingeringDone, Bar, HandleBar, OrderRowSaved, StrategiesDone,
       Submission, StrategySubmits, RunAllSubmits, Periodic, RunAll, RunAllAborts, vars
  <2> QED BY <1>1, <2>1
<1> HIDE DEF Known
<1> QED BY <1>2, <1>3, <1>4, <1>5, <1>6 DEF Next, Fill

LEMMA SnapshotKnown ==
  ASSUME TypeInv, OrdersKnown, [Next]_vars
  PROVE  \A item \in snapshot' : item[2] \in Placed'
<1>1. CASE snapshot' \subseteq snapshot
  BY <1>1, PlacedForGood DEF OrdersKnown
<1>2. CASE LingeringWakes
  <2>1. \A item \in snapshot' : item[2] \in Placed
    BY <1>2, NoneAssumption DEF LingeringWakes, OrdersKnown
  <2> QED BY <2>1, PlacedForGood
<1>3. CASE LingeringNext
  BY <1>1, <1>3 DEF LingeringNext
<1>4. CASE Restart
  BY <1>4 DEF Restart
<1>5. CASE \E h \in Handlers : Fill(h) \/ CancelOrder(h)
  BY <1>1, <1>5 DEF Fill, CallbackReturns, SaveTrade, SaveTradeFails, CancelOrder
<1>6. CASE LingeringDone \/ TradeUpdate \/ Bar \/ Submission \/ Periodic \/ Broker
           \/ UNCHANGED vars
  BY <1>1, <1>6 DEF LingeringDone, TradeUpdate, UpdateWithoutOrder, OrderEnds,
     UpdateFills, Bar, HandleBar, OrderRowSaved, StrategiesDone, Submission,
     StrategySubmits, RunAllSubmits, Periodic, RunAll, RunAllAborts, Broker,
     BrokerFills, BrokerCancels, BrokerNotice, Age, vars, control
<1> QED BY <1>2, <1>3, <1>4, <1>5, <1>6 DEF Next, Lingering

\* A busy handler works on an order it had already, or on a placed one.
LEMMA JobsKnown ==
  ASSUME TypeInv, OrdersKnown, [Next]_vars
  PROVE  \A g \in Handlers : pc'[g] \in Busy => job'[g].order \in Placed'
<1> DEFINE Known == \A g \in Handlers : pc'[g] \in Busy => job'[g].order \in Placed'
<1> SUFFICES Known
  OBVIOUS
<1>1. ASSUME NEW o \in Placed, NEW h \in Handlers,
             \A g \in Handlers : pc'[g] \in Busy =>
               \/ g = h /\ job'[g].order = o
               \/ pc'[g] = pc[g] /\ job'[g] = job[g]
      PROVE  Known
  BY <1>1, PlacedForGood DEF OrdersKnown
<1>2. ASSUME \A g \in Handlers : pc'[g] \in Busy => pc'[g] = pc[g] /\ job'[g] = job[g]
      PROVE  Known
  BY <1>2, PlacedForGood DEF OrdersKnown
<1> HIDE DEF Known
<1>3. CASE \E h \in Handlers : Fill(h) \/ CancelOrder(h)
  <2>1. PICK h \in Handlers : Fill(h) \/ CancelOrder(h)
    BY <1>3
  <2>2. job[h] \in Job /\ job[h].order \in Placed
    BY <2>1 DEF Fill, CallbackReturns, SaveTrade, SaveTradeFails, CancelOrder,
       TypeInv, JobsHeld, OrdersKnown, Busy
  <2>3. CountFill(h, job[h]) \/ Return(h, job[h])
    BY <2>1 DEF Fill, CallbackReturns, SaveTrade, SaveTradeFails, CancelOrder
  <2> QED BY <1>1, <2>2, <2>3, BusyAfterFill
<1>4. CASE UpdateFills
  <2> DEFINE u == Head(queue)
             j == [order |-> u.order, sym |-> u.sym, qty |-> u.qty,
                   fill |-> u.event = "fill", after |-> "idle"]
  <2>1. queue \in Seq(Update) /\ queue # << >>
    BY <1>4 DEF UpdateFills, Receives, TypeInv, TypeOK
  <2>2. u = queue[1] /\ 1 \in 1 .. Len(queue) /\ u \in Update
    BY <2>1
  <2>3. j \in Job /\ j.order \in Placed /\ "qc" \in Handlers
    BY <2>2 DEF Update, Job, OrdersKnown, Handlers
  <2>4. BeginFill("qc", j)
    BY <1>4 DEF UpdateFills
  <2> HIDE DEF j
  <2> QED BY <1>1, <2>3, <2>4, BusyAfterFill
<1>5. CASE LingeringNext
  <2>1. PICK item \in snapshot : OrderInflight("clo", item[1], item[2], "scan")
    BY <1>5 DEF LingeringNext
  <2>2. item[1] \in Symbols /\ item[2] \in OrderIds /\ item[2] \in Placed
        /\ "clo" \in Handlers
    BY DEF TypeInv, TypeOK, OrdersKnown, Handlers
  <2> QED BY <1>1, <2>1, <2>2, BusyAfterInflight
<1>6. CASE \E s \in Symbols : HandleBar(s)
  <2>1. PICK s \in Symbols : HandleBar(s)
    BY <1>6
  <2>2. CASE open_orders[s] = None
    BY <1>2, <2>1, <2>2 DEF HandleBar, TypeInv, TypeOK, Busy
  <2>3. CASE open_orders[s] # None
    <3>1. /\ OrderInflight("qc", s, open_orders[s], "strategies")
          /\ open_orders[s] \in OrderIds /\ open_orders[s] \in Placed
          /\ "qc" \in Handlers
      BY <2>1, <2>3 DEF HandleBar, TypeInv, TypeOK, OrdersKnown, Handlers
    <3> QED BY <1>1, <3>1, BusyAfterInflight
  <2> QED BY <2>2, <2>3
<1>7. CASE LingeringWakes \/ LingeringDone \/ OrderRowSaved \/ StrategiesDone
           \/ Submission \/ Restart
  BY <1>2, <1>7 DEF LingeringWakes, LingeringDone, OrderRowSaved, StrategiesDone,
     Submission, StrategySubmits, RunAllSubmits, Restart, TypeInv, TypeOK, Busy
<1>8. CASE UpdateWithoutOrder \/ OrderEnds \/ Periodic \/ Broker \/ UNCHANGED vars
  <2>1. UNCHANGED <<pc, job>>
    BY <1>8 DEF UpdateWithoutOrder, OrderEnds, Periodic, RunAll, RunAllAborts, Broker,
       BrokerFills, BrokerCancels, BrokerNotice, Age, vars, control
  <2> QED BY <1>2, <2>1
<1> QED BY <1>3, <1>4, <1>5, <1>6, <1>7, <1>8 DEF Next, Lingering, TradeUpdate, Bar

LEMMA TrackingInit == Init => TrackingInv
<1> SUFFICES ASSUME Init PROVE TrackingInv
  OBVIOUS
<1>1. OrdersKnown /\ TrackedWithItsStrategy
  BY DEF Init, OrdersKnown, TrackedWithItsStrategy, Busy
<1> QED BY <1>1, InitType DEF TrackingInv

LEMMA TrackingStep == TrackingInv /\ [Next]_vars => TrackingInv'
<1> SUFFICES ASSUME TrackingInv, [Next]_vars PROVE TrackingInv'
  OBVIOUS
<1> USE DEF TrackingInv
<1>1. TypeInv'
  BY TypeStep
<1>2. ASSUME NEW s \in Symbols, open_orders'[s] # None
      PROVE  /\ open_orders'[s] \in Placed'
             /\ open_order_strategy'[s] = broker'[open_orders'[s]].by
             /\ broker'[open_orders'[s]].sym = s
  <2>1. CASE StillTracked(s)
    <3>1. open_orders[s] \in Placed
      BY <1>2, <2>1 DEF StillTracked, OrdersKnown
    <3> QED BY <1>2, <2>1, <3>1, PlacedForGood
            DEF StillTracked, TrackedWithItsStrategy, Same
  <2>2. CASE NewlyTracked(s)
    BY <2>2 DEF NewlyTracked
  <2> QED BY <1>2, <2>1, <2>2, TrackingSteps DEF Untracked
<1>3. OrdersKnown'
  BY <1>2, QueueKnown, SnapshotKnown, JobsKnown DEF OrdersKnown
<1>4. TrackedWithItsStrategy'
  BY <1>2 DEF TrackedWithItsStrategy
<1> QED BY <1>1, <1>3, <1>4

\* Under every interleaving of trade updates, polls, bars and restarts, a
\* tracked order has its own strategy beside it in open_order_strategy.
THEOREM TrackedWithItsStrategyHolds == Spec => []TrackedWithItsStrategy
<1>1. TrackingInv => TrackedWithItsStrategy
  BY DEF TrackingInv
<1> QED BY <1>1, TrackingInit, TrackingStep, PTL DEF Spec

-----------------------------------------------------------------------------
(* Positions and the table new_trades.                                      *)

\* Handler h writes the same row, or none, after the step.
RowKept(h) ==
  /\ pc'[h] = "save" <=> pc[h] = "save"
  /\ pc[h] = "save" => job'[h] = job[h]

LEMMA InFlightKept ==
  ASSUME TrackingInv, [Next]_vars, NEW h \in Handlers, NEW s \in Symbols, RowKept(h)
  PROVE  InFlight(h, s)' = InFlight(h, s)
<1>1. CASE pc[h] = "save"
  <2>1. job[h].order \in Placed
    BY <1>1 DEF TrackingInv, OrdersKnown, Busy
  <2>2. broker'[job[h].order].side = broker[job[h].order].side
    BY <2>1, PlacedForGood DEF TrackingInv, Same
  <2> QED BY <1>1, <2>2 DEF RowKept, InFlight, Signed
<1>2. CASE pc[h] # "save"
  BY <1>2 DEF RowKept, InFlight
<1> QED BY <1>1, <1>2

LEMMA InFlightInt ==
  ASSUME TypeInv, NEW h \in Handlers, NEW s \in Symbols
  PROVE  InFlight(h, s) \in Int
<1>1. CASE pc[h] = "save"
  <2>1. job[h] \in Job
    BY <1>1 DEF TypeInv, JobsHeld
  <2>2. job[h].qty \in Int
    BY <2>1, OrderQtyAssumption DEF Job
  <2> QED BY <2>2 DEF InFlight, Signed
<1>2. CASE pc[h] # "save"
  BY <1>2 DEF InFlight
<1> QED BY <1>1, <1>2

\* What a position holds beyond the rows that are written or being written.
GapKept == \A s \in Symbols : Gap(s)' = Gap(s)

LEMMA GapInt == ASSUME TypeInv, NEW s \in Symbols PROVE Gap(s) \in Int
<1>1. InFlight("qc", s) \in Int /\ InFlight("clo", s) \in Int
  BY InFlightInt DEF Handlers
<1>2. positions[s] \in Int /\ recorded[s] \in Int
  BY DEF TypeInv, TypeOK
<1> QED BY <1>1, <1>2 DEF Gap

\* A step of no handler's row leaves the ledger as it is.
LEMMA LedgerKept ==
  ASSUME TrackingInv, [Next]_vars, \A h \in Handlers : RowKept(h),
         UNCHANGED <<positions, recorded>>
  PROVE  GapKept
<1> SUFFICES ASSUME NEW s \in Symbols PROVE Gap(s)' = Gap(s)
  BY DEF GapKept
<1>1. InFlight("qc", s)' = InFlight("qc", s) /\ InFlight("clo", s)' = InFlight("clo", s)
  BY InFlightKept DEF Handlers
<1> QED BY <1>1 DEF Gap

\* If one handler's row changes and the other's does not, the gap follows the
\* position, the table and that row.
LEMMA GapMoves ==
  ASSUME TrackingInv, [Next]_vars, NEW h \in Handlers, NEW s \in Symbols,
         \A g \in Handlers \ {h} : RowKept(g),
         positions'[s] \in Int, recorded'[s] \in Int, InFlight(h, s)' \in Int
  PROVE  Gap(s)' = Gap(s) + (positions'[s] - positions[s]) - (recorded'[s] - recorded[s])
                          - (InFlight(h, s)' - InFlight(h, s))
<1>1. PICK g \in Handlers : (g = "qc" /\ h = "clo") \/ (g = "clo" /\ h = "qc")
  BY DEF Handlers
<1>2. InFlight(g, s)' = InFlight(g, s)
  BY <1>1, InFlightKept
<1>3. InFlight(g, s) \in Int /\ InFlight(h, s) \in Int
  BY <1>1, InFlightInt DEF TrackingInv
<1>4. positions[s] \in Int /\ recorded[s] \in Int
  BY DEF TrackingInv, TypeInv, TypeOK
<1>5. Gap(s) = positions[s] - recorded[s] - InFlight(g, s) - InFlight(h, s)
  BY <1>1, <1>3, <1>4 DEF Gap
<1>6. Gap(s)' = positions'[s] - recorded'[s] - InFlight(g, s)' - InFlight(h, s)'
  BY <1>1, <1>2, <1>3 DEF Gap
<1> QED BY <1>2, <1>3, <1>4, <1>5, <1>6

\* Accounting for a fill moves the position and puts the row in flight.
LEMMA LedgerFill ==
  ASSUME TrackingInv, [Next]_vars, ~CallbackSuspends,
         NEW h \in Handlers, NEW j \in Job, pc[h] # "save", BeginFill(h, j),
         UNCHANGED <<recorded, broker>>
  PROVE  GapKept
<1>1. ASSUME NEW g \in Handlers \ {h} PROVE RowKept(g)
  BY DEF BeginFill, CountFill, Return, Suspend, RowKept, TrackingInv, TypeInv, TypeOK
<1>2. CASE Return(h, j) /\ UNCHANGED <<positions, counted>>
  <2>1. RowKept(h)
    BY <1>2 DEF Return, RowKept, TrackingInv, TypeInv, TypeOK, Job
  <2> QED BY <1>1, <1>2, <2>1, LedgerKept
<1>3. CASE /\ positions' = [positions EXCEPT ![j.sym] = @ + Signed(j.order, j.qty)]
           /\ Suspend(h, "save", j)
  <2> SUFFICES ASSUME NEW s \in Symbols PROVE Gap(s)' = Gap(s)
    BY DEF GapKept
  <2>1. InFlight(h, s) = 0
    BY DEF InFlight
  <2>2. InFlight(h, s)' = IF j.sym = s THEN Signed(j.order, j.qty) ELSE 0
    BY <1>3 DEF InFlight, Suspend, Signed, TrackingInv, TypeInv, TypeOK
  <2>3. positions'[s] = positions[s] + InFlight(h, s)'
    <3>1. positions \in [Symbols -> Int]
      BY DEF TrackingInv, TypeInv, TypeOK
    <3>2. CASE j.sym = s
      BY <1>3, <2>2, <3>1, <3>2
    <3>3. CASE j.sym # s
      BY <1>3, <2>2, <3>1, <3>3
    <3> QED BY <3>2, <3>3
  <2>4. InFlight(h, s)' \in Int /\ recorded[s] \in Int /\ positions[s] \in Int
    <3>1. Signed(j.order, j.qty) \in Int
      BY OrderQtyAssumption DEF Signed, Job
    <3>2. recorded[s] \in Int /\ positions[s] \in Int
      BY DEF TrackingInv, TypeInv, TypeOK
    <3> QED BY <2>2, <3>1, <3>2
  <2>5. Gap(s) \in Int
    BY GapInt DEF TrackingInv
  <2>6. Gap(s)' = Gap(s) + (positions'[s] - positions[s]) - (recorded'[s] - recorded[s])
                         - (InFlight(h, s)' - InFlight(h, s))
    BY <1>1, <2>3, <2>4, GapMoves
  <2> QED BY <2>1, <2>3, <2>4, <2>5, <2>6
<1>4. open_order_strategy[j.sym] = None => Return(h, j) /\ UNCHANGED <<positions, counted>>
  BY DEF BeginFill
<1>5. open_order_strategy[j.sym] # None =>
        /\ positions' = [positions EXCEPT ![j.sym] = @ + Signed(j.order, j.qty)]
        /\ Suspend(h, "save", j)
  BY DEF BeginFill, CountFill
<1> QED BY <1>2, <1>3, <1>4, <1>5

LEMMA LedgerInflight ==
  ASSUME TrackingInv, [Next]_vars, ~CallbackSuspends,
         NEW h \in Handlers, NEW s \in Symbols, NEW o \in OrderIds,
         NEW after \in {"scan", "strategies"}, pc[h] # "save",
         OrderInflight(h, s, o, after), UNCHANGED <<recorded, broker>>
  PROVE  GapKept
<1> DEFINE j == [order |-> o, sym |-> s, qty |-> broker[o].filled, fill |-> TRUE,
                 after |-> after]
<1>1. j \in Job
  BY DEF TrackingInv, TypeInv, TypeOK, BrokerOrder, Job
<1>2. \/ BeginFill(h, j)
      \/ (Return(h, j) \/ Suspend(h, "cancel", j)) /\ UNCHANGED <<positions, counted>>
  BY DEF OrderInflight
<1> HIDE DEF j
<1>3. CASE (Return(h, j) \/ Suspend(h, "cancel", j)) /\ UNCHANGED <<positions, counted>>
  <2>1. \A g \in Handlers : RowKept(g)
    BY <1>1, <1>3 DEF Return, Suspend, RowKept, TrackingInv, TypeInv, TypeOK, Job
  <2> QED BY <1>3, <2>1, LedgerKept
<1> QED BY <1>1, <1>2, <1>3, LedgerFill

\* The row a handler leaves behind, written or given up, is one of an order.
LEMMA RowEnds ==
  ASSUME TrackingInv, NEW h \in Handlers, pc[h] = "save", Return(h, job[h]), NEW s \in Symbols
  PROVE  /\ job[h] \in Job
         /\ \A g \in Handlers \ {h} : RowKept(g)
         /\ InFlight(h, s)' = 0
         /\ InFlight(h, s) = IF job[h].sym = s THEN Signed(job[h].order, job[h].qty) ELSE 0
         /\ InFlight(h, s) \in -OrderQty .. OrderQty
<1>1. job[h] \in Job
  BY DEF TrackingInv, TypeInv, JobsHeld
<1>2. \A g \in Handlers \ {h} : RowKept(g)
  BY DEF Return, RowKept, TrackingInv, TypeInv, TypeOK
<1>3. InFlight(h, s)' = 0
  <2>1. pc'[h] # "save"
    BY <1>1 DEF Return, TrackingInv, TypeInv, TypeOK, Job
  <2> QED BY <2>1 DEF InFlight
<1>4. InFlight(h, s) = IF job[h].sym = s THEN Signed(job[h].order, job[h].qty) ELSE 0
  BY DEF InFlight
<1>5. OrderQty \in Nat /\ job[h].qty \in 0 .. OrderQty
  BY <1>1, OrderQtyAssumption DEF Job
<1>6. InFlight(h, s) \in -OrderQty .. OrderQty
  BY <1>4, <1>5 DEF Signed
<1> QED BY <1>1, <1>2, <1>3, <1>4, <1>6

LEMMA LedgerSave ==
  ASSUME TrackingInv, [Next]_vars, NEW h \in Handlers, SaveTrade(h)
  PROVE  GapKept
<1> SUFFICES ASSUME NEW s \in Symbols PROVE Gap(s)' = Gap(s)
  BY DEF GapKept
<1> DEFINE j == job[h]
<1>1. /\ Return(h, j) /\ pc[h] = "save" /\ positions' = positions
      /\ recorded' = [recorded EXCEPT ![j.sym] = @ + Signed(j.order, j.qty)]
  BY DEF SaveTrade
<1>2. /\ \A g \in Handlers \ {h} : RowKept(g)
      /\ InFlight(h, s)' = 0
      /\ InFlight(h, s) = IF j.sym = s THEN Signed(j.order, j.qty) ELSE 0
      /\ j \in Job
  BY <1>1, RowEnds
<1>3. /\ InFlight(h, s) \in Int /\ recorded[s] \in Int /\ positions[s] \in Int
      /\ recorded \in [Symbols -> Int] /\ Gap(s) \in Int
  BY InFlightInt, GapInt DEF TrackingInv, TypeInv, TypeOK
<1>4. recorded'[s] = recorded[s] + InFlight(h, s)
  <2>1. CASE j.sym = s
    BY <1>1, <1>2, <1>3, <2>1
  <2>2. CASE j.sym # s
    BY <1>1, <1>2, <1>3, <2>2
  <2> QED BY <2>1, <2>2
<1> HIDE DEF j
<1>5. Gap(s)' = Gap(s) + (positions'[s] - positions[s]) - (recorded'[s] - recorded[s])
                       - (InFlight(h, s)' - InFlight(h, s))
  BY <1>1, <1>2, <1>3, <1>4, GapMoves
<1> QED BY <1>1, <1>2, <1>3, <1>4, <1>5

\* A failed write gives up the row of one fill, at most an order's quantity.
LEMMA LedgerSaveFails ==
  ASSUME TrackingInv, [Next]_vars, NEW h \in Handlers, SaveTradeFails(h), NEW s \in Symbols
  PROVE  Gap(s)' \in Int /\ Gap(s)' - Gap(s) \in -OrderQty .. OrderQty
<1>1. Return(h, job[h]) /\ pc[h] = "save" /\ positions' = positions /\ recorded' = recorded
  BY DEF SaveTradeFails, data
<1>2. /\ \A g \in Handlers \ {h} : RowKept(g)
      /\ InFlight(h, s)' = 0
      /\ InFlight(h, s) \in -OrderQty .. OrderQty
  BY <1>1, RowEnds
<1>3. /\ positions[s] \in Int /\ recorded[s] \in Int /\ Gap(s) \in Int /\ OrderQty \in Nat
  BY GapInt, OrderQtyAssumption DEF TrackingInv, TypeInv, TypeOK
<1>4. Gap(s)' = Gap(s) + (positions'[s] - positions[s]) - (recorded'[s] - recorded[s])
                       - (InFlight(h, s)' - InFlight(h, s))
  BY <1>1, <1>2, <1>3, GapMoves
<1> QED BY <1>1, <1>2, <1>3, <1>4

LEMMA LedgerInit == Init => LedgerInv
<1> SUFFICES ASSUME Init PROVE LedgerInv
  OBVIOUS
<1>1. ASSUME NEW s \in Symbols PROVE Gap(s) = 0
  BY DEF Init, Gap, InFlight, Handlers
<1>2. saveFailures * OrderQty = 0
  BY OrderQtyAssumption DEF Init
<1> QED BY <1>1, <1>2, TrackingInit DEF LedgerInv, LedgerAgrees

\* The room for the gap grows by an order's quantity with each failed write.
LEMMA RoomGrows ==
  ASSUME NEW n \in Nat, NEW q \in Nat
  PROVE  n * q \in Nat /\ (n + 1) * q = n * q + q
OBVIOUS

LEMMA LedgerStep == LedgerInv /\ [Next]_vars => LedgerInv'
<1> SUFFICES ASSUME TrackingInv, LedgerAgrees, [Next]_vars, ~CallbackSuspends,
                    NEW s \in Symbols
             PROVE  Gap(s)' \in -(saveFailures' * OrderQty) .. saveFailures' * OrderQty
  BY TrackingStep DEF LedgerInv, LedgerAgrees
<1>0. /\ saveFailures \in Nat /\ OrderQty \in Nat /\ Gap(s) \in Int
      /\ Gap(s) \in -(saveFailures * OrderQty) .. saveFailures * OrderQty
      /\ saveFailures * OrderQty \in Nat
  BY BoundsAssumption, OrderQtyAssumption, GapInt, RoomGrows
     DEF TrackingInv, TypeInv, TypeOK, LedgerAgrees
<1>1. CASE \E h \in Handlers : SaveTradeFails(h)
  <2>1. saveFailures' = saveFailures + 1
    BY <1>1 DEF SaveTradeFails
  <2>2. Gap(s)' \in Int /\ Gap(s)' - Gap(s) \in -OrderQty .. OrderQty
    BY <1>1, LedgerSaveFails
  <2>3. saveFailures' * OrderQty = saveFailures * OrderQty + OrderQty
    BY <1>0, <2>1, RoomGrows
  <2> DEFINE room == saveFailures * OrderQty
  <2> HIDE DEF room
  <2>4. room \in Nat /\ Gap(s) \in -room .. room /\ saveFailures' * OrderQty = room + OrderQty
    BY <1>0, <2>3 DEF room
  <2> QED BY <1>0, <2>2, <2>4
<1>2. CASE Restart
  <2>1. positions'[s] = recorded'[s] /\ InFlight("qc", s)' = 0 /\ InFlight("clo", s)' = 0
        /\ recorded'[s] \in Int
    BY <1>2 DEF Restart, InFlight, Handlers, TrackingInv, TypeInv, TypeOK
  <2>2. Gap(s)' = 0 /\ saveFailures' = saveFailures
    BY <1>2, <2>1 DEF Gap, Restart
  <2> QED BY <1>0, <2>2
<1>3. CASE ~Restart /\ ~(\E h \in Handlers : SaveTradeFails(h))
  <2>1. saveFailures' = saveFailures
    BY <1>3 DEF Next, Fill, CallbackReturns, SaveTrade, CancelOrder, Lingering,
       LingeringWakes, LingeringNext, LingeringDone, TradeUpdate, UpdateWithoutOrder,
       OrderEnds, UpdateFills, Bar, HandleBar, OrderRowSaved, StrategiesDone, Submission,
       StrategySubmits, RunAllSubmits, Periodic, RunAll, RunAllAborts, Broker,
       BrokerFills, BrokerCancels, BrokerNotice, Age, vars, counters
  <2> SUFFICES GapKept
    BY <1>0, <2>1 DEF GapKept
  <2>3. CASE \E h \in Handlers : CallbackReturns(h)
    BY <2>3 DEF CallbackReturns, TrackingInv, TypeInv, JobsHeld
  <2>4. CASE \E h \in Handlers : SaveTrade(h)
    BY <2>4, LedgerSave
  <2>5. CASE \E h \in Handlers : CancelOrder(h)
    <3>1. PICK h \in Handlers : CancelOrder(h)
      BY <2>5
    <3>2. job[h] \in Job /\ Return(h, job[h]) /\ UNCHANGED <<positions, recorded>>
      BY <3>1 DEF CancelOrder, TrackingInv, TypeInv, JobsHeld
    <3>3. \A g \in Handlers : RowKept(g)
      BY <3>1, <3>2 DEF CancelOrder, Return, RowKept, TrackingInv, TypeInv, TypeOK, Job
    <3> QED BY <3>2, <3>3, LedgerKept
  <2>6. CASE UpdateFills
    <3> DEFINE u == Head(queue)
               j == [order |-> u.order, sym |-> u.sym, qty |-> u.qty,
                     fill |-> u.event = "fill", after |-> "idle"]
    <3>1. queue \in Seq(Update) /\ queue # << >>
      BY <2>6 DEF UpdateFills, Receives, TrackingInv, TypeInv, TypeOK
    <3>2. u \in Update
      BY <3>1
    <3>3. j \in Job /\ "qc" \in Handlers
      BY <3>2 DEF Update, Job, Handlers
    <3>4. /\ BeginFill("qc", j) /\ pc["qc"] # "save" /\ UNCHANGED <<recorded, broker>>
      BY <2>6 DEF UpdateFills, Receives
    <3> HIDE DEF j
    <3> QED BY <3>3, <3>4, LedgerFill
  <2>7. CASE LingeringNext
    <3>1. PICK item \in snapshot : OrderInflight("clo", item[1], item[2], "scan")
      BY <2>7 DEF LingeringNext
    <3>2. /\ item[1] \in Symbols /\ item[2] \in OrderIds /\ "clo" \in Handlers
          /\ pc["clo"] # "save" /\ UNCHANGED <<recorded, broker>>
      BY <2>7 DEF LingeringNext, TrackingInv, TypeInv, TypeOK, Handlers
    <3> QED BY <3>1, <3>2, LedgerInflight
  <2>8. CASE \E r \in Symbols : HandleBar(r) /\ open_orders[r] # None
    <3>1. PICK r \in Symbols : HandleBar(r) /\ open_orders[r] # None
      BY <2>8
    <3>2. /\ OrderInflight("qc", r, open_orders[r], "strategies")
          /\ open_orders[r] \in OrderIds /\ "qc" \in Handlers
          /\ pc["qc"] # "save" /\ UNCHANGED <<recorded, broker>>
      BY <3>1 DEF HandleBar, TrackingInv, TypeInv, TypeOK, Handlers
    <3> QED BY <3>2, LedgerInflight
  <2>9. CASE \/ \E r \in Symbols : HandleBar(r) /\ open_orders[r] = None
             \/ LingeringWakes \/ LingeringDone \/ OrderRowSaved \/ StrategiesDone
             \/ Submission
    <3>1. (\A g \in Handlers : RowKept(g)) /\ UNCHANGED <<positions, recorded>>
      BY <2>9 DEF HandleBar, LingeringWakes, LingeringDone, OrderRowSaved,
         StrategiesDone, Submission, StrategySubmits, RunAllSubmits, data, RowKept,
         TrackingInv, TypeInv, TypeOK
    <3> QED BY <3>1, LedgerKept
  <2>10. CASE UpdateWithoutOrder \/ OrderEnds \/ Periodic \/ Broker \/ UNCHANGED vars
    <3>1. UNCHANGED <<pc, job, positions, recorded>>
      BY <2>10 DEF UpdateWithoutOrder, OrderEnds, Periodic, RunAll, RunAllAborts, Broker,
         BrokerFills, BrokerCancels, BrokerNotice, Age, vars, data, control
    <3>2. \A g \in Handlers : RowKept(g)
      BY <3>1 DEF RowKept
    <3> QED BY <3>1, <3>2, LedgerKept
  <2> QED BY <1>3, <2>3, <2>4, <2>5, <2>6, <2>7, <2>8, <2>9, <2>10
          DEF Next, Fill, Lingering, TradeUpdate, Bar
<1> QED BY <1>1, <1>2, <1>3

\* new_trades holds every fill the positions hold, but for rows being written
\* and one fill for each write that failed: no interleaving of trade updates,
\* polls, bars and restarts makes the two drift further apart while callbacks do
\* not suspend.
THEOREM LedgerAgreesHolds == Spec => []LedgerAgrees
<1>1. LedgerInv => LedgerAgrees
  BY DEF LedgerInv
<1> QED BY <1>1, LedgerInit, LedgerStep, PTL DEF Spec

-----------------------------------------------------------------------------
(* The order book, of a consumer that learns of its orders from the poll.    *)

\* The poll is the only source of news, one strategy asks for orders, and looks
\* at open_orders before it does; no write fails and nothing restarts.
PollAlone ==
  /\ Sources = {"lingering"} /\ Disciplined
  /\ \A a, b \in RunAllStrategies : a = b
  /\ MaxSaveFailures = 0 /\ MaxRestarts = 0

Closing == {o \in OrderIds :
              broker[o].status \in {"pending_cancel", "filled", "canceled"}}
Followed == {o \in OrderIds : \E s \in Symbols : open_orders[s] = o}
Quantities == [o \in OrderIds |-> broker[o].filled]

\* queue_consumer has nothing to do.
Quiet == pc["qc"] = "idle" /\ queue = << >>

\* An order is filled when all of it is executed, and it is counted whole.
OrdersWhole ==
  \A o \in OrderIds :
    /\ broker[o].status = "filled" <=> broker[o].filled = OrderQty
    /\ broker[o].status = "unused" => broker[o].filled = 0
    /\ broker[o].status # "unused" => broker[o].by \in Strategies
    /\ counted[o] = 0 \/ (counted[o] = OrderQty /\ broker[o].status = "filled")

\* An order that was counted is followed only while its row is written.
CountedIsDone ==
  \A o \in OrderIds : counted[o] # 0 =>
    \/ o \notin Followed
    \/ pc["clo"] = "save" /\ job["clo"].order = o

\* The copy that is polled is not stale, and the order that is worked on is the
\* one of its symbol still.
PollCurrent ==
  /\ \A item \in snapshot : open_orders[item[1]] = item[2]
  /\ pc["clo"] \in Busy =>
       /\ open_orders[job["clo"].sym] = job["clo"].order
       /\ job["clo"].fill
       /\ \A item \in snapshot : item[1] # job["clo"].sym
  /\ pc["clo"] \in {"callback", "save"} =>
       broker[job["clo"].order].status = "filled" /\ job["clo"].qty = OrderQty

\* run_all() chose among symbols without an order, and still there is none.
ChosenAreFree ==
  \A st \in RunAllStrategies : \A s \in runAllTodo[st] : open_orders[s] = None

BookInv ==
  /\ TrackingInv
  /\ Quiet /\ OrdersWhole /\ CountedIsDone /\ PollCurrent /\ ChosenAreFree

\* What a step does to the book.
Stutters == UNCHANGED <<Placed, Closing, Followed, Quantities, counted>>
BookStep == Book!BookNext \/ Stutters

\* The parts of BookInv that are not TrackingInv.
BookParts == Quiet /\ OrdersWhole /\ CountedIsDone /\ PollCurrent /\ ChosenAreFree

LEMMA BookInitially == Init => BookInv /\ Book!BookInit
<1> SUFFICES ASSUME Init PROVE BookInv /\ Book!BookInit
  OBVIOUS
<1>1. TrackingInv
  BY TrackingInit
<1>2. BookParts
  BY OrderQtyAssumption, NoneAssumption
  DEF Init, BookParts, Quiet, OrdersWhole, CountedIsDone, PollCurrent, ChosenAreFree,
      Handlers, Busy
<1>3. Book!BookInit
  BY NoneAssumption DEF Init, Book!BookInit
<1> QED  BY <1>1, <1>2, <1>3 DEF BookInv, BookParts

\* An order is followed for its symbol alone.
LEMMA FollowedForOneSymbol ==
  ASSUME TrackingInv, NEW s \in Symbols, NEW z \in Symbols,
         open_orders[s] = open_orders[z], open_orders[s] # None
  PROVE  s = z
  BY DEF TrackingInv, TrackedWithItsStrategy

\* The order the poll works on is a real one, with a strategy.
LEMMA WorkedOnHasStrategy ==
  ASSUME BookInv, NEW s \in Symbols, open_orders[s] # None
  PROVE  /\ open_orders[s] \in OrderIds /\ open_orders[s] \in Placed
         /\ open_order_strategy[s] # None
<1>1. open_orders[s] \in OrderIds /\ open_orders[s] \in Placed
  BY DEF BookInv, TrackingInv, TypeInv, TypeOK, OrdersKnown
<1>2. open_order_strategy[s] = broker[open_orders[s]].by
  BY DEF BookInv, TrackingInv, TrackedWithItsStrategy
<1>3. broker[open_orders[s]].by \in Strategies
  BY <1>1 DEF BookInv, OrdersWhole, Placed
<1> QED  BY <1>1, <1>2, <1>3, NoneAssumption

\* An order that is counted has not been, and all of it was executed.
LEMMA CountsWhole ==
  ASSUME BookInv, NEW j \in Job, CountFill("clo", j),
         pc["clo"] # "save", open_orders[j.sym] = j.order, j.fill,
         broker[j.order].status = "filled", j.qty = OrderQty,
         \A item \in snapshot' : item[1] # j.sym /\ item \in snapshot,
         UNCHANGED <<open_orders, open_order_strategy, broker, queue, runAllTodo>>
  PROVE  BookParts' /\ BookStep
<1>1. j.sym \in Symbols /\ j.order \in OrderIds /\ j.order # None
      /\ open_order_strategy[j.sym] # None /\ "clo" \in Handlers /\ "qc" \in Handlers
  BY WorkedOnHasStrategy, NoneAssumption DEF Job, Handlers
<1>2. Suspend("clo", "save", j) /\ counted' = [counted EXCEPT ![j.order] = @ + j.qty]
  BY <1>1 DEF CountFill
<1>3. j.order \in Followed
  BY <1>1 DEF Followed
<1>4. counted[j.order] = 0
  BY <1>1, <1>3 DEF BookInv, CountedIsDone
<1>5. counted' = [counted EXCEPT ![j.order] = OrderQty] /\ OrderQty \in Nat \ {0}
  BY <1>1, <1>2, <1>4, OrderQtyAssumption DEF BookInv, TrackingInv, TypeInv, TypeOK
<1>6. /\ pc'["clo"] = "save" /\ job'["clo"] = j /\ pc'["qc"] = pc["qc"]
  BY <1>1, <1>2 DEF Suspend, BookInv, TrackingInv, TypeInv, TypeOK
<1>7. \A o \in OrderIds : o # j.order => counted'[o] = counted[o]
  BY <1>5 DEF BookInv, TrackingInv, TypeInv, TypeOK
<1>8. counted'[j.order] = OrderQty
  BY <1>1, <1>5 DEF BookInv, TrackingInv, TypeInv, TypeOK
<1>9. Quiet' /\ ChosenAreFree'
  BY <1>6 DEF BookInv, Quiet, ChosenAreFree
<1>10. OrdersWhole'
  BY <1>7, <1>8 DEF BookInv, OrdersWhole
<1>11. CountedIsDone'
  <2> SUFFICES ASSUME NEW o \in OrderIds, counted'[o] # 0
               PROVE  o \notin Followed' \/ job'["clo"].order = o
    BY <1>6 DEF CountedIsDone
  <2>1. CASE o = j.order
    BY <1>6, <2>1
  <2>2. CASE o # j.order
    BY <1>7, <2>2 DEF BookInv, CountedIsDone, Followed
  <2> QED  BY <2>1, <2>2
<1>12. PollCurrent'
  BY <1>6 DEF BookInv, PollCurrent, Busy
<1>13. Book!Account(j.order)
  <2>1. broker[j.order].filled = OrderQty
    BY <1>1 DEF BookInv, OrdersWhole
  <2>2. OrderQty \in counted[j.order] + 1 .. OrderQty
    BY <1>4, <1>5
  <2>3. Quantities[j.order] = OrderQty
    BY <1>1, <2>1 DEF Quantities
  <2> QED  BY <1>5, <2>2, <2>3 DEF Book!Account, Quantities
<1> QED  BY <1>1, <1>9, <1>10, <1>11, <1>12, <1>13 DEF BookParts, BookStep, Book!BookNext

\* The poll looks at one order of its copy.
LEMMA PollStep ==
  ASSUME BookInv, LingeringNext
  PROVE  BookParts' /\ BookStep
<1>1. PICK item \in snapshot :
        /\ snapshot' = snapshot \ {item}
        /\ OrderInflight("clo", item[1], item[2], "scan")
  BY DEF LingeringNext
<1> DEFINE j == [order |-> item[2], sym |-> item[1], qty |-> broker[item[2]].filled,
                 fill |-> TRUE, after |-> "scan"]
<1>2. /\ item[1] \in Symbols /\ item[2] \in OrderIds /\ item = <<item[1], item[2]>>
      /\ open_orders[item[1]] = item[2]
  BY <1>1 DEF BookInv, TrackingInv, TypeInv, TypeOK, PollCurrent
<1>3. j \in Job
  BY <1>2 DEF Job, BookInv, TrackingInv, TypeInv, TypeOK, BrokerOrder
<1>4. \A other \in snapshot' : other[1] # item[1] /\ other \in snapshot
  <2> SUFFICES ASSUME NEW other \in snapshot, other # item, other[1] = item[1]
               PROVE  FALSE
    BY <1>1
  <2>1. other = <<other[1], other[2]>> /\ open_orders[other[1]] = other[2]
    BY DEF BookInv, TrackingInv, TypeInv, TypeOK, PollCurrent
  <2> QED  BY <1>2, <2>1
<1>5. UNCHANGED <<open_orders, open_order_strategy, broker, queue, runAllTodo>>
      /\ pc["clo"] = "scan" /\ "clo" \in Handlers /\ "qc" \in Handlers
  BY DEF LingeringNext, Handlers
<1>6. j.order = item[2] /\ j.sym = item[1] /\ j.qty = broker[item[2]].filled
      /\ j.fill /\ j.after = "scan"
  OBVIOUS
<1> HIDE DEF j
<1>7. CASE Return("clo", j) /\ UNCHANGED <<positions, counted>>
  <2>1. pc'["clo"] = "scan" /\ pc'["qc"] = pc["qc"]
    BY <1>5, <1>6, <1>7 DEF Return, BookInv, TrackingInv, TypeInv, TypeOK
  <2>2. BookParts'
    BY <1>4, <1>5, <1>7, <2>1
    DEF BookInv, BookParts, Quiet, OrdersWhole, CountedIsDone, PollCurrent,
        ChosenAreFree, Followed, Busy
  <2> QED  BY <1>5, <1>7, <2>2
           DEF BookStep, Stutters, Placed, Closing, Followed, Quantities
<1>8. CASE broker[item[2]].status = "filled" /\ BeginFill("clo", j)
  <2>1. j.qty = OrderQty /\ open_order_strategy[item[1]] # None
    BY <1>2, <1>6, <1>8, WorkedOnHasStrategy, NoneAssumption DEF BookInv, OrdersWhole
  <2>2. CASE CountFill("clo", j)
    BY <1>2, <1>3, <1>4, <1>5, <1>6, <1>8, <2>1, <2>2, CountsWhole
  <2>3. CASE Suspend("clo", "callback", j) /\ UNCHANGED <<positions, counted>>
    <3>1. pc'["clo"] = "callback" /\ job'["clo"] = j /\ pc'["qc"] = pc["qc"]
      BY <1>5, <2>3 DEF Suspend, BookInv, TrackingInv, TypeInv, TypeOK
    <3>2. Quiet' /\ OrdersWhole' /\ ChosenAreFree'
      BY <1>5, <2>3, <3>1 DEF BookInv, Quiet, OrdersWhole, ChosenAreFree
    <3>3. CountedIsDone'
      BY <1>5, <2>3, <3>1 DEF BookInv, CountedIsDone, Followed
    <3>4. PollCurrent'
      BY <1>2, <1>4, <1>5, <1>6, <1>8, <2>1, <3>1 DEF BookInv, PollCurrent, Busy
    <3> QED  BY <1>5, <2>3, <3>2, <3>3, <3>4
             DEF BookParts, BookStep, Stutters, Placed, Closing, Followed, Quantities
  <2> QED  BY <1>6, <1>8, <2>1, <2>2, <2>3 DEF BeginFill
<1>9. CASE Suspend("clo", "cancel", j) /\ UNCHANGED <<positions, counted>>
  <2>1. pc'["clo"] = "cancel" /\ job'["clo"] = j /\ pc'["qc"] = pc["qc"]
    BY <1>5, <1>9 DEF Suspend, BookInv, TrackingInv, TypeInv, TypeOK
  <2>2. Quiet' /\ OrdersWhole' /\ ChosenAreFree'
    BY <1>5, <1>9, <2>1 DEF BookInv, Quiet, OrdersWhole, ChosenAreFree
  <2>3. CountedIsDone'
    BY <1>5, <1>9, <2>1 DEF BookInv, CountedIsDone, Followed
  <2>4. PollCurrent'
    BY <1>2, <1>4, <1>5, <1>6, <2>1 DEF BookInv, PollCurrent, Busy
  <2> QED  BY <1>5, <1>9, <2>2, <2>3, <2>4
           DEF BookParts, BookStep, Stutters, Placed, Closing, Followed, Quantities
<1> QED  BY <1>1, <1>7, <1>8, <1>9 DEF OrderInflight, j

\* The row is written: the order is filled, and no longer followed.
LEMMA SaveStep ==
  ASSUME BookInv, SaveTrade("clo")
  PROVE  BookParts' /\ BookStep
<1>1. PICK j : j = job["clo"]
  OBVIOUS
<1>2. /\ pc["clo"] = "save" /\ j \in Job /\ "clo" \in Handlers /\ "qc" \in Handlers
      /\ open_orders[j.sym] = j.order /\ j.fill
      /\ broker[j.order].status = "filled"
  BY <1>1 DEF SaveTrade, Handlers, BookInv, PollCurrent, Busy, TrackingInv, TypeInv,
              JobsHeld
<1>3. j.sym \in Symbols /\ j.order \in OrderIds /\ j.order # None
      /\ j.after \in {"idle", "strategies", "scan"}
  BY <1>2, NoneAssumption DEF Job
<1>4. /\ open_orders' = [open_orders EXCEPT ![j.sym] = None]
      /\ Return("clo", j)
      /\ UNCHANGED <<counted, snapshot, runAllTodo, queue, broker>>
  BY <1>1, <1>2, <1>3 DEF SaveTrade
<1>5. pc'["clo"] = j.after /\ pc'["qc"] = pc["qc"]
  BY <1>2, <1>4 DEF Return, BookInv, TrackingInv, TypeInv, TypeOK
<1>6. \A s \in Symbols : open_orders'[s] = IF s = j.sym THEN None ELSE open_orders[s]
  BY <1>4 DEF BookInv, TrackingInv, TypeInv, TypeOK
<1>7. Followed' = Followed \ {j.order} /\ j.order \in Followed
  <2>1. \A s \in Symbols : s # j.sym => open_orders[s] # j.order
    BY <1>2, <1>3, FollowedForOneSymbol DEF BookInv
  <2>2. None \notin OrderIds
    BY NoneAssumption
  <2> QED  BY <1>2, <1>3, <1>6, <2>1, <2>2 DEF Followed
<1>8. Quiet' /\ OrdersWhole'
  BY <1>4, <1>5 DEF BookInv, Quiet, OrdersWhole
<1>9. CountedIsDone'
  BY <1>1, <1>4, <1>7 DEF BookInv, CountedIsDone
<1>10. PollCurrent'
  <2>1. pc'["clo"] \notin Busy
    BY <1>3, <1>5 DEF Busy
  <2>2. ASSUME NEW item \in snapshot PROVE open_orders'[item[1]] = item[2]
    BY <1>1, <1>2, <1>6 DEF BookInv, PollCurrent, Busy, TrackingInv, TypeInv, TypeOK
  <2> QED  BY <1>4, <2>1, <2>2 DEF PollCurrent, Busy
<1>11. ChosenAreFree'
  BY <1>4, <1>6 DEF BookInv, ChosenAreFree, TrackingInv, TypeInv, TypeOK
<1>12. Book!Forget(j.order)
  BY <1>2, <1>3, <1>4, <1>7 DEF Book!Forget, Followed
<1> QED  BY <1>3, <1>8, <1>9, <1>10, <1>11, <1>12 DEF BookParts, BookStep, Book!BookNext

\* A cancellation is accepted, and the order no longer followed; or refused.
LEMMA CancelStep ==
  ASSUME BookInv, CancelOrder("clo")
  PROVE  BookParts' /\ BookStep
<1>1. PICK j : j = job["clo"]
  OBVIOUS
<1>2. /\ pc["clo"] = "cancel" /\ j \in Job /\ "clo" \in Handlers /\ "qc" \in Handlers
      /\ open_orders[j.sym] = j.order
  BY <1>1 DEF CancelOrder, Handlers, BookInv, PollCurrent, Busy, TrackingInv, TypeInv,
              JobsHeld
<1>3. j.sym \in Symbols /\ j.order \in OrderIds /\ j.order # None
      /\ j.after \in {"idle", "strategies", "scan"}
  BY <1>2, NoneAssumption DEF Job
<1>4. /\ Return("clo", j)
      /\ UNCHANGED <<counted, snapshot, runAllTodo, queue>>
  BY <1>1 DEF CancelOrder
<1>5. pc'["clo"] = j.after /\ pc'["qc"] = pc["qc"] /\ pc'["clo"] \notin Busy
  BY <1>2, <1>3, <1>4 DEF Return, BookInv, TrackingInv, TypeInv, TypeOK, Busy
<1>6. CASE broker[j.order].status # "live"
  <2>1. UNCHANGED <<broker, open_orders>>
    BY <1>1, <1>6 DEF CancelOrder
  <2>2. BookParts'
    BY <1>2, <1>4, <1>5, <2>1
    DEF BookInv, BookParts, Quiet, OrdersWhole, CountedIsDone, PollCurrent,
        ChosenAreFree, Followed, Busy
  <2> QED  BY <1>4, <2>1, <2>2
           DEF BookStep, Stutters, Placed, Closing, Followed, Quantities
<1>7. CASE broker[j.order].status = "live"
  <2>1. /\ broker' = [broker EXCEPT ![j.order].status = "pending_cancel"]
        /\ open_orders' = [open_orders EXCEPT ![j.sym] = None]
    BY <1>1, <1>7 DEF CancelOrder
  <2>2. \A s \in Symbols : open_orders'[s] = IF s = j.sym THEN None ELSE open_orders[s]
    BY <2>1 DEF BookInv, TrackingInv, TypeInv, TypeOK
  <2>3. \A o \in OrderIds :
          /\ broker'[o].filled = broker[o].filled /\ broker'[o].by = broker[o].by
          /\ broker'[o].status = IF o = j.order THEN "pending_cancel"
                                                ELSE broker[o].status
    BY <1>3, <2>1 DEF BookInv, TrackingInv, TypeInv, TypeOK, BrokerOrder
  <2>4. Followed' = Followed \ {j.order}
    <3>1. \A s \in Symbols : s # j.sym => open_orders[s] # j.order
      BY <1>2, <1>3, FollowedForOneSymbol DEF BookInv
    <3>2. None \notin OrderIds
      BY NoneAssumption
    <3> QED  BY <1>2, <1>3, <2>2, <3>1, <3>2 DEF Followed
  <2>5. OrdersWhole'
    BY <1>3, <1>4, <1>7, <2>3 DEF BookInv, OrdersWhole
  <2>6. Quiet' /\ CountedIsDone'
    BY <1>2, <1>4, <1>5, <2>4 DEF BookInv, Quiet, CountedIsDone
  <2>7. PollCurrent'
    <3>1. ASSUME NEW item \in snapshot PROVE open_orders'[item[1]] = item[2]
      BY <1>1, <1>2, <2>2 DEF BookInv, PollCurrent, Busy, TrackingInv, TypeInv, TypeOK
    <3> QED  BY <1>4, <1>5, <3>1 DEF PollCurrent, Busy
  <2>8. ChosenAreFree'
    BY <1>4, <2>2 DEF BookInv, ChosenAreFree, TrackingInv, TypeInv, TypeOK
  <2>9. /\ Placed' = Placed /\ j.order \in Placed
        /\ Closing' = Closing \cup {j.order} /\ Quantities' = Quantities
    BY <1>3, <1>7, <2>3 DEF Placed, Closing, Quantities
  <2>10. Book!Close(j.order)
    BY <1>4, <2>4, <2>9 DEF Book!Close, Placed, Closing, Followed, Quantities
  <2> QED  BY <1>3, <2>5, <2>6, <2>7, <2>8, <2>10
           DEF BookParts, BookStep, Book!BookNext
<1> QED  BY <1>6, <1>7

\* An order is submitted for a symbol without one.
LEMMA SubmitStep ==
  ASSUME BookInv, PollAlone, NEW st \in RunAllStrategies, NEW s \in Symbols,
         NEW side \in {"buy", "sell"}, RunAllSubmits(st, s, side)
  PROVE  BookParts' /\ BookStep
<1>1. PICK o \in OrderIds : SubmitOrder(o, s, st, side)
  BY DEF RunAllSubmits
<1>2. /\ UNCHANGED <<counted, pc, job, snapshot, queue>>
      /\ runAllTodo' = [runAllTodo EXCEPT ![st] = @ \ {s}]
      /\ open_orders[s] = None
  BY DEF RunAllSubmits, BookInv, ChosenAreFree
<1>3. /\ \A z \in Symbols : open_orders'[z] = IF z = s THEN o ELSE open_orders[z]
      /\ \A p \in OrderIds : p # o => broker'[p] = broker[p]
      /\ broker[o].status = "unused" /\ broker'[o].status = "live"
      /\ broker'[o].filled = 0 /\ broker'[o].by = st
  BY <1>1 DEF SubmitOrder, BookInv, TrackingInv, TypeInv, TypeOK
<1>4. st \in Strategies /\ None \notin OrderIds /\ OrderQty # 0
  BY NoneAssumption, OrderQtyAssumption DEF Strategies
<1>5. broker[o].filled = 0 /\ counted[o] = 0
  BY <1>3 DEF BookInv, OrdersWhole
<1>6. OrdersWhole'
  BY <1>2, <1>3, <1>4, <1>5 DEF BookInv, OrdersWhole
<1>7. Followed' = Followed \cup {o}
  BY <1>2, <1>3, <1>4 DEF Followed
<1>8. Quiet' /\ CountedIsDone'
  BY <1>2, <1>5, <1>7 DEF BookInv, Quiet, CountedIsDone
<1>9. PollCurrent'
  <2>1. ASSUME NEW item \in snapshot
        PROVE  item[1] \in Symbols /\ item[1] # s /\ open_orders'[item[1]] = item[2]
    BY <1>2, <1>3, <1>4 DEF BookInv, PollCurrent, TrackingInv, TypeInv, TypeOK
  <2>2. ASSUME pc["clo"] \in Busy
        PROVE  /\ job["clo"].sym \in Symbols /\ job["clo"].order \in OrderIds
               /\ open_orders'[job["clo"].sym] = job["clo"].order
    <3>1. job["clo"] \in Job
      BY <2>2 DEF BookInv, TrackingInv, TypeInv, JobsHeld, Busy, Handlers
    <3>2. job["clo"].sym \in Symbols /\ job["clo"].order \in OrderIds
      BY <3>1 DEF Job
    <3> QED  BY <1>2, <1>3, <1>4, <2>2, <3>2 DEF BookInv, PollCurrent
  <2>3. ASSUME pc["clo"] \in {"callback", "save"}
        PROVE  broker'[job["clo"].order].status = "filled"
    BY <1>3, <2>2, <2>3 DEF BookInv, PollCurrent, Busy
  <2> QED  BY <1>2, <2>1, <2>2, <2>3 DEF BookInv, PollCurrent, Busy
<1>10. ChosenAreFree'
  <2> SUFFICES ASSUME NEW st2 \in RunAllStrategies, NEW z \in runAllTodo'[st2]
               PROVE  open_orders'[z] = None
    BY DEF ChosenAreFree
  <2>1. st2 = st
    BY DEF PollAlone
  <2>2. z \in runAllTodo[st] /\ z # s /\ z \in Symbols
    BY <1>2, <2>1 DEF BookInv, TrackingInv, TypeInv, TypeOK
  <2> QED  BY <1>3, <2>2 DEF BookInv, ChosenAreFree
<1>11. /\ Placed' = Placed \cup {o} /\ o \notin Placed
       /\ Closing' = Closing /\ Quantities' = Quantities
  BY <1>3, <1>5 DEF Placed, Closing, Quantities
<1>12. Book!Submit(o)
  BY <1>2, <1>7, <1>11 DEF Book!Submit, Placed, Closing, Followed, Quantities
<1> QED  BY <1>6, <1>8, <1>9, <1>10, <1>12 DEF BookParts, BookStep, Book!BookNext

\* The broker executes and ends orders; nobody is told.
LEMMA BrokerStep ==
  ASSUME BookInv, PollAlone, Broker
  PROVE  BookParts' /\ BookStep
<1>1. PICK o \in OrderIds :
        \/ \E q \in 1 .. OrderQty : BrokerFills(o, q)
        \/ BrokerCancels(o) \/ BrokerNotice(o) \/ Age(o)
  BY DEF Broker
<1>2. "stream" \notin Sources
  BY DEF PollAlone
<1>3. UNCHANGED <<open_orders, counted, pc, job, snapshot, runAllTodo, queue>>
  BY <1>1, <1>2 DEF BrokerFills, BrokerCancels, BrokerNotice, Age, Send, data, control
<1>4. broker \in [OrderIds -> BrokerOrder] /\ OrderQty \in Nat \ {0}
  BY OrderQtyAssumption DEF BookInv, TrackingInv, TypeInv, TypeOK
<1>5. Quiet' /\ CountedIsDone' /\ ChosenAreFree' /\ Followed' = Followed
  BY <1>3 DEF BookInv, Quiet, CountedIsDone, ChosenAreFree, Followed
<1>6. ASSUME \A p \in OrderIds : broker[p].status = "filled"
                                 => broker'[p].status = "filled"
      PROVE  PollCurrent'
  <2>1. ASSUME pc["clo"] \in {"callback", "save"}
        PROVE  broker'[job["clo"].order].status = "filled"
    <3>1. job["clo"] \in Job
      BY <2>1 DEF BookInv, TrackingInv, TypeInv, JobsHeld, Handlers
    <3> QED  BY <1>6, <2>1, <3>1 DEF BookInv, PollCurrent, Job
  <2> QED  BY <1>3, <2>1 DEF BookInv, PollCurrent
<1>7. CASE broker' = broker
  BY <1>3, <1>5, <1>6, <1>7
  DEF BookInv, BookParts, OrdersWhole, BookStep, Stutters, Placed, Closing, Followed,
      Quantities
<1>8. ASSUME NEW q \in 1 .. OrderQty, BrokerFills(o, q)
      PROVE  BookParts' /\ BookStep
  <2>1. PICK total : total = broker[o].filled + q
    OBVIOUS
  <2>2. /\ Working(o) /\ total <= OrderQty /\ total \in Nat
        /\ broker[o].filled \in Nat /\ total > broker[o].filled
        /\ broker' = [broker EXCEPT ![o] = Executed(o, total)]
    BY <1>4, <1>8, <2>1 DEF BrokerFills, BrokerOrder
  <2>3. /\ \A p \in OrderIds : p # o => broker'[p] = broker[p]
        /\ broker'[o].filled = total /\ broker'[o].by = broker[o].by
        /\ broker'[o].status = IF total = OrderQty THEN "filled" ELSE broker[o].status
    BY <1>4, <2>2 DEF Executed, BrokerOrder
  <2>4. broker[o].status \in {"live", "pending_cancel"} /\ counted[o] = 0
    BY <2>2 DEF Working, BookInv, OrdersWhole
  <2>5. OrdersWhole'
    BY <1>3, <1>4, <2>2, <2>3, <2>4 DEF BookInv, OrdersWhole
  <2>6. PollCurrent'
    BY <1>6, <2>3, <2>4
  <2>7. /\ Placed' = Placed /\ o \in Placed
        /\ Closing' = IF total = OrderQty THEN Closing \cup {o} ELSE Closing
        /\ Quantities' = [Quantities EXCEPT ![o] = total]
        /\ Quantities[o] = broker[o].filled
    BY <2>3, <2>4 DEF Placed, Closing, Quantities
  <2>8. total \in Quantities[o] + 1 .. OrderQty
    BY <1>4, <2>2, <2>7
  <2>9. Book!Execute(o)
    BY <1>3, <1>5, <2>7, <2>8 DEF Book!Execute, Placed, Closing, Followed, Quantities
  <2> QED  BY <1>5, <2>5, <2>6, <2>9 DEF BookParts, BookStep, Book!BookNext
<1>9. ASSUME BrokerCancels(o)
      PROVE  BookParts' /\ BookStep
  <2>1. /\ Working(o)
        /\ broker' = [broker EXCEPT ![o].status = "canceled"]
    BY <1>9 DEF BrokerCancels
  <2>2. /\ \A p \in OrderIds : p # o => broker'[p] = broker[p]
        /\ broker'[o].filled = broker[o].filled /\ broker'[o].by = broker[o].by
        /\ broker'[o].status = "canceled"
    BY <1>4, <2>1 DEF BrokerOrder
  <2>3. broker[o].status \in {"live", "pending_cancel"} /\ counted[o] = 0
    BY <2>1 DEF Working, BookInv, OrdersWhole
  <2>4. OrdersWhole'
    BY <1>3, <2>2, <2>3 DEF BookInv, OrdersWhole
  <2>5. PollCurrent'
    BY <1>6, <2>2, <2>3
  <2>6. /\ Placed' = Placed /\ o \in Placed /\ Closing' = Closing \cup {o}
        /\ Quantities' = Quantities
    BY <2>2, <2>3 DEF Placed, Closing, Quantities
  <2>7. Book!Close(o)
    BY <1>3, <1>5, <2>6 DEF Book!Close, Placed, Closing, Followed, Quantities
  <2> QED  BY <1>5, <2>4, <2>5, <2>7 DEF BookParts, BookStep, Book!BookNext
<1> QED  BY <1>1, <1>7, <1>8, <1>9 DEF BrokerNotice, Age

\* A step that leaves orders and the poll alone.
LEMMA NothingForTheBook ==
  ASSUME BookInv,
         UNCHANGED <<open_orders, counted, broker, queue, job>>,
         pc' = pc \/ (pc' = [pc EXCEPT !["clo"] = "idle"] /\ pc["clo"] = "scan")
                  \/ (pc' = [pc EXCEPT !["clo"] = "scan"] /\ pc["clo"] = "idle"),
         \A item \in snapshot' :
           item \in snapshot \/ (pc["clo"] = "idle" /\ open_orders[item[1]] = item[2]),
         ChosenAreFree'
  PROVE  BookParts' /\ BookStep
<1>1. /\ pc'["qc"] = pc["qc"]
      /\ pc'["clo"] = pc["clo"] \/ (pc'["clo"] \in {"idle", "scan"}
                                    /\ pc["clo"] \in {"idle", "scan"})
  BY DEF BookInv, TrackingInv, TypeInv, TypeOK, Handlers
<1>2. Quiet' /\ OrdersWhole' /\ CountedIsDone'
  BY <1>1 DEF BookInv, Quiet, OrdersWhole, CountedIsDone, Followed
<1>3. PollCurrent'
  BY <1>1 DEF BookInv, PollCurrent, Busy
<1>4. Stutters
  BY DEF Stutters, Placed, Closing, Followed, Quantities
<1> QED  BY <1>2, <1>3, <1>4 DEF BookParts, BookStep

LEMMA BookStepHolds ==
  ASSUME PollAlone, BookInv, [Next]_vars
  PROVE  BookInv' /\ BookStep
<1> SUFFICES BookParts' /\ BookStep
  BY TrackingStep DEF BookInv, BookParts
<1>1. Quiet /\ saveFailures = 0 /\ restarts = 0
      /\ "stream" \notin Sources /\ "bars" \notin Sources
  BY DEF BookInv, PollAlone, TrackingInv, TypeInv, TypeOK
<1>2. CASE \E h \in Handlers : Fill(h) \/ CancelOrder(h)
  <2>1. PICK h \in Handlers : Fill(h) \/ CancelOrder(h)
    BY <1>2
  <2>2. h = "clo"
    BY <1>1, <2>1 DEF Handlers, Quiet, Fill, CallbackReturns, SaveTrade, SaveTradeFails,
                      CancelOrder
  <2>3. CASE CallbackReturns("clo")
    <3>1. PICK j : j = job["clo"]
      OBVIOUS
    <3>2. j \in Job /\ CountFill("clo", j) /\ pc["clo"] = "callback"
      BY <2>3, <3>1 DEF CallbackReturns, BookInv, TrackingInv, TypeInv, JobsHeld, Handlers
    <3>3. /\ open_orders[j.sym] = j.order /\ j.fill
          /\ broker[j.order].status = "filled" /\ j.qty = OrderQty
          /\ \A item \in snapshot : item[1] # j.sym
      BY <3>1, <3>2 DEF BookInv, PollCurrent, Busy
    <3>4. UNCHANGED <<open_orders, open_order_strategy, broker, queue, runAllTodo, snapshot>>
      BY <2>3 DEF CallbackReturns
    <3> QED  BY <3>2, <3>3, <3>4, CountsWhole
  <2>4. ~SaveTradeFails("clo")
    BY <1>1 DEF SaveTradeFails, PollAlone
  <2> QED  BY <2>1, <2>2, <2>3, <2>4, SaveStep, CancelStep DEF Fill
<1>3. CASE LingeringWakes
  <2>1. ChosenAreFree'
    BY <1>3 DEF LingeringWakes, BookInv, ChosenAreFree, data
  <2>2. /\ UNCHANGED <<open_orders, counted, broker, queue, job>>
        /\ pc["clo"] = "idle" /\ pc' = [pc EXCEPT !["clo"] = "scan"]
        /\ \A item \in snapshot' : open_orders[item[1]] = item[2]
    BY <1>3 DEF LingeringWakes, data
  <2> QED  BY <2>1, <2>2, NothingForTheBook
<1>4. CASE LingeringDone
  <2>1. ChosenAreFree'
    BY <1>4 DEF LingeringDone, BookInv, ChosenAreFree, data
  <2>2. /\ UNCHANGED <<open_orders, counted, broker, queue, job, snapshot>>
        /\ pc["clo"] = "scan" /\ pc' = [pc EXCEPT !["clo"] = "idle"]
    BY <1>4 DEF LingeringDone, data
  <2> QED  BY <2>1, <2>2, NothingForTheBook
<1>5. CASE TradeUpdate
  BY <1>1, <1>5 DEF TradeUpdate, UpdateWithoutOrder, OrderEnds, UpdateFills, Receives,
                    Quiet
<1>6. CASE Bar
  BY <1>1, <1>6 DEF Bar, HandleBar, OrderRowSaved, StrategiesDone, Quiet
<1>7. CASE Submission
  <2>1. ~\E s \in Symbols, side \in {"buy", "sell"}, st \in RunStrategies :
          StrategySubmits(s, st, side)
    BY <1>1 DEF StrategySubmits, Quiet
  <2> QED  BY <1>7, <2>1, SubmitStep DEF Submission
<1>8. CASE Periodic
  <2>1. UNCHANGED <<open_orders, counted, broker, queue, job, pc, snapshot>>
    BY <1>8 DEF Periodic, RunAll, RunAllAborts, data
  <2>2. PICK st \in RunAllStrategies : RunAll(st) \/ RunAllAborts(st)
    BY <1>8 DEF Periodic
  <2>3. PICK T \in SUBSET {s \in Symbols : open_orders[s] = None} :
          runAllTodo' = [runAllTodo EXCEPT ![st] = T]
    BY <2>2 DEF RunAll, RunAllAborts, PollAlone
  <2>4. ChosenAreFree'
    BY <2>1, <2>3 DEF BookInv, ChosenAreFree, TrackingInv, TypeInv, TypeOK
  <2> QED  BY <2>1, <2>4, NothingForTheBook
<1>9. CASE Restart
  BY <1>1, <1>9 DEF Restart, PollAlone
<1>10. CASE UNCHANGED vars
  <2>1. UNCHANGED <<open_orders, counted, broker, queue, job, pc, snapshot, runAllTodo>>
    BY <1>10 DEF vars, data, control
  <2>2. ChosenAreFree'
    BY <2>1 DEF BookInv, ChosenAreFree
  <2> QED  BY <2>1, <2>2, NothingForTheBook
<1> QED
  BY <1>2, <1>3, <1>4, <1>5, <1>6, <1>7, <1>8, <1>9, <1>10, PollStep, BrokerStep
  DEF Next, Lingering

\* A consumer whose one strategy submits orders only where none is open, and
\* that learns of them from the poll alone, keeps the order book, whether or not
\* callbacks suspend and orders are filled in parts.
THEOREM PollImplementsOrderBook == PollAlone /\ Spec => ImplementsOrderBook
<1> SUFFICES ASSUME PollAlone PROVE Spec => ImplementsOrderBook
  OBVIOUS
<1>1. BookInv /\ [Next]_vars => BookInv' /\ [Book!BookNext]_(Book!bookVars)
  <2>1. Stutters => UNCHANGED Book!bookVars
    BY DEF Stutters, Book!bookVars, Placed, Closing, Followed, Quantities
  <2> QED  BY <2>1, BookStepHolds DEF BookStep
<1>2. Init => BookInv /\ Book!BookInit
  BY BookInitially
<1> QED  BY <1>1, <1>2, PTL DEF Spec, ImplementsOrderBook, Book!BookSpec

-----------------------------------------------------------------------------
(* What a queue of trade updates reports: the library's fold, followed       *)
(* position by position.                                                     *)

\* The natural numbers are well ordered.
LEMMA Least ==
  ASSUME NEW S \in SUBSET Nat, S # {}
  PROVE  \E x \in S : \A y \in S : x <= y
<1>1. PICK x \in S : \A y \in S : ~(<<y, x>> \in OpToRel(<, Nat))
  BY NatLessThanWellFounded, WFMin, Zenon
<1>2. ASSUME NEW y \in S PROVE x <= y
  <2>1. ~(y < x)
    BY <1>1 DEF OpToRel
  <2> QED  BY <2>1
<1> QED  BY <1>2

LEMMA Greatest ==
  ASSUME NEW n \in Nat, NEW S \in SUBSET (1 .. n), S # {}
  PROVE  \E x \in S : \A y \in S : x >= y
<1> DEFINE T == {n - x : x \in S}
<1>1. T \in SUBSET Nat /\ T # {}
  <2>1. \A x \in S : n - x \in Nat
    OBVIOUS
  <2> QED  BY <2>1
<1>2. PICK z \in T : \A y \in T : z <= y
  BY <1>1, Least
<1>3. PICK x \in S : z = n - x
  BY <1>2
<1>4. ASSUME NEW y \in S PROVE x >= y
  <2>1. n - x <= n - y
    BY <1>2, <1>3
  <2> QED  BY <2>1
<1> QED  BY <1>4

\* What the library's fold computes for the sets of positions up to n, of w.
IsFold(F, n, w) ==
  F = [s \in SUBSET (1 .. n) |->
         IF s = {} THEN 0 ELSE F[s \ {Max(s)}] + w[Max(s)]]

LEMMA MaxIsLast ==
  ASSUME NEW n \in Nat, NEW s \in SUBSET (1 .. n), n \in s
  PROVE  Max(s) = n
<1>1. \E x \in s : \A y \in s : x >= y
  OBVIOUS
<1>2. Max(s) \in s /\ \A y \in s : Max(s) >= y
  BY <1>1 DEF Max
<1>3. PICK x \in s : x = Max(s) /\ \A y \in s : x >= y
  BY <1>2
<1>4. x \in 1 .. n /\ x >= n
  BY <1>3
<1>5. x = n
  BY <1>4
<1> QED  BY <1>3, <1>5

LEMMA FoldExists ==
  ASSUME NEW w, NEW n \in Nat
  PROVE  \E F : IsFold(F, n, w)
<1> DEFINE Bad == {m \in Nat : ~\E F : IsFold(F, m, w)}
<1> SUFFICES ASSUME Bad # {} PROVE FALSE
  OBVIOUS
<1>1. PICK m \in Bad : \A k \in Bad : m <= k
  BY Least
<1>2. m # 0
  <2> DEFINE F == [s \in SUBSET (1 .. 0) |-> 0]
  <2>1. SUBSET (1 .. 0) = {{}}
    OBVIOUS
  <2>2. IsFold(F, 0, w)
    BY <2>1 DEF IsFold
  <2> QED  BY <2>2
<1>3. m \in Nat /\ m - 1 \in Nat /\ m - 1 \notin Bad
  BY <1>1, <1>2
<1>4. PICK F : IsFold(F, m - 1, w)
  BY <1>3
<1> DEFINE G == [s \in SUBSET (1 .. m) |->
                   IF m \in s THEN F[s \ {m}] + w[m] ELSE F[s]]
<1>5. ASSUME NEW s \in SUBSET (1 .. m)
      PROVE  G[s] = IF s = {} THEN 0 ELSE G[s \ {Max(s)}] + w[Max(s)]
  <2>1. CASE m \in s
    <3>1. Max(s) = m /\ s # {} /\ s \ {m} \in SUBSET (1 .. m) /\ m \notin s \ {m}
      BY <1>3, <2>1, MaxIsLast
    <3>2. G[s] = F[s \ {m}] + w[m] /\ G[s \ {m}] = F[s \ {m}]
      BY <2>1, <3>1
    <3> QED  BY <3>1, <3>2
  <2>2. CASE m \notin s
    <3> DEFINE t == s \ {Max(s)}
    <3>1. \A i \in s : i \in 1 .. (m - 1)
      BY <1>3, <2>2
    <3>2. s \in SUBSET (1 .. (m - 1)) /\ t \in SUBSET s
      BY <3>1
    <3>3. t \in SUBSET (1 .. m) /\ m \notin t
      BY <2>2, <3>2
    <3>4. G[s] = F[s] /\ G[t] = F[t]
      BY <2>2, <3>3
    <3>5. F[s] = IF s = {} THEN 0 ELSE F[t] + w[Max(s)]
      BY <1>4, <3>2 DEF IsFold
    <3> QED  BY <3>4, <3>5
  <2> QED  BY <2>1, <2>2
<1>6. IsFold(G, m, w)
  <2>1. G = [s \in SUBSET (1 .. m) |-> G[s]]
    OBVIOUS
  <2> HIDE DEF G
  <2> QED  BY <1>5, <2>1 DEF IsFold
<1>7. m \notin Bad
  BY <1>6
<1> QED  BY <1>1, <1>7

\* F adds up w, one position after the other.
AddsUp(F, n, w) ==
  /\ F[1 .. 0] = 0
  /\ \A k \in 1 .. n : F[1 .. k] = F[1 .. (k - 1)] + w[k]

LEMMA FoldAddsUp ==
  ASSUME NEW F, NEW w, NEW n \in Nat, IsFold(F, n, w)
  PROVE  AddsUp(F, n, w)
<1>1. F[1 .. 0] = 0
  <2>1. 1 .. 0 = {} /\ {} \in SUBSET (1 .. n)
    OBVIOUS
  <2>2. F[{}] = 0
    BY <2>1 DEF IsFold
  <2> QED  BY <2>1, <2>2
<1>2. ASSUME NEW k \in 1 .. n PROVE F[1 .. k] = F[1 .. (k - 1)] + w[k]
  <2>1. 1 .. k \in SUBSET (1 .. n) /\ 1 .. k # {} /\ k \in 1 .. k /\ k \in Nat
    OBVIOUS
  <2>2. Max(1 .. k) = k
    BY <2>1, MaxIsLast
  <2>3. (1 .. k) \ {k} = 1 .. (k - 1)
    BY <2>1
  <2>4. F[1 .. k] = F[(1 .. k) \ {Max(1 .. k)}] + w[Max(1 .. k)]
    BY <2>1 DEF IsFold
  <2> QED  BY <2>2, <2>3, <2>4
<1> QED  BY <1>1, <1>2 DEF AddsUp

Natural(w, n) == \A i \in 1 .. n : w[i] \in Nat
\* v is w from position d + 1 on.
Continues(v, m, w, d) == \A i \in 1 .. m : v[i] = w[i + d]

\* A sum of natural numbers is one.
LEMMA SumNat ==
  ASSUME NEW F, NEW w, NEW n \in Nat, AddsUp(F, n, w), Natural(w, n)
  PROVE  \A k \in 0 .. n : F[1 .. k] \in Nat
<1> DEFINE Bad == {k \in 0 .. n : F[1 .. k] \notin Nat}
<1> SUFFICES ASSUME Bad # {} PROVE FALSE
  OBVIOUS
<1>1. Bad \in SUBSET Nat
  OBVIOUS
<1>2. PICK k \in Bad : \A j \in Bad : k <= j
  BY <1>1, Least
<1>3. k # 0
  BY DEF AddsUp
<1>4. k \in 1 .. n /\ k - 1 \in 0 .. n /\ k - 1 \notin Bad
  BY <1>2, <1>3
<1>5. F[1 .. (k - 1)] \in Nat /\ w[k] \in Nat /\ F[1 .. k] = F[1 .. (k - 1)] + w[k]
  BY <1>4 DEF AddsUp, Natural
<1>6. F[1 .. k] \in Nat
  BY <1>5
<1> QED  BY <1>2, <1>6

\* From position d on F adds what G adds up.
Extends(F, d, G, m) == \A k \in 0 .. m : F[1 .. (k + d)] = F[1 .. d] + G[1 .. k]

\* Of what begins d positions later.
LEMMA SumShift ==
  ASSUME NEW F, NEW w, NEW n \in Nat, AddsUp(F, n, w),
         NEW G, NEW v, NEW m \in Nat, AddsUp(G, m, v),
         NEW d \in Nat, m + d <= n,
         Natural(w, n), Continues(v, m, w, d)
  PROVE  Extends(F, d, G, m)
<1> USE DEF Extends
<1> DEFINE Bad == {k \in 0 .. m : F[1 .. (k + d)] # F[1 .. d] + G[1 .. k]}
<1> SUFFICES ASSUME Bad # {} PROVE FALSE
  OBVIOUS
<1>1. Bad \in SUBSET Nat
  OBVIOUS
<1>2. PICK k \in Bad : \A j \in Bad : k <= j
  BY <1>1, Least
<1>3. F[1 .. d] \in Nat /\ G[1 .. 0] = 0
  <2>1. d \in 0 .. n
    OBVIOUS
  <2>2. \A i \in 0 .. n : F[1 .. i] \in Nat
    BY SumNat
  <2>3. G[1 .. 0] = 0
    BY DEF AddsUp
  <2> QED  BY <2>1, <2>2, <2>3
<1>4. k # 0
  <2>1. F[1 .. (0 + d)] = F[1 .. d] + G[1 .. 0]
    BY <1>3
  <2> QED  BY <1>2, <2>1
<1>5. k \in 1 .. m /\ k - 1 \in 0 .. m /\ k - 1 \notin Bad /\ k + d \in 1 .. n
      /\ (k - 1) + d = (k + d) - 1
  BY <1>2, <1>4
<1>6. F[1 .. ((k - 1) + d)] = F[1 .. d] + G[1 .. (k - 1)]
  BY <1>5
<1>7. F[1 .. (k + d)] = F[1 .. ((k + d) - 1)] + w[k + d]
  <2>1. \A i \in 1 .. n : F[1 .. i] = F[1 .. (i - 1)] + w[i]
    BY DEF AddsUp
  <2> QED  BY <1>5, <2>1
<1>8. G[1 .. k] = G[1 .. (k - 1)] + w[k + d]
  <2>1. G[1 .. k] = G[1 .. (k - 1)] + v[k]
    BY <1>5 DEF AddsUp
  <2> QED  BY <1>5, <2>1 DEF Continues
<1>9. Natural(v, m)
  <2> SUFFICES ASSUME NEW i \in 1 .. m PROVE v[i] \in Nat
    BY DEF Natural
  <2>1. i + d \in 1 .. n
    OBVIOUS
  <2> QED  BY <2>1 DEF Natural, Continues
<1>10. G[1 .. (k - 1)] \in Nat /\ w[k + d] \in Nat
  BY <1>5, <1>9, SumNat DEF Natural
<1>11. F[1 .. ((k + d) - 1)] = F[1 .. d] + G[1 .. (k - 1)]
  BY <1>5, <1>6
<1>12. F[1 .. (k + d)] = F[1 .. d] + G[1 .. k]
  BY <1>3, <1>7, <1>8, <1>10, <1>11
<1> QED  BY <1>2, <1>12

\* The share of order o in a trade update.
Share(u, o) == IF u.order = o THEN u.qty ELSE 0
\* What the updates of q report of order o: Queued, of any sequence.
Reported(q, o) ==
  FoldLeft(LAMBDA sum, u : sum + IF u.order = o THEN u.qty ELSE 0, 0, q)
Shares(q, o) == [i \in 1 .. Len(q) |-> Share(q[i], o)]

LEMMA ReportedFold ==
  ASSUME NEW q \in Seq(Update), NEW o
  PROVE  \E F : IsFold(F, Len(q), Shares(q, o)) /\ Reported(q, o) = F[1 .. Len(q)]
<1> DEFINE Folds(F) ==
             F = [s \in SUBSET (1 .. Len(q)) |->
                    IF s = {} THEN 0 ELSE F[s \ {Max(s)}] + Share(q[Max(s)], o)]
<1>1. DOMAIN q = 1 .. Len(q) /\ Len(q) \in Nat
  OBVIOUS
<1>2. Reported(q, o) = (CHOOSE F : Folds(F))[1 .. Len(q)]
  BY <1>1 DEF Reported, FoldLeft, MapThenFoldSet, Share
<1>3. ASSUME NEW F PROVE Folds(F) <=> IsFold(F, Len(q), Shares(q, o))
  <2>1. \A s \in SUBSET (1 .. Len(q)) : s # {} => Max(s) \in s
    <3> SUFFICES ASSUME NEW s \in SUBSET (1 .. Len(q)), s # {} PROVE Max(s) \in s
      OBVIOUS
    <3>1. \E x \in s : \A y \in s : x >= y
      BY <1>1, Greatest
    <3> QED  BY <3>1 DEF Max
  <2>2. \A s \in SUBSET (1 .. Len(q)) : s # {} =>
          Shares(q, o)[Max(s)] = Share(q[Max(s)], o)
    BY <2>1 DEF Shares
  <2> QED  BY <2>2 DEF IsFold
<1>4. \E F : Folds(F)
  BY <1>1, <1>3, FoldExists
<1>5. Folds(CHOOSE F : Folds(F))
  BY <1>4
<1> QED  BY <1>2, <1>3, <1>5

LEMMA ShareNat == ASSUME NEW u \in Update, NEW o PROVE Share(u, o) \in Nat
BY OrderQtyAssumption DEF Share, Update

LEMMA SharesNat ==
  ASSUME NEW q \in Seq(Update), NEW o
  PROVE  Natural(Shares(q, o), Len(q))
<1>1. \A i \in 1 .. Len(q) : q[i] \in Update
  OBVIOUS
<1> QED  BY <1>1, ShareNat DEF Shares, Natural

LEMMA ReportedNat ==
  ASSUME NEW q \in Seq(Update), NEW o
  PROVE  Reported(q, o) \in Nat /\ (q = << >> => Reported(q, o) = 0)
<1>1. Len(q) \in Nat /\ Len(q) \in 0 .. Len(q) /\ (q = << >> => Len(q) = 0)
  OBVIOUS
<1>2. PICK F : IsFold(F, Len(q), Shares(q, o)) /\ Reported(q, o) = F[1 .. Len(q)]
  BY ReportedFold
<1>3. AddsUp(F, Len(q), Shares(q, o))
  BY <1>1, <1>2, FoldAddsUp
<1>4. \A k \in 0 .. Len(q) : F[1 .. k] \in Nat
  BY <1>1, <1>3, SharesNat, SumNat
<1>5. F[1 .. 0] = 0
  BY <1>3 DEF AddsUp
<1> QED  BY <1>1, <1>2, <1>4, <1>5

\* An update that arrives adds its quantity to what is reported.
LEMMA ReportedAppend ==
  ASSUME NEW q \in Seq(Update), NEW u \in Update, NEW o
  PROVE  Reported(Append(q, u), o) = Reported(q, o) + Share(u, o)
<1> DEFINE r == Append(q, u)
           n == Len(q)
<1>1. /\ r \in Seq(Update) /\ n \in Nat /\ Len(r) = n + 1
      /\ \A i \in 1 .. n : r[i] = q[i]
      /\ r[n + 1] = u
  OBVIOUS
<1> HIDE DEF r
<1>2. PICK G : IsFold(G, n, Shares(q, o)) /\ Reported(q, o) = G[1 .. n]
  BY ReportedFold
<1>3. PICK F : IsFold(F, n + 1, Shares(r, o)) /\ Reported(r, o) = F[1 .. (n + 1)]
  BY <1>1, ReportedFold
<1>4. AddsUp(G, n, Shares(q, o)) /\ AddsUp(F, n + 1, Shares(r, o))
  BY <1>1, <1>2, <1>3, FoldAddsUp
<1>5. Continues(Shares(q, o), n, Shares(r, o), 0)
  BY <1>1 DEF Shares, Continues
<1>6. Natural(Shares(r, o), n + 1)
  BY <1>1, SharesNat
<1>7. Extends(F, 0, G, n)
  BY <1>1, <1>4, <1>5, <1>6, SumShift
<1>8. F[1 .. n] = G[1 .. n]
  <2>1. F[1 .. (n + 0)] = F[1 .. 0] + G[1 .. n]
    BY <1>1, <1>7 DEF Extends
  <2>2. F[1 .. 0] = 0 /\ n + 0 = n
    BY <1>1, <1>4 DEF AddsUp
  <2>3. G[1 .. n] \in Nat
    BY <1>2, ReportedNat
  <2> QED  BY <2>1, <2>2, <2>3
<1>9. F[1 .. (n + 1)] = F[1 .. n] + Shares(r, o)[n + 1]
  <2>1. n + 1 \in 1 .. (n + 1) /\ (n + 1) - 1 = n
    BY <1>1
  <2> QED  BY <1>4, <2>1 DEF AddsUp
<1>10. Shares(r, o)[n + 1] = Share(u, o)
  BY <1>1 DEF Shares
<1> QED  BY <1>2, <1>3, <1>8, <1>9, <1>10 DEF r

\* An update that is taken from the queue takes its quantity along.
LEMMA ReportedTail ==
  ASSUME NEW q \in Seq(Update), q # << >>, NEW o
  PROVE  /\ Tail(q) \in Seq(Update) /\ Head(q) \in Update
         /\ Reported(q, o) = Share(Head(q), o) + Reported(Tail(q), o)
<1> DEFINE r == Tail(q)
           n == Len(r)
<1>1. /\ r \in Seq(Update) /\ n \in Nat /\ Len(q) = n + 1 /\ q[1] = Head(q)
      /\ Head(q) \in Update
      /\ \A i \in 1 .. n : r[i] = q[i + 1]
  OBVIOUS
<1> HIDE DEF r
<1>2. PICK G : IsFold(G, n, Shares(r, o)) /\ Reported(r, o) = G[1 .. n]
  BY <1>1, ReportedFold
<1>3. PICK F : IsFold(F, n + 1, Shares(q, o)) /\ Reported(q, o) = F[1 .. (n + 1)]
  BY <1>1, ReportedFold
<1>4. AddsUp(G, n, Shares(r, o)) /\ AddsUp(F, n + 1, Shares(q, o))
  BY <1>1, <1>2, <1>3, FoldAddsUp
<1>5. Continues(Shares(r, o), n, Shares(q, o), 1)
  BY <1>1 DEF Shares, Continues
<1>6. Natural(Shares(q, o), n + 1)
  BY <1>1, SharesNat
<1>7. Extends(F, 1, G, n)
  <2>1. n \in Nat /\ n + 1 \in Nat /\ 1 \in Nat /\ n + 1 <= n + 1
    BY <1>1
  <2> QED  BY <1>4, <1>5, <1>6, <2>1, SumShift
<1>8. F[1 .. (n + 1)] = F[1 .. 1] + G[1 .. n]
  BY <1>1, <1>7 DEF Extends
<1>9. F[1 .. 1] = Share(Head(q), o)
  <2>1. F[1 .. 1] = F[1 .. (1 - 1)] + Shares(q, o)[1]
    <3>1. 1 \in 1 .. (n + 1)
      BY <1>1
    <3> QED  BY <1>4, <3>1 DEF AddsUp
  <2>2. F[1 .. 0] = 0 /\ 1 - 1 = 0
    BY <1>4 DEF AddsUp
  <2>3. Shares(q, o)[1] = Share(Head(q), o)
    BY <1>1 DEF Shares
  <2>4. Shares(q, o)[1] \in Nat
    BY <1>1, <1>6 DEF Natural
  <2> QED  BY <2>1, <2>2, <2>3, <2>4
<1> QED  BY <1>1, <1>2, <1>3, <1>8, <1>9 DEF r

LEMMA QueuedReported == ASSUME NEW o PROVE Queued(o) = Reported(queue, o)
BY DEF Queued, Reported

LEMMA QueuedNext == ASSUME NEW o PROVE Queued(o)' = Reported(queue', o)
BY DEF Queued, Reported, FoldLeft, MapThenFoldSet

-----------------------------------------------------------------------------
(* The order book, of a consumer that learns of its orders from the stream.  *)

\* The stream is the only source of news and loses none; one strategy asks for
\* orders, and looks at open_orders before it does; updates are fills and ends,
\* no write fails and nothing restarts.
StreamAlone ==
  /\ Sources = {"stream"} /\ Disciplined
  /\ \A a, b \in RunAllStrategies : a = b
  /\ MaxSaveFailures = 0 /\ MaxLost = 0 /\ MaxNotices = 0 /\ MaxRestarts = 0

\* Nothing but trade updates is handled.
HandlesUpdates ==
  /\ pc["clo"] = "idle" /\ pc["qc"] \in {"idle", "callback", "save"}
  /\ pc["qc"] # "idle" => job["qc"].after = "idle"

OrdersBegun ==
  \A o \in OrderIds :
    /\ broker[o].status = "unused" => broker[o].filled = 0
    /\ broker[o].status # "unused" => broker[o].by \in Strategies

\* An order that works at the broker is the one of its symbol.
WorkingFollowed ==
  \A o \in OrderIds : Working(o) => open_orders[broker[o].sym] = o

\* So is one that an update in the queue is about; an update that is no partial
\* fill is the last of its order.
UpdatesCurrent ==
  \A i \in 1 .. Len(queue) :
    /\ open_orders[queue[i].sym] = queue[i].order
    /\ queue[i].event \in {"partial_fill", "fill", "canceled"}
    /\ queue[i].qty = 0 <=> queue[i].event = "canceled"
    /\ queue[i].event # "partial_fill" =>
         /\ ~Working(queue[i].order)
         /\ \A k \in i + 1 .. Len(queue) : queue[k].order # queue[i].order

\* So is one whose fill is being accounted for.
FillCurrent ==
  pc["qc"] # "idle" =>
    /\ open_orders[job["qc"].sym] = job["qc"].order
    /\ job["qc"].qty # 0
    /\ job["qc"].fill =>
         /\ ~Working(job["qc"].order)
         /\ \A i \in 1 .. Len(queue) : queue[i].order # job["qc"].order

StreamParts ==
  /\ HandlesUpdates /\ OrdersBegun /\ WorkingFollowed /\ UpdatesCurrent
  /\ FillCurrent /\ ChosenAreFree /\ NothingForgotten

StreamInv == TrackingInv /\ StreamParts

LEMMA StreamInitially == Init => StreamInv /\ Book!BookInit
<1> SUFFICES ASSUME Init PROVE StreamInv /\ Book!BookInit
  OBVIOUS
<1>1. TrackingInv /\ Book!BookInit
  BY TrackingInit, BookInitially
<1>2. HandlesUpdates /\ OrdersBegun /\ WorkingFollowed /\ UpdatesCurrent
      /\ FillCurrent /\ ChosenAreFree
  BY DEF Init, HandlesUpdates, OrdersBegun, WorkingFollowed, Working, UpdatesCurrent,
         FillCurrent, ChosenAreFree, Handlers
<1>3. NothingForgotten
  <2> SUFFICES ASSUME NEW o \in OrderIds
               PROVE  counted[o] + InCallback(o) + Queued(o) = broker[o].filled
    BY DEF NothingForgotten
  <2>1. counted[o] = 0 /\ broker[o].filled = 0 /\ InCallback(o) = 0
    BY DEF Init, InCallback, Handlers
  <2>2. queue = << >> /\ queue \in Seq(Update)
    BY DEF Init
  <2>3. Queued(o) = 0
    BY <2>2, QueuedReported, ReportedNat
  <2> QED  BY <2>1, <2>3
<1> QED  BY <1>1, <1>2, <1>3 DEF StreamInv, StreamParts

LEMMA StreamTypes ==
  ASSUME StreamInv
  PROVE  /\ open_orders \in [Symbols -> OrderIds \cup {None}]
         /\ broker \in [OrderIds -> BrokerOrder] /\ counted \in [OrderIds -> Nat]
         /\ queue \in Seq(Update) /\ pc \in [Handlers -> PC]
         /\ job \in [Handlers -> Job \cup {None}] /\ "qc" \in Handlers /\ "clo" \in Handlers
         /\ runAllTodo \in [RunAllStrategies -> SUBSET Symbols]
         /\ None \notin OrderIds /\ OrderQty \in Nat \ {0}
         /\ pc["qc"] # "idle" => job["qc"] \in Job /\ job["qc"].order \in Placed
  BY NoneAssumption, OrderQtyAssumption
  DEF StreamInv, StreamParts, HandlesUpdates, TrackingInv, TypeInv, TypeOK, JobsHeld,
      OrdersKnown, Handlers, Busy

\* What is followed has a strategy, and is followed for one symbol.
LEMMA FollowedHasStrategy ==
  ASSUME StreamInv, NEW s \in Symbols, NEW o \in OrderIds, open_orders[s] = o
  PROVE  /\ o \in Placed /\ broker[o].sym = s /\ o # None
         /\ open_order_strategy[s] # None
         /\ \A z \in Symbols : open_orders[z] = o => z = s
<1>1. o # None /\ o \in Placed /\ open_order_strategy[s] = broker[o].by
      /\ broker[o].sym = s
  BY NoneAssumption DEF StreamInv, TrackingInv, OrdersKnown, TrackedWithItsStrategy
<1>2. broker[o].by \in Strategies
  BY <1>1 DEF StreamInv, StreamParts, OrdersBegun, Placed
<1>3. \A z \in Symbols : open_orders[z] = o => z = s
  BY <1>1 DEF StreamInv, TrackingInv, TrackedWithItsStrategy
<1> QED  BY <1>1, <1>2, <1>3, NoneAssumption

\* An update that is received, and what remains in the queue.
LEMMA StreamReceives ==
  ASSUME StreamInv, Receives
  PROVE  /\ Head(queue) \in Update /\ Head(queue) = queue[1] /\ queue' = Tail(queue)
         /\ queue' \in Seq(Update) /\ 1 \in 1 .. Len(queue)
         /\ pc["qc"] = "idle"
         /\ \A i \in 1 .. Len(queue') : i + 1 \in 1 .. Len(queue)
                                       /\ queue'[i] = queue[i + 1]
         /\ Len(queue) = Len(queue') + 1
         /\ \A o : Queued(o) = Share(Head(queue), o) + Reported(queue', o)
<1>1. queue \in Seq(Update) /\ queue # << >> /\ queue' = Tail(queue)
      /\ pc["qc"] = "idle"
  BY StreamTypes DEF Receives
<1>2. /\ Head(queue) \in Update /\ Head(queue) = queue[1]
      /\ Tail(queue) \in Seq(Update) /\ 1 \in 1 .. Len(queue)
      /\ Len(queue) = Len(Tail(queue)) + 1
      /\ \A i \in 1 .. Len(Tail(queue)) : i + 1 \in 1 .. Len(queue)
                                         /\ Tail(queue)[i] = queue[i + 1]
  BY <1>1
<1>3. \A o : Queued(o) = Share(Head(queue), o) + Reported(queue', o)
  BY <1>1, QueuedReported, ReportedTail
<1> QED  BY <1>1, <1>2, <1>3

LEMMA TailCurrent ==
  ASSUME StreamInv, Receives, broker' = broker,
         \A i \in 1 .. Len(queue') :
           open_orders'[queue'[i].sym] = open_orders[queue'[i].sym]
  PROVE  UpdatesCurrent'
<1>1. UpdatesCurrent
  BY DEF StreamInv, StreamParts
<1>2. /\ \A i \in 1 .. Len(queue') : i + 1 \in 1 .. Len(queue)
                                    /\ queue'[i] = queue[i + 1]
      /\ Len(queue) = Len(queue') + 1 /\ Len(queue') \in Nat
  BY StreamReceives
<1> SUFFICES ASSUME NEW i \in 1 .. Len(queue')
             PROVE  /\ open_orders'[queue'[i].sym] = queue'[i].order
                    /\ queue'[i].event \in {"partial_fill", "fill", "canceled"}
                    /\ queue'[i].qty = 0 <=> queue'[i].event = "canceled"
                    /\ queue'[i].event # "partial_fill" =>
                         /\ broker'[queue'[i].order].status \notin {"live", "pending_cancel"}
                         /\ \A k \in i + 1 .. Len(queue') :
                              queue'[k].order # queue'[i].order
  BY DEF UpdatesCurrent, Working
<1>3. i + 1 \in 1 .. Len(queue) /\ queue'[i] = queue[i + 1]
  BY <1>2
<1>4. \A k \in i + 1 .. Len(queue') :
        k + 1 \in (i + 1) + 1 .. Len(queue) /\ queue'[k] = queue[k + 1]
  BY <1>2
<1>5. queue'[i].event # "partial_fill" =>
        /\ broker'[queue'[i].order].status \notin {"live", "pending_cancel"}
        /\ \A k \in i + 1 .. Len(queue') : queue'[k].order # queue'[i].order
  <2> SUFFICES ASSUME queue'[i].event # "partial_fill"
               PROVE  /\ broker'[queue'[i].order].status \notin {"live", "pending_cancel"}
                      /\ \A k \in i + 1 .. Len(queue') :
                           queue'[k].order # queue'[i].order
    OBVIOUS
  <2>1. /\ ~Working(queue[i + 1].order)
        /\ \A k \in (i + 1) + 1 .. Len(queue) : queue[k].order # queue[i + 1].order
    BY <1>1, <1>3 DEF UpdatesCurrent
  <2>2. broker'[queue'[i].order].status \notin {"live", "pending_cancel"}
    BY <1>3, <2>1 DEF Working
  <2> QED  BY <1>3, <1>4, <2>1, <2>2
<1> QED  BY <1>1, <1>3, <1>5 DEF UpdatesCurrent

\* The order of a symbol is dropped once the broker has ended it.
LEMMA Unfollows ==
  ASSUME StreamInv, NEW s \in Symbols, NEW o \in OrderIds, open_orders[s] = o,
         ~Working(o), open_orders' = [open_orders EXCEPT ![s] = None],
         UNCHANGED <<broker, counted, runAllTodo>>
  PROVE  /\ OrdersBegun' /\ WorkingFollowed' /\ ChosenAreFree'
         /\ \A z \in Symbols : z # s => open_orders'[z] = open_orders[z]
         /\ BookStep
<1>1. /\ o \in Placed /\ broker[o].sym = s /\ \A z \in Symbols : open_orders[z] = o => z = s
      /\ None \notin OrderIds
  BY FollowedHasStrategy, StreamTypes
<1>2. \A z \in Symbols : open_orders'[z] = IF z = s THEN None ELSE open_orders[z]
  BY StreamTypes
<1>3. OrdersBegun'
  BY DEF StreamInv, StreamParts, OrdersBegun
<1>4. WorkingFollowed'
  <2> SUFFICES ASSUME NEW p \in OrderIds, Working(p)' PROVE open_orders'[broker'[p].sym] = p
    BY DEF WorkingFollowed
  <2>1. Working(p) /\ broker'[p].sym = broker[p].sym /\ p # o
    BY DEF Working
  <2>2. open_orders[broker[p].sym] = p /\ broker[p].sym \in Symbols
    BY <2>1 DEF StreamInv, StreamParts, WorkingFollowed, Working, TrackingInv, TypeInv,
                OrdersPlaced
  <2> QED  BY <1>2, <2>1, <2>2
<1>5. ChosenAreFree'
  <2> SUFFICES ASSUME NEW st \in RunAllStrategies, NEW z \in runAllTodo[st]
               PROVE  open_orders'[z] = None
    BY DEF ChosenAreFree
  <2>1. z \in Symbols /\ open_orders[z] = None
    BY StreamTypes DEF StreamInv, StreamParts, ChosenAreFree
  <2> QED  BY <1>2, <2>1
<1>6. o \in Followed /\ o \in Closing
  <2>1. broker[o] \in BrokerOrder /\ broker[o].status # "unused"
    BY <1>1, StreamTypes DEF Placed
  <2>2. broker[o].status \in {"filled", "canceled"}
    BY <2>1 DEF BrokerOrder, Working
  <2> QED  BY <2>2 DEF Followed, Closing
<1>7. Followed' = Followed \ {o}
  BY <1>1, <1>2 DEF Followed
<1>8. UNCHANGED <<Placed, Closing, Quantities>>
  BY DEF Placed, Closing, Quantities
<1>9. Book!Forget(o)
  BY <1>6, <1>7, <1>8 DEF Book!Forget, Placed, Closing, Followed, Quantities
<1> QED  BY <1>2, <1>3, <1>4, <1>5, <1>9 DEF BookStep, Book!BookNext

\* A step that leaves orders and their symbols alone.
LEMMA NothingForTheStream ==
  ASSUME StreamInv, UNCHANGED <<open_orders, broker, runAllTodo>>
  PROVE  /\ OrdersBegun' /\ WorkingFollowed' /\ ChosenAreFree'
         /\ UNCHANGED <<Placed, Closing, Followed, Quantities>>
  BY DEF StreamInv, StreamParts, OrdersBegun, WorkingFollowed, Working, ChosenAreFree,
         Placed, Closing, Followed, Quantities

\* A fill is counted: its shares move from the queue or the callback into the
\* position, and are no more than were executed.
LEMMA CountsFill ==
  ASSUME StreamInv, NEW j \in Job, CountFill("qc", j), j.after = "idle",
         open_orders[j.sym] = j.order, j.qty # 0,
         counted[j.order] + j.qty <= broker[j.order].filled,
         j.fill => /\ ~Working(j.order)
                   /\ \A i \in 1 .. Len(queue') : queue'[i].order # j.order,
         UNCHANGED <<open_orders, open_order_strategy, broker, runAllTodo>>
  PROVE  /\ HandlesUpdates' /\ FillCurrent' /\ BookStep
         /\ \A o \in OrderIds : /\ counted'[o] = counted[o] + Share(j, o)
                                /\ InCallback(o)' = 0
<1>1. /\ j.sym \in Symbols /\ j.order \in OrderIds /\ j.qty \in Nat
      /\ open_order_strategy[j.sym] # None
  BY FollowedHasStrategy, OrderQtyAssumption DEF Job
<1>2. Suspend("qc", "save", j) /\ counted' = [counted EXCEPT ![j.order] = @ + j.qty]
  BY <1>1 DEF CountFill
<1>3. pc'["qc"] = "save" /\ job'["qc"] = j /\ pc'["clo"] = pc["clo"]
  BY <1>2, StreamTypes DEF Suspend
<1>4. \A o \in OrderIds : counted'[o] = counted[o] + Share(j, o)
  BY <1>1, <1>2, StreamTypes DEF Share
<1>5. \A o \in OrderIds : InCallback(o)' = 0
  BY <1>3 DEF InCallback
<1>6. HandlesUpdates'
  BY <1>3 DEF StreamInv, StreamParts, HandlesUpdates
<1>7. FillCurrent'
  BY <1>3 DEF FillCurrent, Working
<1>8. Book!Account(j.order)
  <2>1. UNCHANGED <<Placed, Closing, Followed, Quantities>>
    BY NothingForTheStream
  <2>2. PICK n : n = counted[j.order] + j.qty
    OBVIOUS
  <2>3. broker[j.order].filled \in Nat /\ counted[j.order] \in Nat
    BY <1>1, StreamTypes DEF BrokerOrder
  <2>4. n \in counted[j.order] + 1 .. broker[j.order].filled
    BY <1>1, <2>2, <2>3
  <2>5. counted' = [counted EXCEPT ![j.order] = n]
    BY <1>2, <2>2
  <2>6. Quantities[j.order] = broker[j.order].filled
    BY <1>1 DEF Quantities
  <2> QED  BY <2>1, <2>4, <2>5, <2>6
           DEF Book!Account, Placed, Closing, Followed, Quantities
<1> QED  BY <1>1, <1>4, <1>5, <1>6, <1>7, <1>8 DEF BookStep, Book!BookNext

\* What is executed, counted, in a callback and in the queue, in numbers.
LEMMA SharesInNumbers ==
  ASSUME StreamInv, NEW o \in OrderIds
  PROVE  /\ counted[o] \in Nat /\ InCallback(o) \in Nat /\ Reported(queue, o) \in Nat
         /\ broker[o].filled \in Nat
         /\ counted[o] + InCallback(o) + Reported(queue, o) = broker[o].filled
<1>1. /\ counted[o] \in Nat /\ broker[o].filled \in Nat /\ queue \in Seq(Update)
  BY StreamTypes DEF BrokerOrder
<1>2. InCallback(o) \in Nat
  <2>1. pc["qc"] = "callback" => job["qc"].qty \in Nat
    BY StreamTypes DEF Job
  <2> QED  BY <2>1 DEF InCallback
<1>3. counted[o] + InCallback(o) + Queued(o) = broker[o].filled
  BY DEF StreamInv, StreamParts, NothingForgotten
<1> QED  BY <1>1, <1>2, <1>3, QueuedReported, ReportedNat

\* An update ends the following of its order.
LEMMA OrderEndsStep ==
  ASSUME StreamInv, OrderEnds
  PROVE  StreamParts' /\ BookStep
<1>1. PICK u : u = Head(queue)
  OBVIOUS
<1>2. /\ Receives /\ u.event \in {"canceled", "other"}
      /\ open_orders' = [open_orders EXCEPT ![u.sym] = None]
      /\ UNCHANGED <<counted, pc, job, runAllTodo, broker>>
  BY <1>1 DEF OrderEnds, control
<1>3. /\ u \in Update /\ u = queue[1] /\ 1 \in 1 .. Len(queue) /\ pc["qc"] = "idle"
      /\ \A i \in 1 .. Len(queue') : i + 1 \in 1 .. Len(queue) /\ queue'[i] = queue[i + 1]
      /\ Len(queue) = Len(queue') + 1
      /\ \A o : Queued(o) = Share(u, o) + Reported(queue', o)
  BY <1>1, <1>2, StreamReceives
<1>4. u.sym \in Symbols /\ u.order \in OrderIds /\ open_orders[u.sym] = u.order
  BY <1>3 DEF Update, StreamInv, StreamParts, UpdatesCurrent
<1>5. /\ u.event = "canceled" /\ u.qty = 0 /\ ~Working(u.order)
      /\ \A k \in 1 + 1 .. Len(queue) : queue[k].order # u.order
  BY <1>2, <1>3 DEF StreamInv, StreamParts, UpdatesCurrent
<1>6. /\ OrdersBegun' /\ WorkingFollowed' /\ ChosenAreFree' /\ BookStep
      /\ \A z \in Symbols : z # u.sym => open_orders'[z] = open_orders[z]
  BY <1>2, <1>4, <1>5, Unfollows
<1>7. UpdatesCurrent'
  <2>1. ASSUME NEW i \in 1 .. Len(queue')
        PROVE  open_orders'[queue'[i].sym] = open_orders[queue'[i].sym]
    <3>1. i + 1 \in 1 + 1 .. Len(queue) /\ queue'[i] = queue[i + 1] /\ i + 1 \in 1 .. Len(queue)
      BY <1>3
    <3>2. open_orders[queue'[i].sym] = queue'[i].order /\ queue'[i].order # u.order
      BY <1>5, <3>1 DEF StreamInv, StreamParts, UpdatesCurrent
    <3>3. queue'[i].sym \in Symbols
      <4>1. queue[i + 1] \in Update
        BY <3>1, StreamTypes
      <4> QED  BY <3>1, <4>1 DEF Update
    <3> QED  BY <1>4, <1>6, <3>2, <3>3
  <2> QED  BY <1>2, <2>1, TailCurrent
<1>8. HandlesUpdates' /\ FillCurrent'
  BY <1>2, <1>3 DEF StreamInv, StreamParts, HandlesUpdates, FillCurrent
<1>9. NothingForgotten'
  <2> SUFFICES ASSUME NEW o \in OrderIds
               PROVE  counted'[o] + InCallback(o)' + Queued(o)' = broker'[o].filled
    BY DEF NothingForgotten
  <2>1. InCallback(o)' = InCallback(o)
    BY <1>2 DEF InCallback
  <2>2. Share(u, o) = 0
    BY <1>5 DEF Share
  <2>3. Queued(o)' = Reported(queue', o) /\ Queued(o) = Reported(queue, o)
    BY QueuedNext, QueuedReported
  <2>4. Reported(queue', o) \in Nat
    BY <1>2, StreamReceives, ReportedNat
  <2>5. Queued(o) = Queued(o)'
    BY <1>3, <2>2, <2>3, <2>4
  <2>6. counted[o] + InCallback(o) + Queued(o) = broker[o].filled
    BY DEF StreamInv, StreamParts, NothingForgotten
  <2> QED  BY <1>2, <2>1, <2>5, <2>6
<1> QED  BY <1>6, <1>7, <1>8, <1>9 DEF StreamParts

\* An update brings a fill of the order of its symbol.
LEMMA UpdateFillsStep ==
  ASSUME StreamInv, UpdateFills
  PROVE  StreamParts' /\ BookStep
<1>1. PICK u : u = Head(queue)
  OBVIOUS
<1>2. PICK j : j = [order |-> u.order, sym |-> u.sym, qty |-> u.qty,
                    fill |-> u.event = "fill", after |-> "idle"]
  OBVIOUS
<1>3. /\ Receives /\ u.event \in {"partial_fill", "fill"} /\ BeginFill("qc", j)
      /\ UNCHANGED <<open_orders, open_order_strategy, runAllTodo, broker>>
  BY <1>1, <1>2 DEF UpdateFills
<1>4. /\ u \in Update /\ u = queue[1] /\ 1 \in 1 .. Len(queue) /\ pc["qc"] = "idle"
      /\ \A i \in 1 .. Len(queue') : i + 1 \in 1 .. Len(queue) /\ queue'[i] = queue[i + 1]
      /\ Len(queue) = Len(queue') + 1 /\ queue' \in Seq(Update)
      /\ \A o : Queued(o) = Share(u, o) + Reported(queue', o)
  BY <1>1, <1>3, StreamReceives
<1>5. /\ j \in Job /\ j.order = u.order /\ j.sym = u.sym /\ j.qty = u.qty
      /\ j.after = "idle" /\ (j.fill <=> u.event = "fill")
  BY <1>2, <1>4 DEF Job, Update
<1>6. /\ u.sym \in Symbols /\ u.order \in OrderIds /\ u.qty \in Nat
      /\ open_orders[u.sym] = u.order /\ u.qty # 0
  BY <1>3, <1>4, OrderQtyAssumption DEF Update, StreamInv, StreamParts, UpdatesCurrent
<1>7. j.fill => /\ ~Working(j.order)
                /\ \A i \in 1 .. Len(queue') : queue'[i].order # j.order
  <2> SUFFICES ASSUME j.fill
               PROVE  /\ ~Working(u.order)
                      /\ \A i \in 1 .. Len(queue') : queue'[i].order # u.order
    BY <1>5
  <2>1. /\ ~Working(u.order)
        /\ \A k \in 1 + 1 .. Len(queue) : queue[k].order # u.order
    BY <1>4, <1>5 DEF StreamInv, StreamParts, UpdatesCurrent
  <2>2. \A i \in 1 .. Len(queue') : i + 1 \in 1 + 1 .. Len(queue)
    BY <1>4
  <2> QED  BY <1>4, <2>1, <2>2
<1>8. open_order_strategy[j.sym] # None
  BY <1>5, <1>6, FollowedHasStrategy
<1>9. /\ OrdersBegun' /\ WorkingFollowed' /\ ChosenAreFree' /\ UpdatesCurrent'
      /\ UNCHANGED <<Placed, Closing, Followed, Quantities>>
  BY <1>3, NothingForTheStream, TailCurrent
<1>10. ASSUME NEW o \in OrderIds
       PROVE  /\ Queued(o)' = Reported(queue', o) /\ Reported(queue', o) \in Nat
              /\ counted[o] \in Nat /\ Share(j, o) \in Nat /\ broker[o].filled \in Nat
              /\ counted[o] + Share(j, o) + Reported(queue', o) = broker[o].filled
              /\ InCallback(o) = 0
  <2>1. Queued(o)' = Reported(queue', o) /\ Queued(o) = Reported(queue, o)
    BY QueuedNext, QueuedReported
  <2>2. Reported(queue', o) \in Nat
    BY <1>4, ReportedNat
  <2>3. InCallback(o) = 0
    BY <1>4 DEF InCallback
  <2>4. Share(j, o) = Share(u, o) /\ Share(u, o) \in Nat
    BY <1>5, <1>6 DEF Share
  <2>5. /\ counted[o] \in Nat /\ broker[o].filled \in Nat
        /\ counted[o] + InCallback(o) + Reported(queue, o) = broker[o].filled
    BY SharesInNumbers
  <2>6. Reported(queue, o) = Share(u, o) + Reported(queue', o)
    BY <1>4, <2>1
  <2>7. counted[o] + Share(j, o) + Reported(queue', o) = broker[o].filled
    BY <2>2, <2>3, <2>4, <2>5, <2>6
  <2> QED  BY <2>1, <2>2, <2>3, <2>4, <2>5, <2>7
<1>11. CASE CallbackSuspends
  <2>1. Suspend("qc", "callback", j) /\ counted' = counted
    BY <1>3, <1>8, <1>11 DEF BeginFill
  <2>2. pc'["qc"] = "callback" /\ job'["qc"] = j /\ pc'["clo"] = pc["clo"]
    BY <2>1, StreamTypes DEF Suspend
  <2>3. HandlesUpdates' /\ FillCurrent'
    BY <1>3, <1>5, <1>6, <1>7, <2>2
    DEF StreamInv, StreamParts, HandlesUpdates, FillCurrent, Working
  <2>4. NothingForgotten'
    <3> SUFFICES ASSUME NEW o \in OrderIds
                 PROVE  counted'[o] + InCallback(o)' + Queued(o)' = broker'[o].filled
      BY DEF NothingForgotten
    <3>1. InCallback(o)' = Share(j, o)
      BY <2>2 DEF InCallback, Share
    <3> QED  BY <1>3, <1>10, <2>1, <3>1
  <2>5. BookStep
    BY <1>9, <2>1 DEF BookStep, Stutters
  <2> QED  BY <1>9, <2>3, <2>4, <2>5 DEF StreamParts
<1>12. CASE ~CallbackSuspends
  <2>1. CountFill("qc", j)
    BY <1>3, <1>8, <1>12 DEF BeginFill
  <2>2. counted[j.order] + j.qty <= broker[j.order].filled
    <3>1. Share(j, j.order) = j.qty /\ j.order \in OrderIds
      BY <1>5, <1>6 DEF Share
    <3>2. /\ Reported(queue', j.order) \in Nat
          /\ counted[j.order] \in Nat /\ j.qty \in Nat /\ broker[j.order].filled \in Nat
          /\ counted[j.order] + j.qty + Reported(queue', j.order) = broker[j.order].filled
      BY <1>10, <3>1
    <3> QED  BY <3>2
  <2>3. /\ HandlesUpdates' /\ FillCurrent' /\ BookStep
        /\ \A o \in OrderIds : /\ counted'[o] = counted[o] + Share(j, o)
                               /\ InCallback(o)' = 0
    BY <1>3, <1>5, <1>6, <1>7, <2>1, <2>2, CountsFill
  <2>4. NothingForgotten'
    <3> SUFFICES ASSUME NEW o \in OrderIds
                 PROVE  counted'[o] + InCallback(o)' + Queued(o)' = broker'[o].filled
      BY DEF NothingForgotten
    <3> QED  BY <1>3, <1>10, <2>3
  <2> QED  BY <1>9, <2>3, <2>4 DEF StreamParts
<1> QED  BY <1>11, <1>12

\* The strategy's callback returns, and the fill is counted.
LEMMA CallbackStep ==
  ASSUME StreamInv, CallbackReturns("qc")
  PROVE  StreamParts' /\ BookStep
<1>1. PICK j : j = job["qc"]
  OBVIOUS
<1>2. /\ pc["qc"] = "callback" /\ CountFill("qc", j)
      /\ UNCHANGED <<open_orders, open_order_strategy, broker, runAllTodo, queue>>
  BY <1>1 DEF CallbackReturns
<1>3. /\ j \in Job /\ j.after = "idle" /\ open_orders[j.sym] = j.order /\ j.qty # 0
      /\ j.fill => /\ ~Working(j.order)
                   /\ \A i \in 1 .. Len(queue') : queue'[i].order # j.order
  BY <1>1, <1>2, StreamTypes DEF StreamInv, StreamParts, HandlesUpdates, FillCurrent
<1>4. j.order \in OrderIds /\ j.qty \in Nat
  BY <1>3, OrderQtyAssumption DEF Job
<1>5. \A o \in OrderIds : InCallback(o) = Share(j, o)
  BY <1>1, <1>2 DEF InCallback, Share
<1>6. counted[j.order] + j.qty <= broker[j.order].filled
  <2>1. InCallback(j.order) = j.qty
    BY <1>4, <1>5 DEF Share
  <2>2. /\ counted[j.order] \in Nat /\ Reported(queue, j.order) \in Nat
        /\ counted[j.order] + j.qty + Reported(queue, j.order) = broker[j.order].filled
        /\ broker[j.order].filled \in Nat
    BY <1>4, <2>1, SharesInNumbers
  <2> QED  BY <1>4, <2>2
<1>7. /\ HandlesUpdates' /\ FillCurrent' /\ BookStep
      /\ \A o \in OrderIds : /\ counted'[o] = counted[o] + Share(j, o)
                             /\ InCallback(o)' = 0
  BY <1>2, <1>3, <1>6, CountsFill
<1>8. OrdersBegun' /\ WorkingFollowed' /\ ChosenAreFree'
  BY <1>2, NothingForTheStream
<1>9. UpdatesCurrent'
  BY <1>2 DEF StreamInv, StreamParts, UpdatesCurrent, Working
<1>10. NothingForgotten'
  <2> SUFFICES ASSUME NEW o \in OrderIds
               PROVE  counted'[o] + InCallback(o)' + Queued(o)' = broker'[o].filled
    BY DEF NothingForgotten
  <2>1. Queued(o)' = Reported(queue, o)
    BY <1>2, QueuedNext
  <2>2. /\ counted[o] \in Nat /\ InCallback(o) \in Nat /\ Reported(queue, o) \in Nat
        /\ counted[o] + InCallback(o) + Reported(queue, o) = broker[o].filled
    BY SharesInNumbers
  <2> QED  BY <1>2, <1>5, <1>7, <2>1, <2>2
<1> QED  BY <1>7, <1>8, <1>9, <1>10 DEF StreamParts

\* The row of a fill is written; a complete fill ends the following.
LEMMA SaveTradeStep ==
  ASSUME StreamInv, SaveTrade("qc")
  PROVE  StreamParts' /\ BookStep
<1>1. PICK j : j = job["qc"]
  OBVIOUS
<1>2. /\ pc["qc"] = "save" /\ Return("qc", j)
      /\ IF j.fill /\ open_orders[j.sym] # None
         THEN open_orders' = [open_orders EXCEPT ![j.sym] = None]
         ELSE UNCHANGED open_orders
      /\ UNCHANGED <<counted, broker, runAllTodo, queue>>
  BY <1>1 DEF SaveTrade
<1>3. /\ j \in Job /\ j.after = "idle" /\ open_orders[j.sym] = j.order
      /\ j.fill => /\ ~Working(j.order)
                   /\ \A i \in 1 .. Len(queue) : queue[i].order # j.order
  BY <1>1, <1>2, StreamTypes DEF StreamInv, StreamParts, HandlesUpdates, FillCurrent
<1>4. j.order \in OrderIds /\ j.sym \in Symbols /\ j.order # None
  BY <1>3, StreamTypes DEF Job
<1>5. pc'["qc"] = "idle" /\ pc'["clo"] = pc["clo"]
  BY <1>2, <1>3, StreamTypes DEF Return
<1>6. HandlesUpdates' /\ FillCurrent'
  BY <1>5 DEF StreamInv, StreamParts, HandlesUpdates, FillCurrent
<1>7. NothingForgotten'
  <2> SUFFICES ASSUME NEW o \in OrderIds
               PROVE  counted'[o] + InCallback(o)' + Queued(o)' = broker'[o].filled
    BY DEF NothingForgotten
  <2>1. Queued(o)' = Reported(queue, o)
    BY <1>2, QueuedNext
  <2>2. InCallback(o)' = 0 /\ InCallback(o) = 0
    BY <1>2, <1>5 DEF InCallback
  <2> QED  BY <1>2, <2>1, <2>2, SharesInNumbers
<1>8. CASE j.fill
  <2>1. open_orders' = [open_orders EXCEPT ![j.sym] = None] /\ ~Working(j.order)
    BY <1>2, <1>3, <1>4, <1>8
  <2>2. /\ OrdersBegun' /\ WorkingFollowed' /\ ChosenAreFree' /\ BookStep
        /\ \A z \in Symbols : z # j.sym => open_orders'[z] = open_orders[z]
    BY <1>2, <1>3, <1>4, <2>1, Unfollows
  <2>3. \A i \in 1 .. Len(queue) : open_orders'[queue[i].sym] = open_orders[queue[i].sym]
    <3> SUFFICES ASSUME NEW i \in 1 .. Len(queue)
                 PROVE  open_orders'[queue[i].sym] = open_orders[queue[i].sym]
      OBVIOUS
    <3>1. open_orders[queue[i].sym] = queue[i].order /\ queue[i].order # j.order
      BY <1>3, <1>8 DEF StreamInv, StreamParts, UpdatesCurrent
    <3>2. queue[i].sym \in Symbols
      <4>1. queue[i] \in Update
        BY StreamTypes
      <4> QED  BY <4>1 DEF Update
    <3> QED  BY <1>3, <2>2, <3>1, <3>2
  <2>4. UpdatesCurrent'
    BY <1>2, <2>3 DEF StreamInv, StreamParts, UpdatesCurrent, Working
  <2> QED  BY <1>6, <1>7, <2>2, <2>4 DEF StreamParts
<1>9. CASE ~j.fill
  <2>1. UNCHANGED <<open_orders, counted, broker, runAllTodo, queue>>
    BY <1>2, <1>9
  <2>2. /\ OrdersBegun' /\ WorkingFollowed' /\ ChosenAreFree'
        /\ UNCHANGED <<Placed, Closing, Followed, Quantities>>
    BY <2>1, NothingForTheStream
  <2>3. UpdatesCurrent'
    BY <2>1 DEF StreamInv, StreamParts, UpdatesCurrent, Working
  <2> QED  BY <1>6, <1>7, <2>1, <2>2, <2>3 DEF StreamParts, BookStep, Stutters
<1> QED  BY <1>8, <1>9

\* The broker tells of an execution, or of the end, of an order that worked.
LEMMA BrokerTells ==
  ASSUME StreamInv, NEW o \in OrderIds, Working(o), NEW u \in Update,
         u.order = o, u.sym = broker[o].sym, queue' = Append(queue, u),
         u.event \in {"partial_fill", "fill", "canceled"},
         u.qty = 0 <=> u.event = "canceled",
         u.event # "partial_fill" => ~Working(o)',
         \A p \in OrderIds : p # o => broker'[p] = broker[p],
         broker'[o].sym = broker[o].sym, broker'[o].by = broker[o].by,
         broker'[o].status # "unused",
         broker'[o].filled = broker[o].filled + u.qty,
         UNCHANGED <<open_orders, counted, pc, job, runAllTodo>>
  PROVE  StreamParts'
<1>1. /\ broker[o].status # "unused" /\ broker[o].sym \in Symbols
      /\ open_orders[broker[o].sym] = o
  BY DEF Working, StreamInv, StreamParts, WorkingFollowed, TrackingInv, TypeInv,
         OrdersPlaced
<1>2. \A p \in OrderIds : Working(p)' => Working(p) /\ broker'[p].sym = broker[p].sym
  BY DEF Working
<1>3. WorkingFollowed'
  BY <1>2 DEF StreamInv, StreamParts, WorkingFollowed
<1>4. HandlesUpdates' /\ ChosenAreFree'
  BY DEF StreamInv, StreamParts, HandlesUpdates, ChosenAreFree
<1>5. OrdersBegun'
  BY <1>1 DEF StreamInv, StreamParts, OrdersBegun
<1>6. /\ Len(queue) \in Nat /\ Len(queue') = Len(queue) + 1
      /\ \A i \in 1 .. Len(queue) : queue'[i] = queue[i]
      /\ queue'[Len(queue) + 1] = u
      /\ \A i \in 1 .. Len(queue) : queue[i].order \in OrderIds
  <2>1. queue \in Seq(Update)
    BY StreamTypes
  <2>2. \A i \in 1 .. Len(queue) : queue[i].order \in OrderIds
    <3>1. \A i \in 1 .. Len(queue) : queue[i] \in Update
      BY <2>1
    <3> QED  BY <3>1 DEF Update
  <2> QED  BY <2>1, <2>2
\* The updates before it are partial fills, or of other orders.
<1>7. ASSUME NEW i \in 1 .. Len(queue), queue[i].event # "partial_fill"
      PROVE  queue[i].order # o
  BY <1>7 DEF StreamInv, StreamParts, UpdatesCurrent
<1>8. UpdatesCurrent'
  <2> SUFFICES ASSUME NEW i \in 1 .. Len(queue')
               PROVE  /\ open_orders'[queue'[i].sym] = queue'[i].order
                      /\ queue'[i].event \in {"partial_fill", "fill", "canceled"}
                      /\ queue'[i].qty = 0 <=> queue'[i].event = "canceled"
                      /\ queue'[i].event # "partial_fill" =>
                           /\ broker'[queue'[i].order].status
                                \notin {"live", "pending_cancel"}
                           /\ \A k \in i + 1 .. Len(queue') :
                                queue'[k].order # queue'[i].order
    BY DEF UpdatesCurrent, Working
  <2>1. CASE i = Len(queue) + 1
    <3>1. queue'[i] = u /\ ~\E k \in i + 1 .. Len(queue') : TRUE
      BY <1>6, <2>1
    <3> QED  BY <1>1, <3>1 DEF Working
  <2>2. CASE i \in 1 .. Len(queue)
    <3>1. queue'[i] = queue[i] /\ queue[i].order \in OrderIds
      BY <1>6, <2>2
    <3>2. /\ open_orders[queue[i].sym] = queue[i].order
          /\ queue[i].event \in {"partial_fill", "fill", "canceled"}
          /\ queue[i].qty = 0 <=> queue[i].event = "canceled"
      BY <2>2 DEF StreamInv, StreamParts, UpdatesCurrent
    <3>3. ASSUME queue[i].event # "partial_fill"
          PROVE  /\ broker'[queue[i].order].status \notin {"live", "pending_cancel"}
                 /\ \A k \in i + 1 .. Len(queue') : queue'[k].order # queue[i].order
      <4>1. queue[i].order # o
        BY <1>7, <2>2, <3>3
      <4>2. /\ ~Working(queue[i].order)
            /\ \A k \in i + 1 .. Len(queue) : queue[k].order # queue[i].order
        BY <2>2, <3>3 DEF StreamInv, StreamParts, UpdatesCurrent
      <4>3. ASSUME NEW k \in i + 1 .. Len(queue') PROVE queue'[k].order # queue[i].order
        <5>1. CASE k = Len(queue) + 1
          BY <1>6, <4>1, <5>1
        <5>2. CASE k # Len(queue) + 1
          <6>1. k \in i + 1 .. Len(queue) + 1 /\ i \in Nat /\ Len(queue) \in Nat
            BY <1>6, <2>2
          <6>2. k \in i + 1 .. Len(queue) /\ k \in 1 .. Len(queue)
            BY <5>2, <6>1, <2>2
          <6> QED  BY <1>6, <4>2, <6>2
        <5> QED  BY <5>1, <5>2
      <4> QED  BY <3>1, <4>1, <4>2, <4>3 DEF Working
    <3> QED  BY <3>1, <3>2, <3>3
  <2> QED  BY <1>6, <2>1, <2>2
<1>9. FillCurrent'
  <2> SUFFICES ASSUME pc["qc"] # "idle"
               PROVE  /\ open_orders[job["qc"].sym] = job["qc"].order
                      /\ job["qc"].qty # 0
                      /\ job["qc"].fill =>
                           /\ broker'[job["qc"].order].status
                                \notin {"live", "pending_cancel"}
                           /\ \A i \in 1 .. Len(queue') :
                                queue'[i].order # job["qc"].order
    BY DEF FillCurrent, Working
  <2>1. /\ open_orders[job["qc"].sym] = job["qc"].order
        /\ job["qc"].qty # 0
        /\ job["qc"].fill =>
             /\ ~Working(job["qc"].order)
             /\ \A i \in 1 .. Len(queue) : queue[i].order # job["qc"].order
    BY DEF StreamInv, StreamParts, FillCurrent
  <2>2. job["qc"].order \in OrderIds
    BY StreamTypes DEF Job
  <2>3. ASSUME job["qc"].fill
        PROVE  /\ broker'[job["qc"].order].status \notin {"live", "pending_cancel"}
               /\ \A i \in 1 .. Len(queue') : queue'[i].order # job["qc"].order
    <3>1. job["qc"].order # o
      BY <2>1, <2>3
    <3>2. \A i \in 1 .. Len(queue') : i \in 1 .. Len(queue) \/ i = Len(queue) + 1
      BY <1>6
    <3> QED  BY <1>6, <2>1, <2>2, <2>3, <3>1, <3>2 DEF Working
  <2> QED  BY <2>1, <2>3
<1>10. NothingForgotten'
  <2> SUFFICES ASSUME NEW p \in OrderIds
               PROVE  counted'[p] + InCallback(p)' + Queued(p)' = broker'[p].filled
    BY DEF NothingForgotten
  <2>1. Queued(p)' = Reported(queue, p) + Share(u, p)
    <3>1. Reported(queue', p) = Reported(queue, p) + Share(u, p)
      BY StreamTypes, ReportedAppend
    <3> QED  BY <3>1, QueuedNext
  <2>2. InCallback(p)' = InCallback(p)
    BY DEF InCallback
  <2>3. Share(u, p) = IF p = o THEN u.qty ELSE 0
    BY DEF Share
  <2>4. u.qty \in Nat
    BY OrderQtyAssumption DEF Update
  <2>5. broker'[p].filled = broker[p].filled + Share(u, p)
    <3>1. broker[p].filled \in Nat
      BY SharesInNumbers
    <3> QED  BY <2>3, <2>4, <3>1
  <2>6. Share(u, p) \in Nat
    BY <2>3, <2>4
  <2>7. /\ counted[p] \in Nat /\ InCallback(p) \in Nat /\ Reported(queue, p) \in Nat
        /\ counted[p] + InCallback(p) + Reported(queue, p) = broker[p].filled
    BY SharesInNumbers
  <2>8. counted[p] + InCallback(p) + (Reported(queue, p) + Share(u, p))
          = broker[p].filled + Share(u, p)
    BY <2>6, <2>7
  <2> QED  BY <2>1, <2>2, <2>5, <2>8
<1> QED  BY <1>3, <1>4, <1>5, <1>8, <1>9, <1>10 DEF StreamParts

LEMMA BrokerFillsStep ==
  ASSUME StreamInv, StreamAlone, NEW o \in OrderIds, NEW q \in 1 .. OrderQty,
         BrokerFills(o, q)
  PROVE  StreamParts' /\ BookStep
<1>1. PICK total : total = broker[o].filled + q
  OBVIOUS
<1>2. PICK u : u = [order |-> o, sym |-> broker[o].sym, qty |-> q,
                    event |-> IF total = OrderQty THEN "fill" ELSE "partial_fill"]
  OBVIOUS
<1>3. /\ Working(o) /\ total <= OrderQty
      /\ broker' = [broker EXCEPT ![o] = Executed(o, total)]
      /\ Send(o, u.event, q)
      /\ UNCHANGED <<open_orders, counted, pc, job, runAllTodo>>
  BY <1>1, <1>2 DEF BrokerFills, data, control
<1>4. broker[o] \in BrokerOrder /\ broker[o].filled \in Nat /\ total \in Nat
      /\ total > broker[o].filled /\ q \in 0 .. OrderQty /\ q # 0
      /\ OrderQty \in Nat \ {0}
  BY <1>1, StreamTypes DEF BrokerOrder
<1>5. broker[o].status # "unused" /\ broker[o].sym \in Symbols
  BY <1>3 DEF Working, StreamInv, TrackingInv, TypeInv, OrdersPlaced
<1>6. /\ u \in Update /\ u.order = o /\ u.sym = broker[o].sym /\ u.qty = q
      /\ u.event = IF total = OrderQty THEN "fill" ELSE "partial_fill"
  BY <1>2, <1>4, <1>5 DEF Update
<1>7. queue' = Append(queue, u)
  <2>1. "stream" \in Sources /\ ~(lost < MaxLost)
    BY DEF StreamAlone, StreamInv, TrackingInv, TypeInv, TypeOK
  <2> QED  BY <1>2, <1>3, <1>6, <2>1 DEF Send
<1>8. /\ \A p \in OrderIds : p # o => broker'[p] = broker[p]
      /\ broker'[o].sym = broker[o].sym /\ broker'[o].by = broker[o].by
      /\ broker'[o].filled = total
      /\ broker'[o].status = IF total = OrderQty THEN "filled" ELSE broker[o].status
  BY <1>3, <1>4, StreamTypes DEF Executed, BrokerOrder
<1>9. StreamParts'
  <2>1. broker'[o].filled = broker[o].filled + u.qty
    BY <1>1, <1>6, <1>8
  <2>2. u.event # "partial_fill" => ~Working(o)'
    BY <1>6, <1>8 DEF Working
  <2>3. u.event \in {"partial_fill", "fill", "canceled"} /\ u.event # "canceled"
        /\ u.qty # 0 /\ broker'[o].status # "unused"
    BY <1>4, <1>5, <1>6, <1>8
  <2> QED  BY <1>3, <1>6, <1>7, <1>8, <2>1, <2>2, <2>3, BrokerTells
<1>10. Book!Execute(o)
  <2>1. /\ Placed' = Placed /\ o \in Placed
        /\ Closing' = IF total = OrderQty THEN Closing \cup {o} ELSE Closing
    BY <1>5, <1>8 DEF Placed, Closing
  <2>2. /\ Quantities' = [Quantities EXCEPT ![o] = total]
        /\ Quantities[o] = broker[o].filled
    BY <1>8 DEF Quantities
  <2>3. Followed' = Followed
    BY <1>3 DEF Followed
  <2>4. total \in Quantities[o] + 1 .. OrderQty
    BY <1>3, <1>4, <2>2
  <2> QED  BY <1>3, <2>1, <2>2, <2>3, <2>4 DEF Book!Execute, Placed, Closing, Followed, Quantities
<1> QED  BY <1>9, <1>10 DEF BookStep, Book!BookNext

LEMMA BrokerCancelsStep ==
  ASSUME StreamInv, StreamAlone, NEW o \in OrderIds, BrokerCancels(o)
  PROVE  StreamParts' /\ BookStep
<1>1. PICK u : u = [order |-> o, sym |-> broker[o].sym, qty |-> 0,
                    event |-> "canceled"]
  OBVIOUS
<1>2. /\ Working(o) /\ broker' = [broker EXCEPT ![o].status = "canceled"]
      /\ Send(o, "canceled", 0)
      /\ UNCHANGED <<open_orders, counted, pc, job, runAllTodo>>
  BY DEF BrokerCancels, data, control
<1>3. broker[o].status # "unused" /\ broker[o].sym \in Symbols
  BY <1>2 DEF Working, StreamInv, TrackingInv, TypeInv, OrdersPlaced
<1>4. u \in Update /\ u.order = o /\ u.sym = broker[o].sym /\ u.qty = 0
      /\ u.event = "canceled"
  BY <1>1, <1>3, StreamTypes DEF Update
<1>5. queue' = Append(queue, u)
  <2>1. "stream" \in Sources /\ ~(lost < MaxLost)
    BY DEF StreamAlone, StreamInv, TrackingInv, TypeInv, TypeOK
  <2> QED  BY <1>1, <1>2, <2>1 DEF Send
<1>6. /\ \A p \in OrderIds : p # o => broker'[p] = broker[p]
      /\ broker'[o].sym = broker[o].sym /\ broker'[o].by = broker[o].by
      /\ broker'[o].filled = broker[o].filled /\ broker'[o].status = "canceled"
  BY <1>2, StreamTypes DEF BrokerOrder
<1>7. StreamParts'
  <2>1. broker'[o].filled = broker[o].filled + u.qty
    BY <1>4, <1>6, SharesInNumbers
  <2>2. ~Working(o)' /\ broker'[o].status # "unused"
    BY <1>6 DEF Working
  <2> QED  BY <1>2, <1>4, <1>5, <1>6, <2>1, <2>2, BrokerTells
<1>8. Book!Close(o)
  <2>1. /\ Placed' = Placed /\ o \in Placed /\ Followed' = Followed
        /\ Closing' = Closing \cup {o} /\ Quantities' = Quantities
    BY <1>2, <1>3, <1>6 DEF Placed, Closing, Followed, Quantities
  <2> QED  BY <1>2, <2>1 DEF Book!Close, Placed, Closing, Followed, Quantities
<1> QED  BY <1>7, <1>8 DEF BookStep, Book!BookNext

\* An order is submitted for a symbol that nothing is known of.
LEMMA StreamSubmitStep ==
  ASSUME StreamInv, StreamAlone, NEW st \in RunAllStrategies, NEW s \in Symbols,
         NEW side \in {"buy", "sell"}, RunAllSubmits(st, s, side)
  PROVE  StreamParts' /\ BookStep
<1>1. PICK o \in OrderIds : SubmitOrder(o, s, st, side)
  BY DEF RunAllSubmits
<1>2. /\ UNCHANGED <<counted, pc, job, queue>>
      /\ runAllTodo' = [runAllTodo EXCEPT ![st] = @ \ {s}]
      /\ open_orders[s] = None
  BY DEF RunAllSubmits, StreamInv, StreamParts, ChosenAreFree
<1>3. /\ \A z \in Symbols : open_orders'[z] = IF z = s THEN o ELSE open_orders[z]
      /\ \A p \in OrderIds : p # o => broker'[p] = broker[p]
      /\ broker[o].status = "unused" /\ broker'[o].status = "live"
      /\ broker'[o].filled = 0 /\ broker'[o].by = st /\ broker'[o].sym = s
  BY <1>1, StreamTypes DEF SubmitOrder
<1>4. st \in Strategies /\ None \notin OrderIds /\ OrderQty # 0
  BY NoneAssumption, OrderQtyAssumption DEF Strategies
<1>5. broker[o].filled = 0
  BY <1>3 DEF StreamInv, StreamParts, OrdersBegun
<1>6. HandlesUpdates' /\ OrdersBegun'
  BY <1>2, <1>3, <1>4 DEF StreamInv, StreamParts, HandlesUpdates, OrdersBegun
<1>7. WorkingFollowed'
  <2> SUFFICES ASSUME NEW p \in OrderIds, Working(p)', p # o
               PROVE  open_orders'[broker'[p].sym] = p
    BY <1>3 DEF WorkingFollowed
  <2>1. Working(p) /\ broker'[p].sym = broker[p].sym
    BY <1>3 DEF Working
  <2>2. open_orders[broker[p].sym] = p /\ broker[p].sym \in Symbols
    BY <2>1 DEF StreamInv, StreamParts, WorkingFollowed, Working, TrackingInv, TypeInv,
                OrdersPlaced
  <2> QED  BY <1>2, <1>3, <1>4, <2>1, <2>2
\* What is known of an order stays true of another symbol's.
<1>8. ASSUME NEW z \in Symbols, NEW p \in OrderIds, open_orders[z] = p
      PROVE  open_orders'[z] = p /\ p # o /\ (~Working(p) => ~Working(p)')
  <2>1. p \in Placed
    BY <1>8, FollowedHasStrategy
  <2>2. p # o
    BY <1>3, <2>1 DEF Placed
  <2> QED  BY <1>2, <1>3, <1>4, <1>8, <2>2 DEF Working
<1>9. UpdatesCurrent'
  <2> SUFFICES ASSUME NEW i \in 1 .. Len(queue)
               PROVE  /\ open_orders'[queue[i].sym] = queue[i].order
                      /\ ~Working(queue[i].order) =>
                           broker'[queue[i].order].status \notin {"live", "pending_cancel"}
    BY <1>2 DEF StreamInv, StreamParts, UpdatesCurrent, Working
  <2>1. open_orders[queue[i].sym] = queue[i].order
    BY DEF StreamInv, StreamParts, UpdatesCurrent
  <2>2. queue[i].sym \in Symbols /\ queue[i].order \in OrderIds
    <3>1. queue[i] \in Update
      BY StreamTypes
    <3> QED  BY <3>1 DEF Update
  <2> QED  BY <1>8, <2>1, <2>2 DEF Working
<1>10. FillCurrent'
  <2> SUFFICES ASSUME pc["qc"] # "idle"
               PROVE  /\ open_orders'[job["qc"].sym] = job["qc"].order
                      /\ ~Working(job["qc"].order) =>
                           broker'[job["qc"].order].status
                             \notin {"live", "pending_cancel"}
    BY <1>2 DEF StreamInv, StreamParts, FillCurrent, Working
  <2>1. open_orders[job["qc"].sym] = job["qc"].order
    BY DEF StreamInv, StreamParts, FillCurrent
  <2>2. job["qc"].sym \in Symbols /\ job["qc"].order \in OrderIds
    BY StreamTypes DEF Job
  <2> QED  BY <1>8, <2>1, <2>2 DEF Working
<1>11. ChosenAreFree'
  <2> SUFFICES ASSUME NEW st2 \in RunAllStrategies, NEW z \in runAllTodo'[st2]
               PROVE  open_orders'[z] = None
    BY DEF ChosenAreFree
  <2>1. st2 = st
    BY DEF StreamAlone
  <2>2. z \in runAllTodo[st] /\ z # s /\ z \in Symbols
    BY <1>2, <2>1, StreamTypes
  <2> QED  BY <1>3, <2>2 DEF StreamInv, StreamParts, ChosenAreFree
<1>12. NothingForgotten'
  <2> SUFFICES ASSUME NEW p \in OrderIds
               PROVE  counted'[p] + InCallback(p)' + Queued(p)' = broker'[p].filled
    BY DEF NothingForgotten
  <2>1. Queued(p)' = Reported(queue, p) /\ InCallback(p)' = InCallback(p)
    BY <1>2, QueuedNext DEF InCallback
  <2>2. broker'[p].filled = broker[p].filled
    BY <1>3, <1>5
  <2> QED  BY <1>2, <2>1, <2>2, SharesInNumbers
<1>13. Followed' = Followed \cup {o}
  BY <1>2, <1>3, <1>4 DEF Followed
<1>14. /\ Placed' = Placed \cup {o} /\ o \notin Placed
       /\ Closing' = Closing /\ Quantities' = Quantities
  BY <1>3, <1>5 DEF Placed, Closing, Quantities
<1>15. Book!Submit(o)
  BY <1>2, <1>13, <1>14 DEF Book!Submit, Placed, Closing, Followed, Quantities
<1> QED  BY <1>6, <1>7, <1>9, <1>10, <1>11, <1>12, <1>15
         DEF StreamParts, BookStep, Book!BookNext

LEMMA StreamStepHolds ==
  ASSUME StreamAlone, StreamInv, [Next]_vars
  PROVE  StreamInv' /\ BookStep
<1> SUFFICES StreamParts' /\ BookStep
  BY TrackingStep DEF StreamInv
<1>1. /\ pc["clo"] = "idle" /\ pc["qc"] \in {"idle", "callback", "save"}
      /\ saveFailures = 0 /\ restarts = 0 /\ notices = 0
      /\ "lingering" \notin Sources /\ "bars" \notin Sources
  BY DEF StreamInv, StreamParts, HandlesUpdates, StreamAlone, TrackingInv, TypeInv, TypeOK
\* Steps that leave orders, their symbols and the updates alone.
<1>2. ASSUME UNCHANGED <<open_orders, counted, broker, queue, job, pc>>, ChosenAreFree'
      PROVE  StreamParts' /\ BookStep
  <2>1. /\ HandlesUpdates' /\ OrdersBegun' /\ WorkingFollowed' /\ UpdatesCurrent'
        /\ FillCurrent' /\ Stutters
    BY <1>2 DEF StreamInv, StreamParts, HandlesUpdates, OrdersBegun, WorkingFollowed,
                Working, UpdatesCurrent, FillCurrent, Stutters, Placed, Closing,
                Followed, Quantities
  <2>2. NothingForgotten'
    <3> SUFFICES ASSUME NEW o \in OrderIds
                 PROVE  counted'[o] + InCallback(o)' + Queued(o)' = broker'[o].filled
      BY DEF NothingForgotten
    <3>1. Queued(o)' = Reported(queue, o) /\ InCallback(o)' = InCallback(o)
      BY <1>2, QueuedNext DEF InCallback
    <3> QED  BY <1>2, <3>1, SharesInNumbers
  <2> QED  BY <1>2, <2>1, <2>2 DEF StreamParts, BookStep
<1>3. CASE \E h \in Handlers : Fill(h) \/ CancelOrder(h)
  <2>1. PICK h \in Handlers : Fill(h) \/ CancelOrder(h)
    BY <1>3
  <2>2. h = "qc" /\ ~CancelOrder(h) /\ ~SaveTradeFails(h)
    BY <1>1, <2>1 DEF Handlers, Fill, CallbackReturns, SaveTrade, SaveTradeFails,
                      CancelOrder, StreamAlone
  <2> QED  BY <2>1, <2>2, CallbackStep, SaveTradeStep DEF Fill
<1>4. CASE Lingering
  BY <1>1, <1>4 DEF Lingering, LingeringWakes, LingeringNext, LingeringDone
<1>5. CASE TradeUpdate
  <2>1. ~UpdateWithoutOrder
    <3> SUFFICES ASSUME UpdateWithoutOrder PROVE FALSE
      OBVIOUS
    <3>1. /\ Head(queue) \in Update /\ Head(queue) = queue[1] /\ 1 \in 1 .. Len(queue)
      BY StreamReceives DEF UpdateWithoutOrder
    <3>2. Head(queue).order \in OrderIds
      BY <3>1 DEF Update
    <3>3. open_orders[Head(queue).sym] = Head(queue).order
      BY <3>1 DEF StreamInv, StreamParts, UpdatesCurrent
    <3> QED  BY <3>2, <3>3, NoneAssumption DEF UpdateWithoutOrder
  <2> QED  BY <1>5, <2>1, OrderEndsStep, UpdateFillsStep DEF TradeUpdate
<1>6. CASE Bar
  BY <1>1, <1>6 DEF Bar, HandleBar, OrderRowSaved, StrategiesDone
<1>7. CASE Submission
  <2>1. ~\E s \in Symbols, side \in {"buy", "sell"}, st \in RunStrategies :
          StrategySubmits(s, st, side)
    BY <1>1 DEF StrategySubmits
  <2> QED  BY <1>7, <2>1, StreamSubmitStep DEF Submission
<1>8. CASE Periodic
  <2>1. UNCHANGED <<open_orders, counted, broker, queue, job, pc>>
    BY <1>8 DEF Periodic, RunAll, RunAllAborts, data
  <2>2. PICK st \in RunAllStrategies : RunAll(st) \/ RunAllAborts(st)
    BY <1>8 DEF Periodic
  <2>3. PICK T \in SUBSET {s \in Symbols : open_orders[s] = None} :
          runAllTodo' = [runAllTodo EXCEPT ![st] = T]
    BY <2>2 DEF RunAll, RunAllAborts, StreamAlone
  <2>4. ChosenAreFree'
    BY <2>1, <2>3, StreamTypes DEF StreamInv, StreamParts, ChosenAreFree
  <2> QED  BY <1>2, <2>1, <2>4
<1>9. CASE Broker
  <2>1. PICK o \in OrderIds :
          \/ \E q \in 1 .. OrderQty : BrokerFills(o, q)
          \/ BrokerCancels(o) \/ BrokerNotice(o) \/ Age(o)
    BY <1>9 DEF Broker
  <2>2. ~BrokerNotice(o) /\ ~Age(o)
    BY <1>1 DEF BrokerNotice, Age, StreamAlone
  <2> QED  BY <2>1, <2>2, BrokerFillsStep, BrokerCancelsStep
<1>10. CASE Restart
  BY <1>1, <1>10 DEF Restart, StreamAlone
<1>11. CASE UNCHANGED vars
  <2>1. UNCHANGED <<open_orders, counted, broker, queue, job, pc, runAllTodo>>
    BY <1>11 DEF vars, data, control
  <2>2. ChosenAreFree'
    BY <2>1 DEF StreamInv, StreamParts, ChosenAreFree
  <2> QED  BY <1>2, <2>1, <2>2
<1> QED
  BY <1>3, <1>4, <1>5, <1>6, <1>7, <1>8, <1>9, <1>10, <1>11 DEF Next

\* A consumer whose one strategy submits orders only where none is open, and
\* that learns of them from a stream that loses nothing, keeps the order book:
\* in partial fills too, and while the callbacks of earlier fills are awaited.
THEOREM StreamImplementsOrderBook == StreamAlone /\ Spec => ImplementsOrderBook
<1> SUFFICES ASSUME StreamAlone PROVE Spec => ImplementsOrderBook
  OBVIOUS
<1>1. StreamInv /\ [Next]_vars => StreamInv' /\ [Book!BookNext]_(Book!bookVars)
  <2>1. Stutters => UNCHANGED Book!bookVars
    BY DEF Stutters, Book!bookVars, Placed, Closing, Followed, Quantities
  <2> QED  BY <2>1, StreamStepHolds DEF BookStep
<1>2. Init => StreamInv /\ Book!BookInit
  BY StreamInitially
<1> QED  BY <1>1, <1>2, PTL DEF Spec, ImplementsOrderBook, Book!BookSpec

\* NothingForgotten, of the consumer of MCSingleSource when its source is the
\* stream: every executed share is in the position, in a callback or in the
\* queue, for any symbols and orders.
THEOREM StreamForgetsNothingAlways == StreamAlone /\ MCSpec => []StreamForgetsNothing
<1> SUFFICES ASSUME StreamAlone PROVE MCSpec => []StreamForgetsNothing
  OBVIOUS
<1> DEFINE Inv == source = "stream" => StreamInv
<1>1. MCInit => Inv
  BY StreamInitially DEF MCInit
<1>2. Inv /\ [MCNext]_<<vars, source>> => Inv'
  <2> SUFFICES ASSUME Inv, [MCNext]_<<vars, source>>, source' = "stream"
               PROVE  StreamInv'
    OBVIOUS
  <2>1. source = "stream" /\ [Next]_vars
    BY DEF MCNext
  <2> QED  BY <2>1, StreamStepHolds
<1>3. Inv => StreamForgetsNothing
  BY DEF StreamInv, StreamParts, StreamForgetsNothing
<1> QED  BY <1>1, <1>2, <1>3, PTL DEF MCSpec

=============================================================================
