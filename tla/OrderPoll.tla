------------------------------ MODULE OrderPoll ------------------------------
(***************************************************************************)
(* The minute poll of an order at Gemini or Tradier: order_inflight asks the *)
(* trader's is_order_completed and, by its answer, counts the execution or   *)
(* calls the trader's cancel_order.  Between the two requests and after them *)
(* the broker goes on.  (OrderTracking is about the same poll at Alpaca,     *)
(* with everything else that happens in a consumer.)                         *)
(*                                                                         *)
(* Tradier's 429 and 502 are asked again until there is another answer: an   *)
(* answer that comes later.                                                 *)
(***************************************************************************)
EXTENDS Integers

CONSTANTS
  Quantity,    \* of the order
  MaxFailures  \* bound: requests that raise

ConstantsAssumption == Quantity \in Nat \ {0} /\ MaxFailures \in Nat

VARIABLES
  broker,     \* "gemini" or "tradier"
  status,     \* of the order at the broker
  executed,   \* of its quantity
  old,        \* a minute has passed since submitted_at
  poll,       \* "idle", or "cancel" after an answer that asks for it
  seen,       \* filled_qty of the last answer
  tracked,    \* the order is in open_orders
  position,   \* what was counted of it
  cancelled,  \* history: the broker accepted the poll's cancellation
  failures
vars == <<broker, status, executed, old, poll, seen, tracked, position, cancelled, failures>>
atBroker == <<broker, status, executed>>

Live == status \in {"open", "partially_filled"}

Init ==
  /\ broker \in {"gemini", "tradier"}
  /\ status = "open" /\ executed = 0
  /\ old = FALSE /\ poll = "idle" /\ seen = 0
  /\ tracked = TRUE /\ position = 0
  /\ cancelled = FALSE /\ failures = 0

-----------------------------------------------------------------------------
(* The broker.                                                              *)

Execute(q) ==
  /\ Live /\ executed < q /\ q <= Quantity
  /\ executed' = q
  /\ status' = IF q = Quantity THEN "filled" ELSE "partially_filled"
  /\ UNCHANGED <<broker, old, poll, seen, tracked, position, cancelled, failures>>

\* A trader's client or the broker ends the order; Gemini only cancels.
BrokerEnds(end) ==
  /\ Live
  /\ end # "canceled" => broker = "tradier"
  /\ end = "rejected" => executed = 0
  /\ status' = end
  /\ UNCHANGED <<broker, executed, old, poll, seen, tracked, position, cancelled, failures>>

-----------------------------------------------------------------------------
(* The traders.  Gemini's reports an order without executions as one that is  *)
(* partly filled.                                                           *)

Remaining == Quantity - executed

GeminiEvent ==
  IF status = "canceled" THEN "canceled"
  ELSE IF Remaining = 0 THEN "fill" ELSE "partial_fill"
TradierEvent ==
  CASE status = "filled" -> "fill"
    [] status = "partially_filled" -> "partial_fill"
    [] status \in {"canceled", "rejected", "open"} -> status
    [] OTHER -> "other"
Reported_OpenIsPart == GeminiEvent
Reported == IF broker = "gemini" THEN GeminiEvent ELSE TradierEvent

-----------------------------------------------------------------------------
(* order_inflight.                                                          *)

Ages ==
  /\ ~old /\ old' = TRUE
  /\ UNCHANGED <<atBroker, poll, seen, tracked, position, cancelled, failures>>

Asks == tracked /\ old /\ poll = "idle"

PollFill ==
  /\ Asks /\ Reported = "fill"
  /\ seen' = executed
  /\ position' = position + executed
  /\ tracked' = FALSE
  /\ UNCHANGED <<atBroker, old, poll, cancelled, failures>>

\* The log of this branch reads an attribute that an Order does not have, and
\* nothing more is done.
PollPartialFill ==
  /\ Asks /\ Reported = "partial_fill"
  /\ seen' = executed
  /\ UNCHANGED <<atBroker, old, poll, tracked, position, cancelled, failures>>

PollOther ==
  /\ Asks /\ Reported \notin {"fill", "partial_fill"}
  /\ seen' = executed
  /\ poll' = "cancel"
  /\ UNCHANGED <<atBroker, old, tracked, position, cancelled, failures>>

\* cancel_order of an order that lives is accepted; of one that has ended it may
\* be or not.
Cancel ==
  /\ poll = "cancel" /\ poll' = "idle"
  /\ \/ Live /\ status' = "canceled" /\ cancelled' = TRUE /\ tracked' = FALSE
     \/ ~Live /\ UNCHANGED <<status, cancelled>> /\ tracked' \in BOOLEAN
  /\ UNCHANGED <<broker, executed, old, seen, position, failures>>

\* Any other answer, or none, raises: this poll ends, and the next one asks
\* again.  A cancellation may have arrived nevertheless.
Requests == Asks \/ poll = "cancel"
RequestFails ==
  /\ Requests
  /\ failures < MaxFailures /\ failures' = failures + 1
  /\ poll' = "idle"
  /\ status' \in {status} \cup (IF poll = "cancel" /\ Live THEN {"canceled"} ELSE {})
  /\ UNCHANGED <<broker, executed, old, seen, tracked, position, cancelled>>

Poll == PollFill \/ PollPartialFill \/ PollOther \/ Cancel \/ RequestFails

Next ==
  \/ \E q \in 1 .. Quantity : Execute(q)
  \/ \E end \in {"canceled", "expired", "rejected"} : BrokerEnds(end)
  \/ Ages \/ Poll

Spec == Init /\ [][Next]_vars

\* Minutes pass, and the poll runs every minute.
Fairness == WF_vars(Ages) /\ WF_vars(Poll)
FairSpec == Spec /\ Fairness

-----------------------------------------------------------------------------

\* Every variable has its type.
TypeOK ==
  /\ broker \in {"gemini", "tradier"}
  /\ status \in {"open", "partially_filled", "filled", "canceled", "expired", "rejected"}
  /\ executed \in 0 .. Quantity /\ seen \in 0 .. Quantity /\ position \in 0 .. Quantity
  /\ old \in BOOLEAN /\ tracked \in BOOLEAN /\ cancelled \in BOOLEAN
  /\ poll \in {"idle", "cancel"} /\ failures \in 0 .. MaxFailures

\* What is counted is the whole order, once; an order is forgotten uncounted only
\* if it ended otherwise, and an execution is forgotten with it only if it came
\* after the answer that asked for the cancellation or the broker ended the rest.
Accounted ==
  /\ position # 0 => position = Quantity /\ executed = Quantity /\ ~tracked
  /\ ~tracked /\ position = 0 =>
       /\ ~Live
       /\ executed > seen \/ executed = 0 \/ ~cancelled

\* A fill the poll can still ask about is counted.  An order of which nothing is
\* executed is cancelled by Tradier's poll; Gemini's never cancels one that lives,
\* whatever its age, because it is reported as partly filled.
FillsAreFound ==
  status = "filled" /\ tracked /\ poll = "idle" ~> position = Quantity
IdleIsCancelled ==
  broker = "tradier" /\ status = "open" ~> ~Live \/ executed > 0
PollSettles ==
  /\ [](Accounted /\ (cancelled => broker = "tradier"))
  /\ FillsAreFound /\ IdleIsCancelled
=============================================================================
