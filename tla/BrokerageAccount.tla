--------------------------- MODULE BrokerageAccount ---------------------------
(***************************************************************************)
(* Orders that a consumer sends on behalf of an Alpaca brokerage account    *)
(* (trading/alpaca.py).  Its requests repeat themselves when the broker     *)
(* pushes back, and sleep before they do, so that the other tasks of the    *)
(* consumer run in the middle of a submission, a query or a cancellation.   *)
(*                                                                          *)
(* One account and one symbol; orders are numbered as the broker accepts    *)
(* them.  The stream of trade updates belongs to the personal account, so   *)
(* the poll is the only source of news.  Strategies look at open_orders     *)
(* before they ask for an order, as the sample strategies do.               *)
(***************************************************************************)
EXTENDS Integers, FiniteSets

CONSTANTS
  MaxOrders,     \* bound: orders the broker accepts
  MaxPushbacks,  \* bound: answers 429 and 504
  None

ConstantsAssumption ==
  /\ MaxOrders \in Nat /\ MaxPushbacks \in Nat
  /\ None \notin Nat

Ids == 1 .. MaxOrders
\* Tasks that submit orders: queue_consumer's strategies and do_strategy_all.
Submitters == {"strategy", "run_all"}

VARIABLES
  open_order,  \* open_orders of the symbol
  posting,     \* the tasks whose POST sleeps before it is repeated
  poll,        \* where order_inflight of cancel_lingering_orders is
  existing,    \* the order it was called with
  order,       \* the broker's orders
  accepted,    \* how many there are
  pushbacks,   \* history: requests that were repeated
  delayed,     \* history: those of them that were submissions
  hidden,      \* history: submissions accepted behind a 504
  counted      \* history: how often an order's execution moved the position

broker == <<order, accepted>>
replies == <<pushbacks, delayed, hidden>>
vars == <<open_order, posting, poll, existing, broker, replies, counted>>

TypeOK ==
  /\ open_order \in Ids \cup {None}
  /\ posting \subseteq Submitters
  /\ poll \in {"idle", "get", "filled", "delete"}
  /\ existing \in Ids \cup {None}
  /\ order \in [Ids -> {"none", "live", "filled", "canceled"}]
  /\ accepted \in 0 .. MaxOrders
  /\ pushbacks \in 0 .. MaxPushbacks
  /\ delayed \in 0 .. pushbacks
  /\ hidden \in 0 .. delayed
  /\ counted \in [Ids -> Nat]

Init ==
  /\ open_order = None
  /\ posting = {}
  /\ poll = "idle"
  /\ existing = None
  /\ order = [o \in Ids |-> "none"]
  /\ accepted = 0
  /\ pushbacks = 0
  /\ delayed = 0
  /\ hidden = 0
  /\ counted = [o \in Ids |-> 0]

\* 429 or 504: sleep and call the same request again.  (The sleep is ten
\* seconds, or the time since, not until, x-ratelimit-reset: none.)
PushedBack == pushbacks < MaxPushbacks /\ pushbacks' = pushbacks + 1

-----------------------------------------------------------------------------
(* _post_request, and what execute_strategy_result does with its answer.    *)

\* A new request of a strategy that found no open order, or a repeated one.
Asks_Blind(t) == TRUE
Asks(t) == t \in posting \/ open_order = None

AcceptNew ==
  /\ accepted < MaxOrders
  /\ accepted' = accepted + 1
  /\ order' = [order EXCEPT ![accepted'] = "live"]

Post(t) ==
  /\ Asks(t)
  /\ AcceptNew
  /\ open_order' = accepted'
  /\ posting' = posting \ {t}
  /\ UNCHANGED <<poll, existing, replies, counted>>

\* No client order id goes with the request: whether a 504 comes before or
\* after the order was accepted, the order is posted again.
PostPushedBack(t) ==
  /\ Asks(t)
  /\ PushedBack
  /\ delayed' = delayed + 1
  /\ \/ AcceptNew /\ hidden' = hidden + 1
     \/ UNCHANGED <<broker, hidden>>
  /\ posting' = posting \cup {t}
  /\ UNCHANGED <<open_order, poll, existing, counted>>

PostRefused(t) ==
  /\ t \in posting
  /\ posting' = posting \ {t}
  /\ UNCHANGED <<open_order, poll, existing, broker, replies, counted>>

-----------------------------------------------------------------------------
(* order_inflight, for an order old enough to be cancelled.                 *)

PollWakes ==
  /\ poll = "idle"
  /\ open_order # None
  /\ existing' = open_order
  /\ poll' = "get"
  /\ UNCHANGED <<open_order, posting, broker, replies, counted>>

\* update_filled_order up to its suspension: the position moves.
Completed ==
  /\ poll = "get"
  /\ order[existing] = "filled"
  /\ open_order # None        \* open_order_strategy[symbol]
  /\ counted' = [counted EXCEPT ![existing] = @ + 1]
  /\ poll' = "filled"
  /\ UNCHANGED <<open_order, posting, existing, broker, replies>>

\* After the INSERT it pops the order of the symbol, whichever it is.
FilledPopped_Kept ==
  /\ poll = "filled"
  /\ poll' = "idle"
  /\ existing' = None
  /\ UNCHANGED <<open_order, posting, broker, replies, counted>>
FilledPopped ==
  /\ poll = "filled"
  /\ open_order' = None
  /\ poll' = "idle"
  /\ existing' = None
  /\ UNCHANGED <<posting, broker, replies, counted>>

NotCompleted ==
  /\ poll = "get"
  /\ order[existing] # "filled"
  /\ poll' = "delete"
  /\ UNCHANGED <<open_order, posting, existing, broker, replies, counted>>

\* 204: the order of the symbol is popped.
Deleted ==
  /\ poll = "delete"
  /\ order[existing] = "live"
  /\ order' = [order EXCEPT ![existing] = "canceled"]
  /\ open_order' = None
  /\ poll' = "idle"
  /\ existing' = None
  /\ UNCHANGED <<posting, accepted, replies, counted>>

\* Any other answer, of an order that is over: it stays in open_orders.
NotDeleted ==
  /\ poll = "delete"
  /\ order[existing] # "live"
  /\ poll' = "idle"
  /\ existing' = None
  /\ UNCHANGED <<open_order, posting, broker, replies, counted>>

\* _get_request and _delete_request are repeated in the same way; a 504 may
\* hide that the order was cancelled.
PollPushedBack ==
  /\ poll \in {"get", "delete"}
  /\ PushedBack
  /\ \/ UNCHANGED order
     \/ /\ poll = "delete"
        /\ order[existing] = "live"
        /\ order' = [order EXCEPT ![existing] = "canceled"]
  /\ UNCHANGED <<open_order, posting, poll, existing, accepted, delayed, hidden, counted>>

-----------------------------------------------------------------------------
(* The broker.                                                              *)

BrokerEnds(o) ==
  /\ order[o] = "live"
  /\ \E s \in {"filled", "canceled"} : order' = [order EXCEPT ![o] = s]
  /\ UNCHANGED <<open_order, posting, poll, existing, accepted, replies, counted>>

Next ==
  \/ \E t \in Submitters : Post(t) \/ PostPushedBack(t) \/ PostRefused(t)
  \/ PollWakes \/ Completed \/ FilledPopped \/ NotCompleted
  \/ Deleted \/ NotDeleted \/ PollPushedBack
  \/ \E o \in Ids : BrokerEnds(o)

Spec == Init /\ [][Next]_vars

-----------------------------------------------------------------------------

\* Orders that may still trade, or have traded unseen, and that nobody looks
\* at: neither open_orders nor the poll knows them.
Forgotten ==
  {o \in Ids : /\ o \notin {open_order, existing}
               /\ order[o] = "live" \/ (order[o] = "filled" /\ counted[o] = 0)}

\* Every order the consumer loses sight of has a pushed-back submission behind
\* it: one accepted behind a 504 is left behind, and one that slept overwrites
\* the order another task sent meanwhile.  Queries and cancellations that are
\* repeated lose none, although the cancellation pops whatever it finds.
ForgottenPerPushback == Cardinality(Forgotten) <= hidden + delayed

\* With the poll as its only source of news the consumer never counts an
\* execution twice, however its requests are repeated and overtaken.
ExecutionCountedOnce ==
  \A o \in Ids : counted[o] <= 1 /\ (counted[o] = 1 => order[o] = "filled")

=============================================================================
