----------------------------- MODULE MCAccounts -----------------------------
(***************************************************************************)
(* Accounts and the orders sent for them: the database's cash accounts, an   *)
(* Alpaca brokerage account on whose behalf a consumer sends orders, and the *)
(* poll of an order at Gemini or Tradier.  They share nothing, so that a     *)
(* state is of one of them.                                                 *)
(***************************************************************************)
EXTENDS Accounts

CONSTANTS
  MaxOrders,     \* bound: orders sent for the brokerage account
  MaxPushbacks   \* bound: its requests that are pushed back

VARIABLES
  part,      \* "cash", "brokerage" or "poll"
  open_order, posting, poll, existing, order, accepted,
  pushbacks, delayed, hidden, counted,
  broker, status, executed, old, asking, seen, tracked, position, cancelled,
  failures

Brokerage == INSTANCE BrokerageAccount

ASSUME BrokerageAssumption == Brokerage!ConstantsAssumption

Polled == INSTANCE OrderPoll WITH Quantity <- 2, MaxFailures <- 2, poll <- asking

ASSUME PolledAssumption == Polled!ConstantsAssumption

brokerage ==
  <<open_order, posting, poll, existing, order, accepted, pushbacks, delayed,
    hidden, counted>>

polled ==
  <<broker, status, executed, old, asking, seen, tracked, position, cancelled,
    failures>>

\* An order that is polled no more.
PolledAtRest ==
  /\ broker = "tradier" /\ status = "canceled" /\ executed = 0
  /\ old = TRUE /\ asking = "idle" /\ seen = 0 /\ tracked = FALSE /\ position = 0
  /\ cancelled = TRUE /\ failures = 0

MCInit ==
  /\ part \in {"cash", "brokerage", "poll"}
  /\ Init /\ Brokerage!Init
  /\ IF part = "poll" THEN Polled!Init ELSE PolledAtRest

MCNext ==
  \/ part = "cash" /\ Next /\ UNCHANGED <<part, brokerage, polled>>
  \/ part = "brokerage" /\ Brokerage!Next /\ UNCHANGED <<part, vars, polled>>
  \/ part = "poll" /\ Polled!Next /\ UNCHANGED <<part, vars, brokerage>>

\* Of the brokerage account no fairness is assumed.
MCSpec ==
  /\ MCInit /\ [][MCNext]_<<part, vars, brokerage, polled>>
  /\ \A t \in Tasks : WF_vars(TaskStep(t)) /\ SF_vars(Insert(t))
  /\ Polled!Fairness


\* An order the broker has and the consumer knows nothing of is the doing of a
\* pushback that hid its answer, and what an order executed is counted once.
PushbacksAccounted == Brokerage!ForgottenPerPushback /\ Brokerage!ExecutionCountedOnce

\* A polled order is counted once and wholly, or forgotten with good reason.
PollSettles == Polled!PollSettles
=============================================================================
