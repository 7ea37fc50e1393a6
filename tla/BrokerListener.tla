---------------------------- MODULE BrokerListener ----------------------------
(***************************************************************************)
(* The threads with which GeminiTrader and TradierTrader                    *)
(* (trading/gemini.py, trading/tradier.py) listen for trade updates, next   *)
(* to the event loop of the process that owns them: starting, closing and   *)
(* reconnecting, what a listener forwards to the queues of consumers, and   *)
(* what a process knows of its own orders.                                  *)
(*                                                                          *)
(* Every process has a trader of its own.  The producer runs its listener   *)
(* once (producer.py 214); a consumer reconnects its own after a            *)
(* ConnectionError (consumer.py 796).  One of them was given the queues: the *)
(* producer, or, for a trader that is used directly, the process that also  *)
(* submits the orders.                                                      *)
(***************************************************************************)
EXTENDS Integers, Sequences, FiniteSets

CONSTANTS
  Producer,
  NumConsumers,  \* consumers are numbered in the order of queue_list
  Orders,
  MaxNotices,    \* bound: notices the broker sends
  MaxFaults,     \* bound: dead threads, full queues and failed submissions
  None

Consumers == 1 .. NumConsumers
Processes == Consumers \cup {Producer}

ASSUME ConsumersAssumption == NumConsumers \in Nat \ {0} /\ Producer \notin Consumers
ASSUME NoneAssumption == None \notin Orders \cup Processes
ASSUME BoundsAssumption == MaxNotices \in Nat /\ MaxFaults \in Nat

VARIABLES
  broker,        \* whose trader it is
  holder,        \* the process whose trader was given the queues
  running_task,  \* the listener's thread
  hb_task,       \* the heartbeat's thread
  stopping,      \* ws.keep_running is False
  flags_run,     \* flags.run
  subscribed,    \* a Tradier session asked for order events
  session,       \* notices sent to a session that on_message has not seen
  phase,         \* where the event loop of a process is
  current,       \* the order it is submitting
  order_symbol, order_side,  \* TradierTrader's dictionaries of a process
  order,         \* the broker's orders
  owner,         \* history: the process that submitted an order
  emitted,       \* history: every notice of the broker, in order
  updates,       \* history: the notices put in the queue of a consumer
  faults

threads == <<running_task, hb_task, stopping, flags_run, subscribed>>
loop    == <<phase, current>>
books   == <<order_symbol, order_side>>
atBroker == <<order, owner, emitted>>
vars    == <<broker, holder, threads, session, loop, books, atBroker, updates, faults>>

ThreadState == {"none", "alive", "dead"}

\* What a notice says, in the words of the brokers; "part" is a fill with
\* something remaining, and Tradier's closing words are spelled both ways.
Kinds == {"part", "filled", "cancelled", "canceled", "rejected", "cancel_rejected"}
Closing(kind) == kind \in {"filled", "cancelled", "canceled", "rejected"}

TypeOK ==
  /\ broker \in {"gemini", "tradier"}
  /\ holder \in Processes
  /\ running_task \in [Processes -> ThreadState]
  /\ hb_task \in [Processes -> ThreadState]
  /\ stopping \in [Processes -> BOOLEAN]
  /\ flags_run \in [Processes -> BOOLEAN]
  /\ subscribed \in [Processes -> BOOLEAN]
  /\ session \in [Processes -> Seq(1 .. Len(emitted))]
  /\ phase \in [Processes -> {"off", "idle", "posting", "booking", "subscribing",
                              "reconnecting", "failing"}]
  /\ current \in [Processes -> Orders \cup {None}]
  /\ order_symbol \in [Processes -> SUBSET Orders]
  /\ order_side \in [Processes -> SUBSET Orders]
  /\ order \in [Orders -> {"none", "live", "over"}]
  /\ owner \in [Orders -> Processes \cup {None}]
  /\ emitted \in Seq([order : Orders, kind : Kinds])
  /\ updates \in [Consumers -> Seq(1 .. Len(emitted))]
  /\ faults \in 0 .. MaxFaults

Init ==
  /\ \/ broker = "gemini" /\ holder = Producer
     \/ broker = "tradier" /\ holder \in Processes
  /\ running_task = [p \in Processes |-> "none"]
  /\ hb_task = [p \in Processes |-> "none"]
  /\ stopping = [p \in Processes |-> FALSE]
  /\ flags_run = [p \in Processes |-> FALSE]
  /\ subscribed = [p \in Processes |-> FALSE]
  /\ session = [p \in Processes |-> << >>]
  /\ phase = [p \in Processes |-> IF p = Producer THEN "off" ELSE "idle"]
  /\ current = [p \in Processes |-> None]
  /\ order_symbol = [p \in Processes |-> {}]
  /\ order_side = [p \in Processes |-> {}]
  /\ order = [o \in Orders |-> "none"]
  /\ owner = [o \in Orders |-> None]
  /\ emitted = << >>
  /\ updates = [c \in Consumers |-> << >>]
  /\ faults = 0

Fault == faults < MaxFaults /\ faults' = faults + 1

-----------------------------------------------------------------------------
(* Starting and closing a listener.                                         *)

\* run(): nothing if running_task is set.  Gemini's session is subscribed by
\* its URL; Tradier's after a sleep of a second.
Run(p) ==
  /\ running_task[p] = "none"
  /\ running_task' = [running_task EXCEPT ![p] = "alive"]
  /\ stopping' = [stopping EXCEPT ![p] = FALSE]
  /\ session' = [session EXCEPT ![p] = << >>]
  /\ \/ /\ broker = "gemini"
        /\ hb_task' = [hb_task EXCEPT ![p] = "alive"]
        /\ flags_run' = [flags_run EXCEPT ![p] = TRUE]
        /\ subscribed' = [subscribed EXCEPT ![p] = TRUE]
        /\ phase' = [phase EXCEPT ![p] = "idle"]
     \/ /\ broker = "tradier"
        /\ phase' = [phase EXCEPT ![p] = "subscribing"]
        /\ UNCHANGED <<hb_task, flags_run, subscribed>>

\* producer_async_main
ProducerRuns ==
  /\ phase[Producer] = "off"
  /\ Run(Producer)
  /\ UNCHANGED <<broker, holder, current, books, atBroker, updates, faults>>

\* subscribe_order_status_update, at the end of Tradier's run()
Subscribe(p) ==
  /\ phase[p] = "subscribing"
  /\ phase' = [phase EXCEPT ![p] = "idle"]
  /\ subscribed' = [subscribed EXCEPT ![p] = (running_task[p] = "alive")]
  /\ UNCHANGED <<broker, holder, running_task, hb_task, stopping, flags_run, session,
                 current, books, atBroker, updates, faults>>

\* The first half of close(): tell the threads to end, then join them.
StopThreads_ListenerOnly(p, next) ==
  /\ running_task[p] = "alive"
  /\ stopping' = [stopping EXCEPT ![p] = TRUE]
  /\ phase' = [phase EXCEPT ![p] = next]
  /\ UNCHANGED <<running_task, hb_task, flags_run, subscribed>>
StopThreads(p, next) ==
  /\ running_task[p] = "alive"
  /\ stopping' = [stopping EXCEPT ![p] = TRUE]
  /\ flags_run' = [flags_run EXCEPT ![p] = FALSE]
  /\ phase' = [phase EXCEPT ![p] = next]
  /\ UNCHANGED <<running_task, hb_task, subscribed>>

\* The second half: both joins returned.
Joined(p) ==
  /\ running_task[p] # "alive"
  /\ hb_task[p] # "alive"
  /\ session' = [session EXCEPT ![p] = << >>]

\* reconnect() in a consumer, after a ConnectionError: close() and run().  A
\* listener that ended by itself makes both do nothing.
Reconnect(p) ==
  /\ p \in Consumers
  /\ phase[p] = "idle"
  /\ \/ StopThreads(p, "reconnecting") /\ UNCHANGED session
     \/ Run(p)
  /\ UNCHANGED <<broker, holder, current, books, atBroker, updates, faults>>


ReconnectJoined(p) ==
  /\ phase[p] = "reconnecting"
  /\ Joined(p)
  /\ running_task' = [running_task EXCEPT ![p] = "alive"]
  /\ stopping' = [stopping EXCEPT ![p] = FALSE]
  /\ hb_task' = [hb_task EXCEPT ![p] = IF broker = "gemini" THEN "alive" ELSE "none"]
  /\ flags_run' = [flags_run EXCEPT ![p] = (broker = "gemini")]
  /\ subscribed' = [subscribed EXCEPT ![p] = (broker = "gemini")]
  /\ phase' = [phase EXCEPT ![p] = IF broker = "gemini" THEN "idle" ELSE "subscribing"]
  /\ UNCHANGED <<broker, holder, current, books, atBroker, updates, faults>>

\* run_forever returns when it sees keep_running, or when the connection ends;
\* nothing opens it again.
ListenerEnds(p) ==
  /\ running_task[p] = "alive"
  /\ \/ stopping[p] /\ UNCHANGED faults
     \/ ~stopping[p] /\ Fault
  /\ running_task' = [running_task EXCEPT ![p] = "dead"]
  /\ UNCHANGED <<broker, holder, hb_task, stopping, flags_run, subscribed, session, loop,
                 books, atBroker, updates>>

\* The heartbeat sees flags.run, or its request is refused.
HeartbeatEnds(p) ==
  /\ hb_task[p] = "alive"
  /\ \/ ~flags_run[p] /\ UNCHANGED faults
     \/ flags_run[p] /\ Fault
  /\ hb_task' = [hb_task EXCEPT ![p] = "dead"]
  /\ UNCHANGED <<broker, holder, running_task, stopping, flags_run, subscribed, session,
                 loop, books, atBroker, updates>>

-----------------------------------------------------------------------------
(* Orders of a consumer.                                                    *)

\* submit_order: the request blocks the event loop, not the listener.
Submit(p, o) ==
  /\ p \in Consumers
  /\ phase[p] = "idle"
  /\ owner[o] = None
  /\ owner' = [owner EXCEPT ![o] = p]
  /\ current' = [current EXCEPT ![p] = o]
  /\ phase' = [phase EXCEPT ![p] = "posting"]
  /\ UNCHANGED <<broker, holder, threads, session, books, order, emitted, updates, faults>>

SubmitReturns(p) ==
  /\ phase[p] = "posting"
  /\ order[current[p]] # "none"
  /\ \/ /\ broker = "gemini"
        /\ phase' = [phase EXCEPT ![p] = "idle"]
        /\ current' = [current EXCEPT ![p] = None]
        /\ UNCHANGED order_symbol
     \/ /\ broker = "tradier"
        /\ order_symbol' = [order_symbol EXCEPT ![p] = @ \cup {current[p]}]
        /\ phase' = [phase EXCEPT ![p] = "booking"]
        /\ UNCHANGED current
  /\ UNCHANGED <<broker, holder, threads, session, order_side, atBroker, updates, faults>>

BookSide(p) ==
  /\ phase[p] = "booking"
  /\ order_side' = [order_side EXCEPT ![p] = @ \cup {current[p]}]
  /\ phase' = [phase EXCEPT ![p] = "idle"]
  /\ current' = [current EXCEPT ![p] = None]
  /\ UNCHANGED <<broker, holder, threads, session, order_symbol, atBroker, updates, faults>>

\* An answer that is not 200: Gemini's trader closes its listener as well, and
\* stops the heartbeat of one that has ended.
SubmitFails(p) ==
  /\ phase[p] = "posting"
  /\ Fault
  /\ current' = [current EXCEPT ![p] = None]
  /\ \/ broker = "gemini" /\ StopThreads(p, "failing")
     \/ /\ broker = "tradier" \/ running_task[p] # "alive"
        /\ phase' = [phase EXCEPT ![p] = "idle"]
        /\ flags_run' = [flags_run EXCEPT ![p] = FALSE]
        /\ UNCHANGED <<running_task, hb_task, stopping, subscribed>>
  /\ UNCHANGED <<broker, holder, session, books, atBroker, updates>>

FailJoined(p) ==
  /\ phase[p] = "failing"
  /\ Joined(p)
  /\ running_task' = [running_task EXCEPT ![p] = "none"]
  /\ hb_task' = [hb_task EXCEPT ![p] = "none"]
  /\ stopping' = [stopping EXCEPT ![p] = FALSE]
  /\ subscribed' = [subscribed EXCEPT ![p] = FALSE]
  /\ phase' = [phase EXCEPT ![p] = "idle"]
  /\ UNCHANGED <<broker, holder, flags_run, current, books, atBroker, updates, faults>>

-----------------------------------------------------------------------------
(* The broker, and what a listener does with a notice.                      *)

Accept(o) ==
  /\ order[o] = "none"
  /\ \E p \in Consumers : current[p] = o
  /\ order' = [order EXCEPT ![o] = "live"]
  /\ UNCHANGED <<broker, holder, threads, session, loop, books, owner, emitted, updates, faults>>

\* Every open session of the account is told.
Notify(o, kind) ==
  /\ order[o] = "live"
  /\ Len(emitted) < MaxNotices
  /\ emitted' = Append(emitted, [order |-> o, kind |-> kind])
  /\ order' = [order EXCEPT ![o] = IF Closing(kind) THEN "over" ELSE "live"]
  /\ session' = [p \in Processes |->
                   IF running_task[p] = "alive" /\ subscribed[p]
                   THEN Append(session[p], Len(emitted')) ELSE session[p]]
  /\ UNCHANGED <<broker, holder, threads, loop, books, owner, updates, faults>>

\* The words on_message lets through.
Forwarded(kind) ==
  kind \in {"filled", "cancel_rejected", "cancelled", "rejected"}
           \cup IF broker = "gemini" THEN {"part"} ELSE {}

\* _get_trade_event_type and _get_event
Event_PartIsFill(kind) ==
  IF kind \in {"part", "filled"} THEN "fill"
  ELSE IF kind = "rejected" THEN "rejected" ELSE "canceled"
Event(kind) ==
  CASE kind = "part"   -> "partial_fill"
    [] kind = "filled" -> "fill"
    [] kind = "rejected" -> "rejected"
    [] kind \in {"cancelled", "cancel_rejected"} ->
         IF broker = "gemini" THEN "canceled" ELSE "other"
    [] kind = "canceled" -> "canceled"

\* Tradier looks up the symbol, then the side: a KeyError ends the callback.
Known_Any(p, o) == TRUE
Known(p, o) == broker = "tradier" => o \in order_symbol[p] /\ o \in order_side[p]

ToForward_EveryListener(p) ==
  LET notice == emitted[Head(session[p])]
  IN  Forwarded(notice.kind) /\ Known(p, notice.order)
ToForward(p) ==
  LET notice == emitted[Head(session[p])]
  IN  Forwarded(notice.kind) /\ Known(p, notice.order) /\ p = holder

OnMessage(p) ==
  /\ running_task[p] = "alive"
  /\ session[p] # << >>
  /\ session' = [session EXCEPT ![p] = Tail(@)]
  /\ UNCHANGED <<broker, holder, threads, loop, books, atBroker>>

OnMessageIgnored(p) ==
  /\ OnMessage(p)
  /\ ~ToForward(p)
  /\ UNCHANGED <<updates, faults>>

\* The queues are served in the order of queue_list until one is full.
OnMessageForwards(p) ==
  /\ OnMessage(p)
  /\ ToForward(p)
  /\ \E n \in 0 .. NumConsumers :
       /\ updates' = [c \in Consumers |-> IF c <= n THEN Append(updates[c], Head(session[p]))
                                                    ELSE updates[c]]
       /\ IF n < NumConsumers THEN Fault ELSE UNCHANGED faults

-----------------------------------------------------------------------------

ProcessStep(p) ==
  \/ Subscribe(p) \/ Reconnect(p) \/ ReconnectJoined(p)
  \/ SubmitReturns(p) \/ BookSide(p) \/ SubmitFails(p) \/ FailJoined(p)
  \/ \E o \in Orders : Submit(p, o)

ThreadStep(p) ==
  \/ ListenerEnds(p) \/ HeartbeatEnds(p)
  \/ OnMessageIgnored(p) \/ OnMessageForwards(p)

Next ==
  \/ ProducerRuns
  \/ \E p \in Processes : ProcessStep(p) \/ ThreadStep(p)
  \/ \E o \in Orders : Accept(o) \/ \E kind \in Kinds : Notify(o, kind)

Spec == Init /\ [][Next]_vars

\* A thread that was told to end gets to look at its flag (select and sleep
\* have timeouts), a join returns once its thread ended, and so does the sleep
\* before Tradier's session is subscribed.
Fairness ==
  \A p \in Processes :
    /\ WF_vars(ListenerEnds(p) /\ stopping[p])
    /\ WF_vars(HeartbeatEnds(p) /\ ~flags_run[p])
    /\ WF_vars(ReconnectJoined(p) \/ FailJoined(p))
    /\ WF_vars(Subscribe(p))

FairSpec == Spec /\ Fairness

-----------------------------------------------------------------------------

\* However listeners come and go, a consumer gets each notice at most once and
\* in the broker's order: the listeners that consumers start have no queues.
UpdatesInOrder ==
  \A c \in Consumers : \A i, j \in 1 .. Len(updates[c]) :
    i < j => updates[c][i] < updates[c][j]

\* What a consumer takes for the end of an order is its end: after such an
\* update it gets no other of that order, unless the first one said that a
\* cancellation was refused, which Gemini's trader reports as canceled (109).
NothingAfterTheEnd ==
  \A c \in Consumers : \A i, j \in 1 .. Len(updates[c]) :
    LET first  == emitted[updates[c][i]]
        second == emitted[updates[c][j]]
    IN  i < j /\ first.order = second.order /\ Event(first.kind) # "partial_fill"
        => first.kind = "cancel_rejected"

\* A consumer is told of its orders in the order of their events, and of each
\* until it ends.
ToldInOrder == UpdatesInOrder /\ NothingAfterTheEnd

\* Tradier's listener forwards only updates of orders its own process sent, so
\* the one in the producer process forwards none (tradier.py 469).
OnlyOwnOrders ==
  broker = "tradier" =>
    \A c \in Consumers : \A i \in 1 .. Len(updates[c]) :
      owner[emitted[updates[c][i]].order] = holder

\* close() gives the event loop back: both threads it joins come to an end.
CloseReturns ==
  \A p \in Processes : phase[p] \in {"reconnecting", "failing"} ~> phase[p] = "idle" \/ phase[p] = "subscribing"


=============================================================================
