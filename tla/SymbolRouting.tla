---------------------------- MODULE SymbolRouting ----------------------------
(***************************************************************************)
(* How market data reaches strategies: scanners pick symbols               *)
(* (scanners_runner.py), the producer assigns each new one to a random     *)
(* consumer and subscribes to it (producer.py), the data stream puts trades *)
(* and minute bars in the queue of that consumer (data/alpaca.py), and     *)
(* queue_consumer filters what it hands to strategies (consumer.py).       *)
(*                                                                         *)
(* Each process is sequential; they share multiprocessing queues, which    *)
(* are unbounded.  Time is counted in seconds.                             *)
(***************************************************************************)
EXTENDS Integers, Sequences, SequencesExt, FiniteSets

CONSTANTS
  Symbols, Consumers,
  MinuteLength,    \* seconds in a minute
  MaxLag,          \* age in seconds at which a trade is too old
  LastSecond,      \* bound: when the clock stops
  MaxScans,        \* bound: lists of symbols the scanners send
  MaxTrades,       \* bound: trades the provider streams
  MaxFailures,     \* bound: failed subscriptions and failed writes
  MaxDisconnects,  \* bound: ConnectionErrors while a message is handled
  MaxEvents,       \* bound: trades and ConnectionErrors together
  None

ASSUME MinuteAssumption == MinuteLength \in Nat \ {0}
ASSUME TimeAssumption == {MaxLag, LastSecond} \subseteq Nat
ASSUME LimitsAssumption ==
  {MaxScans, MaxTrades, MaxFailures, MaxDisconnects, MaxEvents} \subseteq Nat
ASSUME NoConsumerAssumption == None \notin Consumers \cup (0 .. LastSecond)

VARIABLES
  now,
  scanner_queue,  \* from the scanners to the producer
  phase,          \* where scanner_input is suspended
  new_symbols,    \* the symbols scanner_input is adding
  symbols,        \* producer.symbols
  routed,         \* QueueMapper: the consumer each symbol's data goes to
  subscribed,     \* what the provider streams to the producer
  last_bar,       \* per symbol, the latest minute bar streamed
  queues,         \* from the producer to each consumer
  time_tick,      \* per consumer and symbol, the last timestamp accepted
  seen,           \* the minute bars given to the strategies of a consumer
  scans, trades, failures, disconnects

producer == <<scanner_queue, phase, new_symbols, symbols, routed, subscribed>>
consumer == <<time_tick, seen>>
limits   == <<scans, trades, failures, disconnects>>
vars     == <<now, producer, last_bar, queues, consumer, limits>>

Second == 0 .. LastSecond
Event == [sym : Symbols, ts : Second, ev : {"T", "AM"}]

TypeOK ==
  /\ now \in Second
  /\ scanner_queue \in Seq(SUBSET Symbols)
  /\ phase \in {"idle", "subscribe", "save"}
  /\ new_symbols \subseteq Symbols
  /\ symbols \subseteq Symbols
  /\ routed \in [Symbols -> Consumers \cup {None}]
  /\ subscribed \subseteq Symbols
  /\ last_bar \in [Symbols -> Second \cup {None}]
  /\ queues \in [Consumers -> Seq(Event)]
  /\ time_tick \in [Consumers -> [Symbols -> Second \cup {None}]]
  /\ seen \subseteq [consumer : Consumers, sym : Symbols, ts : Second]
  /\ scans \in 0 .. MaxScans
  /\ trades \in 0 .. MaxTrades
  /\ failures \in 0 .. MaxFailures
  /\ disconnects \in 0 .. MaxDisconnects

Init ==
  /\ now = 0
  /\ scanner_queue = << >>
  /\ phase = "idle"
  /\ new_symbols = {}
  /\ symbols = {}
  /\ routed = [s \in Symbols |-> None]
  /\ subscribed = {}
  /\ last_bar = [s \in Symbols |-> None]
  /\ queues = [c \in Consumers |-> << >>]
  /\ time_tick = [c \in Consumers |-> [s \in Symbols |-> None]]
  /\ seen = {}
  /\ scans = 0 /\ trades = 0 /\ failures = 0 /\ disconnects = 0

-----------------------------------------------------------------------------
(* Scanners and scanner_input.                                              *)

\* A scanner sends what it picked, if it picked anything; one that recurs
\* usually picks the same symbols again.
ScannerRuns ==
  /\ scans < MaxScans
  /\ scans' = scans + 1
  /\ \E picked \in (SUBSET Symbols) \ {{}} :
       scanner_queue' = Append(scanner_queue, picked)
  /\ UNCHANGED <<now, phase, new_symbols, symbols, routed, subscribed, last_bar,
                 queues, consumer, trades, failures, disconnects>>

\* Mutant: a symbol that is already tracked counts as new.
GetNewSymbols_All ==
  /\ phase = "idle"
  /\ scanner_queue # << >>
  /\ scanner_queue' = Tail(scanner_queue)
  /\ LET new == Head(scanner_queue) IN
     IF new = {}
     THEN UNCHANGED <<phase, new_symbols, routed>>
     ELSE /\ new_symbols' = new
          /\ phase' = "subscribe"
          /\ \E queue_of \in [new -> Consumers] :
               routed' = [s \in Symbols |->
                            IF s \in new THEN queue_of[s] ELSE routed[s]]
  /\ UNCHANGED <<now, symbols, subscribed, last_bar, queues, consumer, limits>>

\* get_new_symbols_and_queues: each symbol not in symbols yet is assigned to
\* a random consumer, at once; scanner_input goes on if there was any.
GetNewSymbols ==
  /\ phase = "idle"
  /\ scanner_queue # << >>
  /\ scanner_queue' = Tail(scanner_queue)
  /\ LET new == Head(scanner_queue) \ symbols IN
     IF new = {}
     THEN UNCHANGED <<phase, new_symbols, routed>>
     ELSE /\ new_symbols' = new
          /\ phase' = "subscribe"
          /\ \E queue_of \in [new -> Consumers] :
               routed' = [s \in Symbols |->
                            IF s \in new THEN queue_of[s] ELSE routed[s]]
  /\ UNCHANGED <<now, symbols, subscribed, last_bar, queues, consumer, limits>>

\* The provider streams the symbols from here on; subscribe() then sleeps.
SubscribeNewSymbols ==
  /\ phase = "subscribe"
  /\ subscribed' = subscribed \cup new_symbols
  /\ phase' = "save"
  /\ UNCHANGED <<now, scanner_queue, new_symbols, symbols, routed, last_bar,
                 queues, consumer, limits>>

\* Mutant: the symbols written are not added to those that are tracked.
SaveNewSymbols_Unlisted ==
  /\ phase = "save"
  /\ new_symbols' = {}
  /\ phase' = "idle"
  /\ UNCHANGED <<now, scanner_queue, symbols, routed, subscribed, last_bar, queues,
                 consumer, limits>>

\* TrendingTickers.save commits, and only now symbols has the new ones.
SaveNewSymbols ==
  /\ phase = "save"
  /\ symbols' = symbols \cup new_symbols
  /\ new_symbols' = {}
  /\ phase' = "idle"
  /\ UNCHANGED <<now, scanner_queue, routed, subscribed, last_bar, queues,
                 consumer, limits>>

\* An exception in subscribe (after some of the symbols) or in save is logged
\* by scanner_input, which goes on with the next list.
AddingFails ==
  /\ phase \in {"subscribe", "save"}
  /\ failures < MaxFailures
  /\ failures' = failures + 1
  /\ IF phase = "subscribe"
     THEN \E part \in SUBSET new_symbols : subscribed' = subscribed \cup part
     ELSE UNCHANGED subscribed
  /\ new_symbols' = {}
  /\ phase' = "idle"
  /\ UNCHANGED <<now, scanner_queue, symbols, routed, last_bar, queues, consumer,
                 scans, trades, disconnects>>

-----------------------------------------------------------------------------
(* The data provider and the handlers of its stream.                        *)

Clock ==
  /\ now < LastSecond
  /\ now' = now + 1
  /\ UNCHANGED <<producer, last_bar, queues, consumer, limits>>

\* Mutant: the event goes to the front of the queue.
Publish_InFront(e) ==
  queues' = [queues EXCEPT ![routed[e.sym]] = <<e>> \o @]

Publish(e) == queues' = [queues EXCEPT ![routed[e.sym]] = Append(@, e)]

TradesHandler(s) ==
  /\ s \in subscribed
  /\ trades < MaxTrades /\ trades + disconnects < MaxEvents
  /\ trades' = trades + 1
  /\ Publish([sym |-> s, ts |-> now, ev |-> "T"])
  /\ UNCHANGED <<now, producer, last_bar, consumer, scans, failures,
                 disconnects>>

\* The first second of the last minute that is over.
ClosedMinute == now - (now % MinuteLength) - MinuteLength

\* A minute bar carries the time its minute began and comes when it is over.
BarHandler(s) ==
  /\ s \in subscribed
  /\ ClosedMinute >= 0
  /\ last_bar[s] # ClosedMinute
  /\ last_bar' = [last_bar EXCEPT ![s] = ClosedMinute]
  /\ Publish([sym |-> s, ts |-> ClosedMinute, ev |-> "AM"])
  /\ UNCHANGED <<now, producer, consumer, limits>>

-----------------------------------------------------------------------------
(* queue_consumer and handle_data_queue_msg.                                *)

TooOld(e) == e.ev # "AM" /\ now - e.ts > MaxLag
Repeated(c, e) == time_tick[c][e.sym] = e.ts

\* An old trade, or an event with the timestamp of the one accepted before it,
\* is dropped.
Drop(c) ==
  /\ queues[c] # << >>
  /\ TooOld(Head(queues[c])) \/ Repeated(c, Head(queues[c]))
  /\ queues' = [queues EXCEPT ![c] = Tail(@)]
  /\ UNCHANGED <<now, producer, last_bar, consumer, limits>>

\* time_tick is set before the event is handled.
Accepts(c, e) ==
  /\ queues[c] # << >>
  /\ e = Head(queues[c])
  /\ ~TooOld(e) /\ ~Repeated(c, e)
  /\ time_tick' = [time_tick EXCEPT ![c][e.sym] = e.ts]

\* handle_aggregate completes: the strategies were called.
Handle(c) ==
  LET e == Head(queues[c]) IN
  /\ Accepts(c, e)
  /\ queues' = [queues EXCEPT ![c] = Tail(@)]
  /\ seen' = IF e.ev = "AM"
             THEN seen \cup {[consumer |-> c, sym |-> e.sym, ts |-> e.ts]}
             ELSE seen
  /\ UNCHANGED <<now, producer, last_bar, limits>>

\* An exception before the strategies are called (do_strategies swallows those
\* of strategies): a ConnectionError puts the event back at the end of the
\* queue, any other drops it.
HandlingFails(c) ==
  LET e == Head(queues[c]) IN
  /\ Accepts(c, e)
  /\ \/ /\ queues' = [queues EXCEPT ![c] = Tail(@)]
        /\ UNCHANGED disconnects
     \/ /\ disconnects < MaxDisconnects /\ trades + disconnects < MaxEvents
        /\ disconnects' = disconnects + 1
        /\ queues' = [queues EXCEPT ![c] = Append(Tail(@), e)]
  /\ UNCHANGED <<now, producer, last_bar, seen, scans, trades, failures>>

-----------------------------------------------------------------------------
ScannerInput ==
  GetNewSymbols \/ SubscribeNewSymbols \/ SaveNewSymbols \/ AddingFails
Stream == Clock \/ \E s \in Symbols : TradesHandler(s) \/ BarHandler(s)
QueueConsumer(c) == Drop(c) \/ Handle(c) \/ HandlingFails(c)

Next ==
  ScannerRuns \/ ScannerInput \/ Stream \/ \E c \in Consumers : QueueConsumer(c)

Spec == Init /\ [][Next]_vars

-----------------------------------------------------------------------------
(* Properties.                                                              *)

\* Consumer c has data of symbol s in its queue, or has accepted some.
Holds(c, s) ==
  time_tick[c][s] # None \/ \E i \in DOMAIN queues[c] : queues[c][i].sym = s

\* As long as no subscription and no write failed, all the data of a symbol is
\* with the consumer it is routed to, so that one process alone runs
\* strategies, holds the open order and counts the position of a symbol.
HeldWhereRouted ==
  failures = 0 =>
    \A c \in Consumers, s \in Symbols : Holds(c, s) => routed[s] = c

\* The consumers that have data of symbol s.
Holders(s) == {c \in Consumers : Holds(c, s)}

\* A failed subscription or write takes a symbol to one more consumer at most,
\* however often scanners pick it again and whatever is still queued for the
\* consumers it was with: once it is in producer.symbols it stays where it is.
OneMovePerFailure ==
  \A s \in Symbols : Cardinality(Holders(s)) <= failures + 1

\* Two consumers never work on the same symbol.
OneTracker ==
  \A s \in Symbols, c, d \in Consumers : Holds(c, s) /\ Holds(d, s) => c = d

\* The strategies of a consumer see the minute bars of a symbol in the order
\* of time, unless a ConnectionError sent one back to the queue, whatever
\* subscriptions fail and however often the symbol is routed anew.
BarsInOrder ==
  [][disconnects = 0 =>
       \A b \in seen' \ seen : \A a \in seen :
         a.consumer = b.consumer /\ a.sym = b.sym => a.ts < b.ts]_vars
=============================================================================
