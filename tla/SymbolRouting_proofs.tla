------------------------ MODULE SymbolRouting_proofs -------------------------
(* Proofs about SymbolRouting, for every value of its constants.            *)
EXTENDS SymbolRouting, FiniteSetTheorems, TLAPS

\* Between two lists of symbols, what the provider streams is in symbols;
\* while scanner_input adds symbols, it may also be one of those.
StreamKnown ==
  /\ phase = "save" => subscribed \subseteq symbols \cup new_symbols
  /\ phase # "save" => subscribed \subseteq symbols
  /\ phase = "subscribe" => new_symbols \cap symbols = {}

\* Data exists only of what is streamed.
HeldIsStreamed ==
  \A c \in Consumers, s \in Symbols : Holds(c, s) => s \in subscribed

RoutingInv ==
  /\ TypeOK
  /\ failures = 0 => StreamKnown
  /\ HeldIsStreamed
  /\ HeldWhereRouted

-----------------------------------------------------------------------------
(* Type correctness.                                                        *)

LEMMA PublishType ==
  ASSUME TypeOK, NEW e \in Event, Publish(e)
  PROVE  queues' \in [Consumers -> Seq(Event)]
<1>1. CASE routed[e.sym] \in Consumers
  <2>1. Append(queues[routed[e.sym]], e) \in Seq(Event)
    BY <1>1 DEF TypeOK
  <2> QED BY <2>1 DEF TypeOK, Publish
<1>2. CASE routed[e.sym] \notin Consumers
  BY <1>2 DEF TypeOK, Publish
<1> QED BY <1>1, <1>2

LEMMA ClosedMinuteType ==
  ASSUME TypeOK, ClosedMinute >= 0
  PROVE  ClosedMinute \in Second
<1>1. now \in Nat /\ now <= LastSecond /\ LastSecond \in Nat
  BY TimeAssumption DEF TypeOK, Second
<1>2. MinuteLength \in Nat /\ MinuteLength > 0
  BY MinuteAssumption
<1>3. now % MinuteLength \in 0 .. (MinuteLength - 1)
  BY <1>1, <1>2
<1> QED BY <1>1, <1>2, <1>3 DEF ClosedMinute, Second

\* What queue_consumer takes from a queue is an event.
LEMMA HeadType ==
  ASSUME TypeOK, NEW c \in Consumers, queues[c] # << >>
  PROVE  Head(queues[c]) \in Event /\ Tail(queues[c]) \in Seq(Event)
BY DEF TypeOK

LEMMA TypeStep ==
  ASSUME TypeOK, [Next]_vars
  PROVE  TypeOK'
<1> USE DEF TypeOK
<1>1. CASE ScannerRuns
  <2>1. PICK picked \in (SUBSET Symbols) \ {{}} :
          scanner_queue' = Append(scanner_queue, picked)
    BY <1>1 DEF ScannerRuns
  <2>2. scanner_queue' \in Seq(SUBSET Symbols)
    BY <2>1
  <2>3. scans' \in 0 .. MaxScans
    BY <1>1, LimitsAssumption DEF ScannerRuns
  <2> QED BY <1>1, <2>2, <2>3 DEF ScannerRuns, consumer
<1>2. CASE GetNewSymbols
  <2> DEFINE new == Head(scanner_queue) \ symbols
  <2>1. scanner_queue' \in Seq(SUBSET Symbols) /\ new \in SUBSET Symbols
    BY <1>2 DEF GetNewSymbols
  <2>2. CASE new = {}
    BY <1>2, <2>1, <2>2 DEF GetNewSymbols, consumer, limits
  <2>3. CASE new # {}
    <3>1. PICK queue_of \in [new -> Consumers] :
            routed' = [s \in Symbols |-> IF s \in new THEN queue_of[s] ELSE routed[s]]
      BY <1>2, <2>3 DEF GetNewSymbols
    <3>2. routed' \in [Symbols -> Consumers \cup {None}]
      BY <3>1
    <3>3. new_symbols' = new /\ phase' = "subscribe"
      BY <1>2, <2>3 DEF GetNewSymbols
    <3> QED BY <1>2, <2>1, <3>2, <3>3 DEF GetNewSymbols, consumer, limits
  <2> QED BY <2>2, <2>3
<1>3. CASE SubscribeNewSymbols
  BY <1>3 DEF SubscribeNewSymbols, consumer, limits
<1>4. CASE SaveNewSymbols
  BY <1>4 DEF SaveNewSymbols, consumer, limits
<1>5. CASE AddingFails
  <2>1. failures' \in 0 .. MaxFailures
    BY <1>5, LimitsAssumption DEF AddingFails
  <2>2. subscribed' \subseteq Symbols
    BY <1>5 DEF AddingFails
  <2> QED BY <1>5, <2>1, <2>2 DEF AddingFails, consumer
<1>6. CASE Clock
  <2>1. now' \in Second
    BY <1>6, TimeAssumption DEF Clock, Second
  <2> QED BY <1>6, <2>1 DEF Clock, producer, consumer, limits
<1>7. ASSUME NEW s \in Symbols, TradesHandler(s) PROVE TypeOK'
  <2>1. [sym |-> s, ts |-> now, ev |-> "T"] \in Event
    BY DEF Event
  <2>2. queues' \in [Consumers -> Seq(Event)]
    BY <1>7, <2>1, PublishType DEF TradesHandler
  <2>3. trades' \in 0 .. MaxTrades
    BY <1>7, LimitsAssumption DEF TradesHandler
  <2> QED BY <1>7, <2>2, <2>3 DEF TradesHandler, producer, consumer
<1>8. ASSUME NEW s \in Symbols, BarHandler(s) PROVE TypeOK'
  <2>1. ClosedMinute \in Second
    BY <1>8, ClosedMinuteType DEF BarHandler
  <2>2. [sym |-> s, ts |-> ClosedMinute, ev |-> "AM"] \in Event
    BY <2>1 DEF Event
  <2>3. queues' \in [Consumers -> Seq(Event)]
    BY <1>8, <2>2, PublishType DEF BarHandler
  <2>4. last_bar' \in [Symbols -> Second \cup {None}]
    BY <1>8, <2>1 DEF BarHandler
  <2> QED BY <1>8, <2>3, <2>4 DEF BarHandler, producer, consumer, limits
<1>9. ASSUME NEW c \in Consumers, Drop(c) PROVE TypeOK'
  <2>1. Tail(queues[c]) \in Seq(Event)
    BY <1>9, HeadType DEF Drop
  <2> QED BY <1>9, <2>1 DEF Drop, producer, consumer, limits
<1>10. ASSUME NEW c \in Consumers, Handle(c) PROVE TypeOK'
  <2> DEFINE e == Head(queues[c])
  <2>1. e \in Event /\ Tail(queues[c]) \in Seq(Event)
    BY <1>10, HeadType DEF Handle, Accepts
  <2>2. e.sym \in Symbols /\ e.ts \in Second
    BY <2>1 DEF Event
  <2>3. time_tick' \in [Consumers -> [Symbols -> Second \cup {None}]]
    BY <1>10, <2>2 DEF Handle, Accepts
  <2>4. seen' \subseteq [consumer : Consumers, sym : Symbols, ts : Second]
    BY <1>10, <2>2 DEF Handle
  <2> QED BY <1>10, <2>1, <2>3, <2>4 DEF Handle, producer, limits
<1>11. ASSUME NEW c \in Consumers, HandlingFails(c) PROVE TypeOK'
  <2> DEFINE e == Head(queues[c])
  <2>1. e \in Event /\ Tail(queues[c]) \in Seq(Event)
    BY <1>11, HeadType DEF HandlingFails, Accepts
  <2>2. e.sym \in Symbols /\ e.ts \in Second
    BY <2>1 DEF Event
  <2>3. time_tick' \in [Consumers -> [Symbols -> Second \cup {None}]]
    BY <1>11, <2>2 DEF HandlingFails, Accepts
  <2>4. Append(Tail(queues[c]), e) \in Seq(Event)
    BY <2>1
  <2>5. queues' \in [Consumers -> Seq(Event)]
    BY <1>11, <2>1, <2>4 DEF HandlingFails
  <2>6. disconnects' \in 0 .. MaxDisconnects
    BY <1>11, LimitsAssumption DEF HandlingFails
  <2> QED BY <1>11, <2>3, <2>5, <2>6 DEF HandlingFails, producer
<1>12. CASE UNCHANGED vars
  BY <1>12 DEF vars, producer, consumer, limits
<1> QED
  BY <1>1, <1>2, <1>3, <1>4, <1>5, <1>6, <1>7, <1>8, <1>9, <1>10, <1>11, <1>12
  DEF Next, ScannerInput, Stream, QueueConsumer

\* Every reachable state is well typed: the producer, the stream and the
\* consumers exchange only events of known symbols, timed by the clock.
THEOREM RoutingTypeCorrect == Spec => []TypeOK
<1>1. Init => TypeOK
  BY TimeAssumption, LimitsAssumption DEF Init, TypeOK, Second
<1> QED BY <1>1, TypeStep, PTL DEF Spec

-----------------------------------------------------------------------------
(* Where the data of a symbol is held.                                      *)

\* Nothing is held after a step that was not held before, if the step moves
\* no event and accepts none.
LEMMA HeldSame ==
  ASSUME UNCHANGED <<queues, time_tick>>, NEW c \in Consumers, NEW s \in Symbols
  PROVE  Holds(c, s)' <=> Holds(c, s)
BY DEF Holds

\* An event published is held by the consumer its symbol is routed to.
LEMMA HeldAfterPublish ==
  ASSUME TypeOK, NEW e \in Event, Publish(e), UNCHANGED time_tick,
         NEW c \in Consumers, NEW s \in Symbols, Holds(c, s)'
  PROVE  Holds(c, s) \/ (c = routed[e.sym] /\ s = e.sym)
<1>1. CASE c = routed[e.sym]
  <2>1. queues[c] \in Seq(Event) /\ queues'[c] = Append(queues[c], e)
    BY <1>1 DEF TypeOK, Publish
  <2>2. ASSUME NEW i \in DOMAIN queues'[c], queues'[c][i].sym = s
        PROVE  Holds(c, s) \/ s = e.sym
    <3>1. i \in 1 .. Len(queues[c]) + 1
      BY <2>1, <2>2
    <3>2. CASE i = Len(queues[c]) + 1
      BY <2>1, <2>2, <3>2
    <3>3. CASE i \in 1 .. Len(queues[c])
      BY <2>1, <2>2, <3>3 DEF Holds
    <3> QED BY <2>1, <3>1, <3>2, <3>3
  <2> QED BY <1>1, <2>2 DEF Holds
<1>2. CASE c # routed[e.sym]
  BY <1>2 DEF TypeOK, Publish, Holds
<1> QED BY <1>1, <1>2

\* Taking the head of a queue, and putting it back at the end or not, leaves a
\* consumer holding what it held at most.
LEMMA HeldAfterTake ==
  ASSUME TypeOK, NEW d \in Consumers, queues[d] # << >>,
         \/ queues' = [queues EXCEPT ![d] = Tail(@)]
         \/ queues' = [queues EXCEPT ![d] = Append(Tail(@), Head(queues[d]))],
         \/ UNCHANGED time_tick
         \/ Accepts(d, Head(queues[d])),
         NEW c \in Consumers, NEW s \in Symbols, Holds(c, s)'
  PROVE  Holds(c, s)
<1> DEFINE e == Head(queues[d])
<1>1. queues[d] \in Seq(Event) /\ Len(queues[d]) \in Nat \ {0} /\ e = queues[d][1]
  BY DEF TypeOK
<1>2. e \in Event /\ Tail(queues[d]) \in Seq(Event)
  BY HeadType
<1>3. e.sym \in Symbols /\ Holds(d, e.sym)
  BY <1>1, <1>2 DEF Event, Holds
<1>4. ASSUME time_tick'[c][s] # None PROVE Holds(c, s)
  <2>1. CASE UNCHANGED time_tick
    BY <1>4, <2>1 DEF Holds
  <2>2. CASE time_tick' = [time_tick EXCEPT ![d][e.sym] = e.ts]
    <3>1. CASE c = d /\ s = e.sym
      BY <1>3, <3>1
    <3>2. CASE ~(c = d /\ s = e.sym)
      BY <1>3, <1>4, <2>2, <3>2 DEF TypeOK, Holds
    <3> QED BY <3>1, <3>2
  <2> QED BY <2>1, <2>2 DEF Accepts
<1>5. ASSUME NEW i \in DOMAIN queues'[c], queues'[c][i].sym = s
      PROVE  Holds(c, s)
  <2>1. CASE c # d
    BY <1>5, <2>1 DEF TypeOK, Holds
  <2>2. CASE c = d /\ queues'[c] = Tail(queues[c])
    <3>1. i \in 1 .. Len(queues[c]) - 1 /\ queues'[c][i] = queues[c][i + 1]
      BY <1>1, <1>5, <2>2
    <3> QED BY <1>1, <1>5, <2>2, <3>1 DEF Holds
  <2>3. CASE c = d /\ queues'[c] = Append(Tail(queues[c]), e)
    <3>1. CASE i \in 1 .. Len(queues[c]) - 1
      <4>1. queues'[c][i] = queues[c][i + 1]
        BY <1>1, <1>2, <2>3, <3>1
      <4> QED BY <1>1, <1>5, <2>3, <3>1, <4>1 DEF Holds
    <3>2. CASE i = Len(queues[c])
      <4>1. queues'[c][i] = e
        BY <1>1, <1>2, <2>3, <3>2
      <4> QED BY <1>3, <1>5, <2>3, <4>1
    <3>3. i \in 1 .. Len(queues[c])
      BY <1>1, <1>2, <1>5, <2>3
    <3> QED BY <1>1, <2>3, <3>1, <3>2, <3>3
  <2> QED BY <2>1, <2>2, <2>3 DEF TypeOK
<1> QED BY <1>4, <1>5 DEF Holds

LEMMA RoutingStep ==
  ASSUME RoutingInv, [Next]_vars
  PROVE  RoutingInv'
<1>1. TypeOK /\ TypeOK'
  BY TypeStep DEF RoutingInv
<1>2. SUFFICES /\ failures' = 0 => StreamKnown'
               /\ HeldIsStreamed'
               /\ HeldWhereRouted'
  BY <1>1 DEF RoutingInv
<1>3. failures \in Nat /\ failures' \in Nat
  BY <1>1, LimitsAssumption DEF TypeOK
<1>4. CASE ScannerRuns \/ Clock \/ UNCHANGED vars
  <2>1. UNCHANGED <<phase, new_symbols, symbols, routed, subscribed, queues,
                    time_tick, failures>>
    BY <1>4 DEF ScannerRuns, Clock, vars, producer, consumer, limits
  <2> QED BY <2>1, HeldSame DEF RoutingInv, StreamKnown, HeldIsStreamed,
                                HeldWhereRouted
<1>5. CASE GetNewSymbols
  <2> DEFINE new == Head(scanner_queue) \ symbols
  <2>1. UNCHANGED <<symbols, subscribed, queues, time_tick, failures>>
    BY <1>5 DEF GetNewSymbols, consumer, limits
  <2>2. failures = 0 => subscribed \subseteq symbols
    BY <1>5 DEF GetNewSymbols, RoutingInv, StreamKnown
  <2>3. \A s \in symbols : s \in Symbols => routed'[s] = routed[s]
    BY <1>1, <1>5 DEF GetNewSymbols, TypeOK
  <2>4. \/ UNCHANGED <<phase, new_symbols>>
        \/ phase' = "subscribe" /\ new_symbols' = new
    BY <1>5 DEF GetNewSymbols
  <2>5. failures' = 0 => StreamKnown'
    BY <2>1, <2>2, <2>4 DEF RoutingInv, StreamKnown
  <2>6. HeldIsStreamed'
    BY <2>1, HeldSame DEF RoutingInv, HeldIsStreamed
  <2>7. HeldWhereRouted'
    BY <2>1, <2>2, <2>3, HeldSame DEF RoutingInv, HeldIsStreamed, HeldWhereRouted
  <2> QED BY <2>5, <2>6, <2>7
<1>6. CASE SubscribeNewSymbols \/ SaveNewSymbols
  <2>1. UNCHANGED <<routed, queues, time_tick, failures>>
    BY <1>6 DEF SubscribeNewSymbols, SaveNewSymbols, consumer, limits
  <2>2. subscribed \subseteq subscribed'
    BY <1>6 DEF SubscribeNewSymbols, SaveNewSymbols
  <2>3. failures' = 0 => StreamKnown'
    BY <1>6, <2>1 DEF SubscribeNewSymbols, SaveNewSymbols, RoutingInv, StreamKnown
  <2>4. HeldIsStreamed'
    BY <2>1, <2>2, HeldSame DEF RoutingInv, HeldIsStreamed
  <2>5. HeldWhereRouted'
    BY <2>1, HeldSame DEF RoutingInv, HeldWhereRouted
  <2> QED BY <2>3, <2>4, <2>5
<1>7. CASE AddingFails
  <2>1. failures' # 0
    BY <1>3, <1>7 DEF AddingFails
  <2>2. UNCHANGED <<queues, time_tick>> /\ subscribed \subseteq subscribed'
    BY <1>7 DEF AddingFails, consumer
  <2> QED BY <2>1, <2>2, HeldSame DEF RoutingInv, HeldIsStreamed, HeldWhereRouted
<1>8. ASSUME NEW sym \in Symbols, TradesHandler(sym) \/ BarHandler(sym)
      PROVE  (failures' = 0 => StreamKnown') /\ HeldIsStreamed' /\ HeldWhereRouted'
  <2>1. UNCHANGED <<phase, new_symbols, symbols, routed, subscribed, time_tick,
                    failures>>
    BY <1>8 DEF TradesHandler, BarHandler, producer, consumer, limits
  <2>2. sym \in subscribed
    BY <1>8 DEF TradesHandler, BarHandler
  <2>3. PICK e \in Event : e.sym = sym /\ Publish(e)
    <3>1. [sym |-> sym, ts |-> now, ev |-> "T"] \in Event
      BY <1>1 DEF TypeOK, Event
    <3>2. BarHandler(sym) => [sym |-> sym, ts |-> ClosedMinute, ev |-> "AM"] \in Event
      BY <1>1, ClosedMinuteType DEF BarHandler, Event
    <3> QED BY <1>8, <3>1, <3>2 DEF TradesHandler, BarHandler
  <2>4. \A c \in Consumers, s \in Symbols :
          Holds(c, s)' => Holds(c, s) \/ (c = routed[sym] /\ s = sym)
    BY <1>1, <2>1, <2>3, HeldAfterPublish
  <2> QED BY <2>1, <2>2, <2>4 DEF RoutingInv, StreamKnown, HeldIsStreamed,
                                  HeldWhereRouted
<1>9. ASSUME NEW d \in Consumers, QueueConsumer(d)
      PROVE  (failures' = 0 => StreamKnown') /\ HeldIsStreamed' /\ HeldWhereRouted'
  <2>1. UNCHANGED <<phase, new_symbols, symbols, routed, subscribed, failures>>
    BY <1>9 DEF QueueConsumer, Drop, Handle, HandlingFails, producer, limits
  <2>2. /\ queues[d] # << >>
        /\ \/ queues' = [queues EXCEPT ![d] = Tail(@)]
           \/ queues' = [queues EXCEPT ![d] = Append(Tail(@), Head(queues[d]))]
        /\ UNCHANGED time_tick \/ Accepts(d, Head(queues[d]))
    BY <1>9 DEF QueueConsumer, Drop, Handle, HandlingFails, Accepts, consumer
  <2>3. \A c \in Consumers, s \in Symbols : Holds(c, s)' => Holds(c, s)
    BY <1>1, <2>2, HeldAfterTake
  <2> QED BY <2>1, <2>3 DEF RoutingInv, StreamKnown, HeldIsStreamed,
                            HeldWhereRouted
<1> QED
  BY <1>4, <1>5, <1>6, <1>7, <1>8, <1>9 DEF Next, ScannerInput, Stream

\* As long as adding symbols never failed, every event of a symbol, queued or
\* accepted, is with the consumer the producer routes the symbol to: the
\* assignment never changes once data flows.
THEOREM HeldWhereRoutedHolds == Spec => []HeldWhereRouted
<1>1. Init => RoutingInv
  <2>1. Init => TypeOK
    BY TimeAssumption, LimitsAssumption DEF Init, TypeOK, Second
  <2>2. Init => \A c \in Consumers, s \in Symbols : ~Holds(c, s)
    BY DEF Init, Holds
  <2> QED BY <2>1, <2>2 DEF Init, RoutingInv, StreamKnown, HeldIsStreamed,
                            HeldWhereRouted
<1>2. RoutingInv => HeldWhereRouted
  BY DEF RoutingInv
<1> QED BY <1>1, <1>2, RoutingStep, PTL DEF Spec

-----------------------------------------------------------------------------
(* How often a symbol changes its consumer.                                 *)

\* S has at most n elements.
Bounded(S, n) == IsFiniteSet(S) /\ Cardinality(S) <= n

LEMMA BoundedPart ==
  ASSUME NEW S, NEW n \in Int, Bounded(S, n), NEW T \in SUBSET S, NEW k \in Int, n <= k
  PROVE  Bounded(T, k)
<1>1. IsFiniteSet(T) /\ Cardinality(T) <= Cardinality(S)
  BY FS_Subset DEF Bounded
<1>2. Cardinality(T) \in Int /\ Cardinality(S) \in Int
  BY <1>1, FS_CardinalityType DEF Bounded
<1> QED  BY <1>1, <1>2 DEF Bounded

LEMMA BoundedMore ==
  ASSUME NEW S, NEW n \in Int, Bounded(S, n), NEW x
  PROVE  Bounded(S \cup {x}, n + 1)
<1>1. /\ IsFiniteSet(S \cup {x})
      /\ Cardinality(S \cup {x}) = Cardinality(S) \/ Cardinality(S \cup {x}) = Cardinality(S) + 1
  BY FS_AddElement DEF Bounded
<1>2. Cardinality(S) \in Int
  BY FS_CardinalityType DEF Bounded
<1> QED  BY <1>1, <1>2 DEF Bounded

\* The consumers symbol s has been with, and the one it is routed to.
Reached(s) == Holders(s) \cup ({routed[s]} \cap Consumers)

\* Each of them but the last one took a failure; the last one is for good, or at
\* least until the addition under way fails.
Moves(s) == failures + IF s \in symbols \cup new_symbols THEN 1 ELSE 0

MovesInv ==
  /\ TypeOK
  /\ phase = "idle" => new_symbols = {}
  /\ \A s \in Symbols : Bounded(Reached(s), Moves(s))

\* No step takes a symbol back to where its data never was.
LEMMA ReachedKept ==
  ASSUME TypeOK, UNCHANGED routed, NEW s \in Symbols,
         \A c \in Consumers : Holds(c, s)' => Holds(c, s) \/ c = routed[s]
  PROVE  Reached(s)' \in SUBSET Reached(s)
BY DEF Reached, Holders

LEMMA MovesStep ==
  ASSUME MovesInv, [Next]_vars
  PROVE  MovesInv'
<1>1. TypeOK /\ TypeOK'
  BY TypeStep DEF MovesInv
<1>2. /\ failures \in Nat /\ failures' \in Nat
      /\ \A s \in Symbols : Moves(s) \in Int /\ Moves(s)' \in Int
  BY <1>1, LimitsAssumption DEF TypeOK, Moves
<1>3. ASSUME \A s \in Symbols : Reached(s)' \in SUBSET Reached(s) /\ Moves(s) <= Moves(s)'
      PROVE  \A s \in Symbols : Bounded(Reached(s), Moves(s))'
  <2>1. ASSUME NEW s \in Symbols PROVE Bounded(Reached(s)', Moves(s)')
    BY <1>2, <1>3, BoundedPart DEF MovesInv
  <2> QED  BY <2>1 DEF Bounded
<1>4. CASE ScannerRuns \/ Clock \/ UNCHANGED vars
  <2>1. UNCHANGED <<phase, new_symbols, symbols, routed, queues, time_tick, failures>>
    BY <1>4 DEF ScannerRuns, Clock, vars, producer, consumer, limits
  <2>2. \A s \in Symbols : Reached(s)' \in SUBSET Reached(s) /\ Moves(s) <= Moves(s)'
    BY <1>1, <1>2, <2>1, HeldSame, ReachedKept DEF Moves
  <2> QED  BY <1>1, <1>3, <2>1, <2>2 DEF MovesInv
<1>5. CASE GetNewSymbols
  <2> DEFINE new == Head(scanner_queue) \ symbols
  <2>1. /\ phase = "idle" /\ new_symbols = {}
        /\ UNCHANGED <<symbols, queues, time_tick, failures>>
    BY <1>5 DEF GetNewSymbols, consumer, limits, MovesInv
  <2>2. CASE UNCHANGED <<phase, new_symbols, routed>>
    <3>1. \A s \in Symbols : Reached(s)' \in SUBSET Reached(s) /\ Moves(s) <= Moves(s)'
      BY <1>1, <1>2, <2>1, <2>2, HeldSame, ReachedKept DEF Moves
    <3> QED  BY <1>1, <1>3, <2>1, <2>2, <3>1 DEF MovesInv
  <2>3. CASE ~UNCHANGED <<phase, new_symbols, routed>>
    <3>1. /\ phase' = "subscribe" /\ new_symbols' = new
          /\ \A s \in Symbols : s \notin new => routed'[s] = routed[s]
      BY <1>5, <2>3 DEF GetNewSymbols
    <3>2. ASSUME NEW s \in Symbols PROVE Bounded(Reached(s)', Moves(s)')
      <4>1. Holders(s)' = Holders(s)
        BY <2>1, HeldSame DEF Holders
      <4>2. CASE s \in new
        <5>1. Moves(s)' = Moves(s) + 1
          BY <1>2, <2>1, <3>1, <4>2 DEF Moves
        <5>2. Bounded(Reached(s) \cup {routed'[s]}, Moves(s) + 1)
          BY <1>2, BoundedMore DEF MovesInv
        <5>3. Reached(s)' \in SUBSET (Reached(s) \cup {routed'[s]})
          BY <4>1 DEF Reached
        <5> QED  BY <1>2, <5>1, <5>2, <5>3, BoundedPart
      <4>3. CASE s \notin new
        <5>1. Reached(s)' = Reached(s) /\ Moves(s)' = Moves(s)
          BY <2>1, <3>1, <4>1, <4>3 DEF Reached, Moves
        <5> QED  BY <5>1 DEF MovesInv
      <4> QED  BY <4>2, <4>3
    <3>3. \A s \in Symbols : Bounded(Reached(s), Moves(s))'
      BY <3>2 DEF Bounded
    <3> QED  BY <1>1, <3>1, <3>3 DEF MovesInv
  <2> QED  BY <2>2, <2>3
<1>6. CASE SubscribeNewSymbols \/ SaveNewSymbols
  <2>1. /\ UNCHANGED <<routed, queues, time_tick, failures>>
        /\ symbols' \cup new_symbols' = symbols \cup new_symbols
        /\ phase' = "idle" => new_symbols' = {}
    BY <1>6 DEF SubscribeNewSymbols, SaveNewSymbols, consumer, limits
  <2>2. \A s \in Symbols : Reached(s)' \in SUBSET Reached(s) /\ Moves(s) <= Moves(s)'
    BY <1>1, <1>2, <2>1, HeldSame, ReachedKept DEF Moves
  <2> QED  BY <1>1, <1>3, <2>1, <2>2 DEF MovesInv
<1>7. CASE AddingFails
  <2>1. /\ UNCHANGED <<symbols, routed, queues, time_tick>>
        /\ failures' = failures + 1 /\ new_symbols' = {}
    BY <1>7 DEF AddingFails, consumer
  <2>2. \A s \in Symbols : Reached(s)' \in SUBSET Reached(s) /\ Moves(s) <= Moves(s)'
    BY <1>1, <1>2, <2>1, HeldSame, ReachedKept DEF Moves
  <2> QED  BY <1>1, <1>3, <2>1, <2>2 DEF MovesInv
<1>8. ASSUME NEW sym \in Symbols, TradesHandler(sym) \/ BarHandler(sym)
      PROVE  MovesInv'
  <2>1. UNCHANGED <<phase, new_symbols, symbols, routed, time_tick, failures>>
    BY <1>8 DEF TradesHandler, BarHandler, producer, consumer, limits
  <2>2. PICK e \in Event : e.sym = sym /\ Publish(e)
    <3>1. [sym |-> sym, ts |-> now, ev |-> "T"] \in Event
      BY <1>1 DEF TypeOK, Event
    <3>2. BarHandler(sym) => [sym |-> sym, ts |-> ClosedMinute, ev |-> "AM"] \in Event
      BY <1>1, ClosedMinuteType DEF BarHandler, Event
    <3> QED BY <1>8, <3>1, <3>2 DEF TradesHandler, BarHandler
  <2>3. \A c \in Consumers, s \in Symbols :
          Holds(c, s)' => Holds(c, s) \/ (c = routed[sym] /\ s = sym)
    BY <1>1, <2>1, <2>2, HeldAfterPublish
  <2>4. \A s \in Symbols : Reached(s)' \in SUBSET Reached(s) /\ Moves(s) <= Moves(s)'
    BY <1>1, <1>2, <2>1, <2>3, ReachedKept DEF Moves
  <2> QED  BY <1>1, <1>3, <2>1, <2>4 DEF MovesInv
<1>9. ASSUME NEW d \in Consumers, QueueConsumer(d) PROVE MovesInv'
  <2>1. UNCHANGED <<phase, new_symbols, symbols, routed, failures>>
    BY <1>9 DEF QueueConsumer, Drop, Handle, HandlingFails, producer, limits
  <2>2. /\ queues[d] # << >>
        /\ \/ queues' = [queues EXCEPT ![d] = Tail(@)]
           \/ queues' = [queues EXCEPT ![d] = Append(Tail(@), Head(queues[d]))]
        /\ UNCHANGED time_tick \/ Accepts(d, Head(queues[d]))
    BY <1>9 DEF QueueConsumer, Drop, Handle, HandlingFails, Accepts, consumer
  <2>3. \A c \in Consumers, s \in Symbols : Holds(c, s)' => Holds(c, s)
    BY <1>1, <2>2, HeldAfterTake
  <2>4. \A s \in Symbols : Reached(s)' \in SUBSET Reached(s) /\ Moves(s) <= Moves(s)'
    BY <1>1, <1>2, <2>1, <2>3, ReachedKept DEF Moves
  <2> QED  BY <1>1, <1>3, <2>1, <2>4 DEF MovesInv
<1> QED
  BY <1>4, <1>5, <1>6, <1>7, <1>8, <1>9 DEF Next, ScannerInput, Stream

\* However often scanners pick a symbol, its data is never with more consumers
\* than additions failed, and one more.
THEOREM OneMovePerFailureAlways == Spec => []OneMovePerFailure
<1>1. Init => MovesInv
  <2>1. Init => TypeOK
    BY TimeAssumption, LimitsAssumption DEF Init, TypeOK, Second
  <2>2. ASSUME Init, NEW s \in Symbols PROVE Bounded(Reached(s), Moves(s))
    <3>1. Reached(s) = {} /\ Moves(s) = 0
      BY <2>2, NoConsumerAssumption DEF Init, Reached, Holders, Holds, Moves
    <3> QED  BY <3>1, FS_EmptySet DEF Bounded
  <2> QED  BY <2>1, <2>2 DEF Init, MovesInv
<1>2. MovesInv => OneMovePerFailure
  <2> SUFFICES ASSUME MovesInv, NEW s \in Symbols
               PROVE  Cardinality(Holders(s)) <= failures + 1
    BY DEF OneMovePerFailure
  <2>1. failures \in Nat /\ Moves(s) \in Int /\ Moves(s) <= failures + 1
    BY LimitsAssumption DEF MovesInv, TypeOK, Moves
  <2>2. Holders(s) \in SUBSET Reached(s)
    BY DEF Reached
  <2>3. Bounded(Holders(s), failures + 1)
    BY <2>1, <2>2, BoundedPart DEF MovesInv
  <2> QED  BY <2>3 DEF Bounded
<1> QED  BY <1>1, <1>2, MovesStep, PTL DEF Spec

-----------------------------------------------------------------------------
(* The order of minute bars.                                                *)

\* What is left of a minute grows with the second, or begins anew.
LEMMA RemainderGrows ==
  ASSUME NEW n \in Nat, NEW len \in Nat \ {0}
  PROVE  (n + 1) % len <= (n % len) + 1
<1> DEFINE q == n \div len       r == n % len
           p == (n + 1) \div len m == (n + 1) % len
<1>1. /\ q \in Int /\ r \in Int /\ p \in Int /\ m \in Int
      /\ n = len * q + r /\ n + 1 = len * p + m
      /\ 0 <= r /\ r < len /\ 0 <= m /\ m < len
  OBVIOUS
<1> HIDE DEF q, r, p, m
<1>2. CASE p >= q
  <2>1. len * q <= len * p
    BY <1>1, <1>2
  <2> QED  BY <1>1, <2>1 DEF r, m
<1>3. CASE p <= q - 1
  <2>1. len * p <= len * (q - 1)
    BY <1>1, <1>3
  <2>2. len * (q - 1) = len * q - len
    BY <1>1
  <2>3. len * p \in Int /\ len * q \in Int
    BY <1>1
  <2> QED  BY <1>1, <2>1, <2>2, <2>3
<1> QED  BY <1>1, <1>2, <1>3

\* The minute that is over never goes back.
LEMMA MinutesGoOn ==
  ASSUME TypeOK, Clock
  PROVE  ClosedMinute <= ClosedMinute' /\ ClosedMinute \in Int /\ ClosedMinute' \in Int
<1>1. now \in Nat /\ MinuteLength \in Nat \ {0} /\ now' = now + 1
  BY MinuteAssumption, TimeAssumption DEF TypeOK, Second, Clock
<1>2. now % MinuteLength \in Int /\ now' % MinuteLength \in Int
  BY <1>1
<1>3. now' % MinuteLength <= (now % MinuteLength) + 1
  BY <1>1, RemainderGrows
<1> QED  BY <1>1, <1>2, <1>3 DEF ClosedMinute

IsBar(e, s) == e.ev = "AM" /\ e.sym = s

\* The bars of a symbol are streamed in order.
StreamedSoFar == \A s \in Symbols : last_bar[s] # None => last_bar[s] <= ClosedMinute

\* None was queued or seen that is newer than the last one streamed, and a
\* consumer's come in order: those it has seen, then those in its queue.
BarsLine ==
  \A c \in Consumers, s \in Symbols :
    /\ \A i \in 1 .. Len(queues[c]) :
         IsBar(queues[c][i], s) =>
           last_bar[s] # None /\ queues[c][i].ts <= last_bar[s]
    /\ \A i, j \in 1 .. Len(queues[c]) :
         i < j /\ IsBar(queues[c][i], s) /\ IsBar(queues[c][j], s) =>
           queues[c][i].ts < queues[c][j].ts
    /\ \A a \in seen : a.consumer = c /\ a.sym = s =>
         /\ last_bar[s] # None /\ a.ts <= last_bar[s]
         /\ \A i \in 1 .. Len(queues[c]) :
              IsBar(queues[c][i], s) => a.ts < queues[c][i].ts

BarsInv == TypeOK /\ StreamedSoFar /\ (disconnects = 0 => BarsLine)

LEMMA StreamedStep == ASSUME TypeOK, StreamedSoFar, [Next]_vars PROVE StreamedSoFar'
<1>1. TypeOK'
  BY TypeStep
<1>2. ClosedMinute \in Int
  BY MinuteAssumption, TimeAssumption DEF TypeOK, Second, ClosedMinute
<1>3. CASE UNCHANGED <<now, last_bar>>
  BY <1>3 DEF StreamedSoFar, ClosedMinute
<1>4. CASE Clock
  <2>1. last_bar' = last_bar /\ ClosedMinute <= ClosedMinute' /\ ClosedMinute' \in Int
    BY <1>4, MinutesGoOn DEF Clock
  <2>2. \A s \in Symbols : last_bar[s] # None => last_bar[s] \in Int
    BY TimeAssumption DEF TypeOK, Second
  <2> QED  BY <1>2, <2>1, <2>2 DEF StreamedSoFar
<1>5. ASSUME NEW s \in Symbols, BarHandler(s) PROVE StreamedSoFar'
  <2>1. now' = now /\ last_bar' = [last_bar EXCEPT ![s] = ClosedMinute]
    BY <1>5 DEF BarHandler
  <2>2. ClosedMinute' = ClosedMinute
    BY <2>1 DEF ClosedMinute
  <2> QED  BY <1>2, <2>1, <2>2 DEF StreamedSoFar, TypeOK
<1> QED
  BY <1>3, <1>4, <1>5
  DEF Next, ScannerRuns, ScannerInput, GetNewSymbols, SubscribeNewSymbols,
      SaveNewSymbols, AddingFails, Stream, TradesHandler, QueueConsumer, Drop, Handle,
      HandlingFails, vars

\* A trade, or a bar newer than all of its symbol, goes to the end of a queue.
LEMMA PublishKeepsLine ==
  ASSUME TypeOK, BarsLine, NEW e \in Event, Publish(e), UNCHANGED seen,
         \/ e.ev = "T" /\ UNCHANGED last_bar
         \/ /\ e.ev = "AM" /\ last_bar' = [last_bar EXCEPT ![e.sym] = e.ts]
            /\ last_bar[e.sym] = None \/ last_bar[e.sym] < e.ts
  PROVE  BarsLine'
<1>1. e.ts \in Int /\ e.ts # None /\ e.sym \in Symbols
  BY TimeAssumption, NoConsumerAssumption DEF Event, Second
<1>2. \A s \in Symbols :
        /\ last_bar'[s] = IF IsBar(e, s) THEN e.ts ELSE last_bar[s]
        /\ IsBar(e, s) => last_bar[s] = None \/ last_bar[s] < e.ts
        /\ last_bar[s] # None => last_bar[s] \in Int
  BY <1>1, TimeAssumption DEF TypeOK, IsBar, Second
<1> SUFFICES ASSUME NEW c \in Consumers, NEW s \in Symbols
             PROVE  /\ \A i \in 1 .. Len(queues'[c]) :
                         IsBar(queues'[c][i], s) =>
                           last_bar'[s] # None /\ queues'[c][i].ts <= last_bar'[s]
                    /\ \A i, j \in 1 .. Len(queues'[c]) :
                         i < j /\ IsBar(queues'[c][i], s) /\ IsBar(queues'[c][j], s) =>
                           queues'[c][i].ts < queues'[c][j].ts
                    /\ \A a \in seen : a.consumer = c /\ a.sym = s =>
                         /\ last_bar'[s] # None /\ a.ts <= last_bar'[s]
                         /\ \A i \in 1 .. Len(queues'[c]) :
                              IsBar(queues'[c][i], s) => a.ts < queues'[c][i].ts
  BY DEF BarsLine, IsBar
<1>3. queues[c] \in Seq(Event) /\ Len(queues[c]) \in Nat
  BY DEF TypeOK
<1>4. /\ \A i \in 1 .. Len(queues[c]) : queues[c][i].ts \in Int
      /\ \A a \in seen : a.ts \in Int
  <2>1. ASSUME NEW i \in 1 .. Len(queues[c]) PROVE queues[c][i].ts \in Int
    <3>1. queues[c][i] \in Event
      BY <1>3
    <3> QED  BY <3>1, TimeAssumption DEF Event, Second
  <2> QED  BY <2>1, TimeAssumption DEF TypeOK, Second
<1>5. \/ queues'[c] = queues[c]
      \/ queues'[c] = Append(queues[c], e)
  BY DEF Publish, TypeOK
<1>6. \A i \in 1 .. Len(queues[c]) :
        IsBar(queues[c][i], s) =>
          last_bar'[s] # None /\ queues[c][i].ts <= last_bar'[s]
  BY <1>1, <1>2, <1>4 DEF BarsLine
<1>7. \A a \in seen : a.consumer = c /\ a.sym = s =>
        /\ last_bar'[s] # None /\ a.ts <= last_bar'[s]
        /\ \A i \in 1 .. Len(queues[c]) :
             IsBar(queues[c][i], s) => a.ts < queues[c][i].ts
  BY <1>1, <1>2, <1>4 DEF BarsLine
<1>8. IsBar(e, s) =>
        /\ \A i \in 1 .. Len(queues[c]) : IsBar(queues[c][i], s) => queues[c][i].ts < e.ts
        /\ \A a \in seen : a.consumer = c /\ a.sym = s => a.ts < e.ts
        /\ last_bar'[s] = e.ts
  BY <1>1, <1>2, <1>4 DEF BarsLine
<1>9. CASE queues'[c] = queues[c]
  BY <1>6, <1>7, <1>9 DEF BarsLine
<1>10. CASE queues'[c] = Append(queues[c], e)
  <2>1. /\ Len(queues'[c]) = Len(queues[c]) + 1
        /\ \A i \in 1 .. Len(queues[c]) : queues'[c][i] = queues[c][i]
        /\ queues'[c][Len(queues[c]) + 1] = e
    BY <1>3, <1>10
  <2>2. \A i \in 1 .. Len(queues'[c]) :
          i \in 1 .. Len(queues[c]) \/ i = Len(queues[c]) + 1
    BY <1>3, <2>1
  <2>3. ASSUME NEW i \in 1 .. Len(queues'[c]), IsBar(queues'[c][i], s)
        PROVE  last_bar'[s] # None /\ queues'[c][i].ts <= last_bar'[s]
    BY <1>1, <1>6, <1>8, <2>1, <2>2, <2>3
  <2>4. ASSUME NEW i \in 1 .. Len(queues'[c]), NEW j \in 1 .. Len(queues'[c]),
               i < j, IsBar(queues'[c][i], s), IsBar(queues'[c][j], s)
        PROVE  queues'[c][i].ts < queues'[c][j].ts
    <3>1. i \in 1 .. Len(queues[c])
      BY <1>3, <2>1, <2>4
    <3>2. CASE j \in 1 .. Len(queues[c])
      BY <2>1, <2>4, <3>1, <3>2 DEF BarsLine
    <3>3. CASE j = Len(queues[c]) + 1
      BY <1>8, <2>1, <2>4, <3>1, <3>3
    <3> QED  BY <2>2, <3>2, <3>3
  <2>5. ASSUME NEW a \in seen, a.consumer = c, a.sym = s,
               NEW i \in 1 .. Len(queues'[c]), IsBar(queues'[c][i], s)
        PROVE  a.ts < queues'[c][i].ts
    <3>1. CASE i \in 1 .. Len(queues[c])
      BY <1>7, <2>1, <2>5, <3>1
    <3>2. CASE i = Len(queues[c]) + 1
      BY <1>8, <2>1, <2>5, <3>2
    <3> QED  BY <2>2, <3>1, <3>2
  <2> QED  BY <1>7, <2>3, <2>4, <2>5
<1> QED  BY <1>5, <1>9, <1>10

\* The head of a queue is taken, and given to the strategies or not.
LEMMA TakeKeepsLine ==
  ASSUME TypeOK, BarsLine, UNCHANGED last_bar, NEW d \in Consumers, queues[d] # << >>,
         queues' = [queues EXCEPT ![d] = Tail(@)],
         \/ UNCHANGED seen
         \/ /\ Head(queues[d]).ev = "AM"
            /\ seen' = seen \cup {[consumer |-> d, sym |-> Head(queues[d]).sym,
                                   ts |-> Head(queues[d]).ts]}
  PROVE  BarsLine'
<1> SUFFICES ASSUME NEW c \in Consumers, NEW s \in Symbols
             PROVE  /\ \A i \in 1 .. Len(queues'[c]) :
                         IsBar(queues'[c][i], s) =>
                           last_bar[s] # None /\ queues'[c][i].ts <= last_bar[s]
                    /\ \A i, j \in 1 .. Len(queues'[c]) :
                         i < j /\ IsBar(queues'[c][i], s) /\ IsBar(queues'[c][j], s) =>
                           queues'[c][i].ts < queues'[c][j].ts
                    /\ \A a \in seen' : a.consumer = c /\ a.sym = s =>
                         /\ last_bar[s] # None /\ a.ts <= last_bar[s]
                         /\ \A i \in 1 .. Len(queues'[c]) :
                              IsBar(queues'[c][i], s) => a.ts < queues'[c][i].ts
  BY DEF BarsLine, IsBar
<1>1. queues[c] \in Seq(Event) /\ Len(queues[c]) \in Nat
  BY DEF TypeOK
<1>2. CASE c # d
  <2>1. queues'[c] = queues[c]
    BY <1>2 DEF TypeOK
  <2>2. \A a \in seen' : a.consumer = c => a \in seen
    BY <1>2
  <2> QED  BY <2>1, <2>2 DEF BarsLine
<1>3. CASE c = d
  <2>1. /\ Len(queues[c]) >= 1 /\ Head(queues[c]) = queues[c][1]
        /\ Len(queues'[c]) = Len(queues[c]) - 1
        /\ \A i \in 1 .. Len(queues'[c]) : queues'[c][i] = queues[c][i + 1]
                                           /\ i + 1 \in 1 .. Len(queues[c])
    <3>1. queues'[c] = Tail(queues[c]) /\ queues[c] # << >>
      BY <1>3 DEF TypeOK
    <3>2. /\ Len(queues[c]) >= 1 /\ Head(queues[c]) = queues[c][1]
          /\ Len(Tail(queues[c])) = Len(queues[c]) - 1
      BY <1>1, <3>1
    <3>3. ASSUME NEW i \in 1 .. Len(queues[c]) - 1
          PROVE  Tail(queues[c])[i] = queues[c][i + 1] /\ i + 1 \in 1 .. Len(queues[c])
      BY <1>1, <3>2, <3>3
    <3> QED  BY <3>1, <3>2, <3>3
  <2>2. ASSUME NEW i \in 1 .. Len(queues'[c]), IsBar(queues'[c][i], s)
        PROVE  last_bar[s] # None /\ queues'[c][i].ts <= last_bar[s]
    BY <2>1, <2>2 DEF BarsLine
  <2>3. ASSUME NEW i \in 1 .. Len(queues'[c]), NEW j \in 1 .. Len(queues'[c]),
               i < j, IsBar(queues'[c][i], s), IsBar(queues'[c][j], s)
        PROVE  queues'[c][i].ts < queues'[c][j].ts
    <3>1. i + 1 < j + 1
      BY <2>3
    <3> QED  BY <2>1, <2>3, <3>1 DEF BarsLine
  <2>4. ASSUME NEW a \in seen', a.consumer = c, a.sym = s
        PROVE  /\ last_bar[s] # None /\ a.ts <= last_bar[s]
               /\ \A i \in 1 .. Len(queues'[c]) :
                    IsBar(queues'[c][i], s) => a.ts < queues'[c][i].ts
    <3>1. CASE a \in seen
      BY <2>1, <2>4, <3>1 DEF BarsLine
    <3>2. CASE a \notin seen
      <4>1. IsBar(queues[c][1], s) /\ a.ts = queues[c][1].ts
        BY <1>3, <2>1, <2>4, <3>2 DEF IsBar
      <4>2. 1 \in 1 .. Len(queues[c]) /\ \A i \in 1 .. Len(queues'[c]) : 1 < i + 1
        BY <1>1, <2>1
      <4> QED  BY <2>1, <4>1, <4>2 DEF BarsLine
    <3> QED  BY <3>1, <3>2
  <2> QED  BY <2>2, <2>3, <2>4
<1> QED  BY <1>2, <1>3

LEMMA BarsStep == BarsInv /\ [Next]_vars => BarsInv'
<1> SUFFICES ASSUME BarsInv, [Next]_vars, disconnects' = 0 PROVE BarsLine'
  BY TypeStep, StreamedStep DEF BarsInv
<1>0. TypeOK /\ disconnects \in Nat
  BY LimitsAssumption DEF BarsInv, TypeOK
<1>1. CASE UNCHANGED <<last_bar, queues, seen, disconnects>>
  BY <1>1 DEF BarsInv, BarsLine
<1>2. ASSUME NEW s \in Symbols, TradesHandler(s) PROVE BarsLine'
  <2>1. PICK e \in Event : e.ev = "T" /\ Publish(e)
    <3>1. [sym |-> s, ts |-> now, ev |-> "T"] \in Event
      BY <1>0 DEF TypeOK, Event
    <3> QED  BY <1>2, <3>1 DEF TradesHandler
  <2> QED  BY <1>0, <1>2, <2>1, PublishKeepsLine DEF BarsInv, TradesHandler, consumer
<1>3. ASSUME NEW s \in Symbols, BarHandler(s) PROVE BarsLine'
  <2>1. PICK e \in Event : e.ev = "AM" /\ e.sym = s /\ e.ts = ClosedMinute /\ Publish(e)
    <3>1. [sym |-> s, ts |-> ClosedMinute, ev |-> "AM"] \in Event
      BY <1>0, <1>3, ClosedMinuteType DEF BarHandler, Event
    <3> QED  BY <1>3, <3>1 DEF BarHandler
  <2>2. last_bar[s] = None \/ last_bar[s] < e.ts
    <3>1. last_bar[s] # None => last_bar[s] \in Int /\ last_bar[s] <= ClosedMinute
      BY <1>0, TimeAssumption DEF BarsInv, StreamedSoFar, TypeOK, Second
    <3>2. ClosedMinute \in Int /\ last_bar[s] # ClosedMinute
      BY <1>0, <1>3, ClosedMinuteType, TimeAssumption DEF BarHandler, Second
    <3> QED  BY <2>1, <3>1, <3>2
  <2>3. /\ last_bar' = [last_bar EXCEPT ![e.sym] = e.ts]
        /\ UNCHANGED <<seen, disconnects>>
    BY <1>3, <2>1 DEF BarHandler, consumer, limits
  <2> QED  BY <1>0, <2>1, <2>2, <2>3, PublishKeepsLine DEF BarsInv
<1>4. ASSUME NEW c \in Consumers, QueueConsumer(c) PROVE BarsLine'
  <2>1. /\ disconnects = 0 /\ UNCHANGED last_bar /\ queues[c] # << >>
        /\ queues' = [queues EXCEPT ![c] = Tail(@)]
    BY <1>0, <1>4 DEF QueueConsumer, Drop, Handle, HandlingFails, Accepts, limits
  <2>2. \/ UNCHANGED seen
        \/ /\ Head(queues[c]).ev = "AM"
           /\ seen' = seen \cup {[consumer |-> c, sym |-> Head(queues[c]).sym,
                                  ts |-> Head(queues[c]).ts]}
    BY <1>4 DEF QueueConsumer, Drop, Handle, HandlingFails, consumer
  <2> QED  BY <1>0, <2>1, <2>2, TakeKeepsLine DEF BarsInv
<1>5. CASE ScannerRuns \/ ScannerInput \/ Clock \/ UNCHANGED vars
  BY <1>1, <1>5 DEF ScannerRuns, ScannerInput, GetNewSymbols, SubscribeNewSymbols,
                    SaveNewSymbols, AddingFails, Clock, vars, consumer, limits
<1> QED  BY <1>2, <1>3, <1>4, <1>5 DEF Next, Stream

\* Without a reconnect a bar is newer than those of its symbol that the
\* strategies of the consumer saw before it.
LEMMA NewBarIsNewer ==
  ASSUME BarsInv, Next, disconnects = 0, NEW b \in seen' \ seen, NEW a \in seen,
         a.consumer = b.consumer, a.sym = b.sym
  PROVE  a.ts < b.ts
<1>1. PICK c \in Consumers : Handle(c)
  BY DEF Next, ScannerRuns, ScannerInput, GetNewSymbols, SubscribeNewSymbols,
         SaveNewSymbols, AddingFails, Stream, Clock, TradesHandler, BarHandler,
         QueueConsumer, Drop, HandlingFails, consumer
<1>2. /\ queues[c] # << >> /\ queues[c] \in Seq(Event)
      /\ Head(queues[c]).ev = "AM"
      /\ b = [consumer |-> c, sym |-> Head(queues[c]).sym, ts |-> Head(queues[c]).ts]
  BY <1>1 DEF Handle, Accepts, BarsInv, TypeOK
<1>3. 1 \in 1 .. Len(queues[c]) /\ Head(queues[c]) = queues[c][1]
      /\ queues[c][1].sym \in Symbols
  <2>1. 1 \in 1 .. Len(queues[c]) /\ Head(queues[c]) = queues[c][1]
    BY <1>2
  <2>2. Head(queues[c]) \in Event
    BY <1>2, <2>1
  <2> QED  BY <2>1, <2>2 DEF Event
<1>4. BarsLine /\ IsBar(queues[c][1], queues[c][1].sym)
  BY <1>2, <1>3 DEF BarsInv, IsBar
<1>5. a.consumer = c /\ a.sym = queues[c][1].sym /\ b.ts = queues[c][1].ts
  BY <1>2, <1>3
<1> QED  BY <1>3, <1>4, <1>5 DEF BarsLine

\* The strategies of a consumer see the minute bars of a symbol in the order of
\* time while no ConnectionError sent one back to the queue.
THEOREM BarsInOrderAlways == Spec => BarsInOrder
<1>1. Init => BarsInv
  <2>1. Init => TypeOK
    BY TimeAssumption, LimitsAssumption DEF Init, TypeOK, Second
  <2>2. ASSUME Init PROVE StreamedSoFar /\ BarsLine
    BY <2>2 DEF Init, StreamedSoFar, BarsLine
  <2> QED  BY <2>1, <2>2 DEF BarsInv
<1>2. BarsInv /\ [Next]_vars =>
        [disconnects = 0 =>
           \A b \in seen' \ seen : \A a \in seen :
             a.consumer = b.consumer /\ a.sym = b.sym => a.ts < b.ts]_vars
  BY NewBarIsNewer
<1> QED  BY <1>1, <1>2, BarsStep, PTL DEF Spec, BarsInOrder
=============================================================================
