---------------------------- MODULE GeminiStream ----------------------------
(***************************************************************************)
(* The trades of btcusd on their way from Gemini's socket, through the       *)
(* thread of the producer that listens to it and a consumer's queue, to the  *)
(* rows of the consumer's table.  GeminiStream streams no other symbol, and   *)
(* nothing ever calls its close().                                           *)
(*                                                                         *)
(* A trade is its place in `made`.  The clocks of all processes agree.       *)
(***************************************************************************)
EXTENDS Integers, Sequences, FiniteSets

CONSTANTS
  MaxSeconds,    \* bound: seconds that pass
  MinuteLength,  \* seconds of a minute
  Lateness,      \* seconds after which a consumer drops a trade
  MaxTrades,     \* bound: trades of the symbol
  None

ConstantsAssumption ==
  /\ None \notin Nat /\ MaxSeconds \in Nat \ {0} /\ MinuteLength \in Nat \ {0}
  /\ Lateness \in Nat /\ MaxTrades \in Nat

VARIABLES
  second,        \* the present second
  made,          \* the second of every trade that was streamed, in order
  running_task,  \* the thread: "none", "alive", or "dead", which is never replaced
  socket,        \* trades the thread has not read
  wakes,         \* the second until which the thread sleeps
  routed,        \* QueueMapper has a queue for the symbol
  waiting,       \* trades in the consumer's queue
  time_tick,     \* the second of the last trade the consumer handled, or None
  known,         \* the consumer's loader has a table for the symbol
  row,           \* of each minute: None, or the trade its row was made of
  volume_today,  \* in trades
  lost           \* history: trades nobody was to get, each with the reason
vars == <<second, made, running_task, socket, wakes, routed, waiting, time_tick,
          known, row, volume_today, lost>>

Minute(s) == s \div MinuteLength
Minutes == 0 .. Minute(MaxSeconds)
MinuteOf(t) == Minute(made[t])

\* A strategy may have read the symbol before the first trade.
Init ==
  /\ second = 0 /\ made = <<>> /\ running_task = "none" /\ socket = <<>> /\ wakes = 0
  /\ routed = FALSE /\ waiting = <<>> /\ time_tick = None /\ known \in BOOLEAN
  /\ row = [m \in Minutes |-> None] /\ volume_today = 0
  /\ lost = {}

Lose(t, reason) == lost' = lost \cup {[trade |-> t, why |-> reason]}

Tick ==
  /\ second < MaxSeconds /\ second' = second + 1
  /\ UNCHANGED <<made, running_task, socket, wakes, routed, waiting, time_tick,
                 known, row, volume_today, lost>>

-----------------------------------------------------------------------------
(* The producer *)

Run ==
  /\ running_task = "none" /\ running_task' = "alive"
  /\ UNCHANGED <<second, made, socket, wakes, routed, waiting, time_tick, known, row,
                 volume_today, lost>>

\* A scanner picked the symbol.  The scanners are listened to after run().
Route ==
  /\ running_task # "none" /\ ~routed /\ routed' = TRUE
  /\ UNCHANGED <<second, made, running_task, socket, wakes, waiting, time_tick, known,
                 row, volume_today, lost>>

\* Gemini sends a message with a trade.  Trades of one message, and of messages
\* of one second, have the same time.
Streamed ==
  /\ running_task = "alive" /\ Len(made) < MaxTrades
  /\ made' = Append(made, second)
  /\ socket' = Append(socket, Len(made) + 1)
  /\ UNCHANGED <<second, running_task, wakes, routed, waiting, time_tick, known, row,
                 volume_today, lost>>

\* run_forever returns when the connection breaks: on_error and on_close only log.
Breaks ==
  /\ running_task = "alive" /\ running_task' = "dead"
  /\ socket' = <<>>
  /\ lost' = lost \cup {[trade |-> socket[k], why |-> "broken"] : k \in DOMAIN socket}
  /\ UNCHANGED <<second, made, wakes, routed, waiting, time_tick, known, row,
                 volume_today>>

\* trades_handler: without a queue QueueMapper raises an AssertionError, after
\* which the thread sleeps for a second and goes on with the next trade.
TradesHandler ==
  /\ running_task = "alive" /\ wakes <= second /\ socket # <<>>
  /\ socket' = Tail(socket)
  /\ IF routed
     THEN waiting' = Append(waiting, Head(socket)) /\ UNCHANGED <<wakes, lost>>
     ELSE wakes' = second + 1 /\ Lose(Head(socket), "unrouted") /\ UNCHANGED waiting
  /\ UNCHANGED <<second, made, running_task, routed, time_tick, known, row, volume_today>>

-----------------------------------------------------------------------------
(* The consumer *)

\* handle_data_queue_msg returns before it does anything.
TooLate(t) == second - made[t] > Lateness
SameSecond_Minute(t) == time_tick # None /\ MinuteOf(t) = Minute(time_tick)
SameSecond(t) == made[t] = time_tick

Drop ==
  /\ waiting # <<>> /\ (TooLate(Head(waiting)) \/ SameSecond(Head(waiting)))
  /\ waiting' = Tail(waiting)
  /\ Lose(Head(waiting), IF TooLate(Head(waiting)) THEN "late" ELSE "repeated")
  /\ UNCHANGED <<second, made, running_task, socket, wakes, routed, time_tick, known,
                 row, volume_today>>

\* The row of the trade's minute in aggregate_bar_data: made of its first trade.
\* A trade of Gemini has no average, so that adding it to a row raises, at
\* math.isnan(None), before the row is written.
Aggregated_Replaces(t) == TRUE
Aggregated(t) == row[MinuteOf(t)] = None

\* The first read of an unknown symbol raises too, after its table was created:
\* get_symbol_data calls asyncio.run in a loop that runs.
Handle ==
  /\ waiting # <<>>
  /\ LET t == Head(waiting) IN
     /\ ~TooLate(t) /\ ~SameSecond(t)
     /\ time_tick' = made[t] /\ waiting' = Tail(waiting) /\ known' = TRUE
     /\ IF known /\ Aggregated(t)
        THEN row' = [row EXCEPT ![MinuteOf(t)] = t] /\ volume_today' = volume_today + 1
        ELSE UNCHANGED <<row, volume_today>>
     /\ IF known THEN UNCHANGED lost ELSE Lose(t, "unknown")
  /\ UNCHANGED <<second, made, running_task, socket, wakes, routed>>

Next == Tick \/ Run \/ Route \/ Streamed \/ Breaks \/ TradesHandler \/ Drop \/ Handle

Spec == Init /\ [][Next]_vars

-----------------------------------------------------------------------------

Trades == 1 .. MaxTrades

\* Every variable has its type.
TypeOK ==
  /\ second \in 0 .. MaxSeconds /\ made \in Seq(0 .. MaxSeconds)
  /\ running_task \in {"none", "alive", "dead"}
  /\ socket \in Seq(Trades) /\ waiting \in Seq(Trades)
  /\ wakes \in 0 .. MaxSeconds + 1
  /\ routed \in BOOLEAN /\ known \in BOOLEAN
  /\ time_tick \in {None} \cup 0 .. MaxSeconds
  /\ row \in [Minutes -> {None} \cup Trades]
  /\ volume_today \in 0 .. MaxTrades
  /\ lost \subseteq [trade : Trades,
                     why : {"broken", "unrouted", "late", "repeated", "unknown"}]

Pending(t) == \E k \in DOMAIN socket : socket[k] = t
Queued(t) == \E k \in DOMAIN waiting : waiting[k] = t
LostFor(t, reason) == [trade |-> t, why |-> reason] \in lost

\* Every trade that was streamed is still on its way, or its minute has a row that
\* is made of it or of an earlier trade; if not, the thread broke, there was no
\* queue yet, it came too late, it was the one the loader failed on, or it is of
\* the second of that one.  At most one trade is lost to the loader, and the
\* volume of the day is that of the rows.
MinuteHasItsRow ==
  /\ \A t \in DOMAIN made :
       \/ Pending(t) \/ Queued(t)
       \/ row[MinuteOf(t)] # None /\ row[MinuteOf(t)] <= t
       \/ \E why \in {"broken", "unrouted", "late", "unknown"} : LostFor(t, why)
       \/ \E u \in 1 .. t - 1 : LostFor(u, "unknown") /\ made[u] = made[t]
  /\ Cardinality({l \in lost : l.why = "unknown"}) <= 1
  /\ volume_today = Cardinality({m \in Minutes : row[m] # None})
=============================================================================
