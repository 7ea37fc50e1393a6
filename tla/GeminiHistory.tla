--------------------------- MODULE GeminiHistory ---------------------------
(***************************************************************************)
(* GeminiData loads the trades of a range of days with concurrent requests,  *)
(* each for the first trades from a time on, and makes bars of each answer.  *)
(* The range may reach into the present: trades go on between the requests.  *)
(*                                                                         *)
(* A tick is the resolution of a request's time.  A trade is of one unit, so *)
(* that a bar is its volume alone; two trades may have the same tick.        *)
(***************************************************************************)
EXTENDS Integers, Sequences, FiniteSets, SequencesExt

CONSTANTS
  Length,        \* ticks of the range that is loaded
  PerPeriod,     \* ticks for which a request is expected to suffice
  PerMinute,     \* ticks of a minute
  Limit,         \* trades an answer holds
  MaxTrades,     \* bound: trades of the symbol
  None

ConstantsAssumption ==
  /\ Length \in Nat \ {0} /\ PerPeriod \in Nat \ {0} /\ PerMinute \in Nat \ {0}
  /\ Length \div PerPeriod > 1 /\ Limit \in Nat \ {0} /\ MaxTrades \in Nat

VARIABLES
  now,        \* the present tick
  trades,     \* the tick of every trade, in order
  answer,     \* of each request: None, or the trades it returned
  failed,     \* requests that got another status than 200
  askedAt,      \* history: the time of each answer
  returned    \* None, or the bars: [minute, volume] in their order
vars == <<now, trades, answer, failed, askedAt, returned>>

\* _get_ranges: date_range truncates the number of periods, and the last of the
\* times is no request's.
Periods == Length \div PerPeriod
Requests == 1 .. (Periods - 1)
From(i) == ((i - 1) * Length) \div (Periods - 1)

Minute(tick) == tick \div PerMinute

Init ==
  /\ now = 0 /\ trades = <<>>
  /\ answer = [i \in Requests |-> None] /\ failed = {}
  /\ askedAt = [i \in Requests |-> 0]
  /\ returned = None

Tick ==
  /\ now <= Length /\ now' = now + 1
  /\ UNCHANGED <<trades, answer, failed, askedAt, returned>>

Trade ==
  /\ now <= Length /\ Len(trades) < MaxTrades
  /\ trades' = Append(trades, now)
  /\ UNCHANGED <<now, answer, failed, askedAt, returned>>

\* The exchange: the first trades that are not before the request's time.
FirstTrades(i) ==
  LET before == Cardinality({k \in DOMAIN trades : trades[k] < From(i)})
  IN SubSeq(trades, before + 1,
            IF Len(trades) < before + Limit THEN Len(trades) ELSE before + Limit)

\* requests_get: 429 and 502 are asked again, any other answer is kept.
Waiting(i) == answer[i] = None /\ i \notin failed

Answer(i) ==
  /\ Waiting(i)
  /\ answer' = [answer EXCEPT ![i] = FirstTrades(i)]
  /\ askedAt' = [askedAt EXCEPT ![i] = now]
  /\ UNCHANGED <<now, trades, failed, returned>>

AnswerError(i) ==
  /\ Waiting(i)
  /\ failed' = failed \cup {i}
  /\ UNCHANGED <<now, trades, answer, askedAt, returned>>

\* The numbers of a set, sorted.
InOrder(S) ==
  [k \in 1 .. Cardinality(S) |->
     CHOOSE x \in S : Cardinality({y \in S : y <= x}) = k]

\* _consolidate_response: a bar for each minute with a trade.
Volume(ticks, minute) == Cardinality({k \in DOMAIN ticks : Minute(ticks[k]) = minute})
Bars(ticks) ==
  LET minutes == InOrder({Minute(ticks[k]) : k \in DOMAIN ticks})
  IN [k \in DOMAIN minutes |->
        [minute |-> minutes[k], volume |-> Volume(ticks, minutes[k])]]

\* concat and ~duplicated(keep="first")
Without(bars, others) ==
  LET kept == InOrder({k \in DOMAIN bars :
                         \A j \in DOMAIN others : others[j].minute # bars[k].minute})
  IN [k \in DOMAIN kept |-> bars[kept[k]]]
Merged_KeepLast(bars, more) == Without(bars, more) \o more
Merged(bars, more) == bars \o Without(more, bars)

\* gather returns the answers in the order of the requests; with an error among
\* them the first raises.
Gather ==
  /\ returned = None
  /\ \A i \in Requests : answer[i] # None
  /\ returned' =
       FoldLeft(LAMBDA bars, ticks : Merged(bars, Bars(ticks)), <<>>, answer)
  /\ UNCHANGED <<now, trades, answer, failed, askedAt>>

Next ==
  \/ Tick \/ Trade \/ Gather
  \/ \E i \in Requests : Answer(i) \/ AnswerError(i)

Spec == Init /\ [][Next]_vars

-----------------------------------------------------------------------------

\* Every variable has its type.
TypeOK ==
  /\ now \in 0 .. Length + 1 /\ trades \in Seq(0 .. Length)
  /\ answer \in [Requests -> {None} \cup Seq(0 .. Length)]
  /\ askedAt \in [Requests -> 0 .. Length + 1]
  /\ failed \subseteq Requests
  /\ returned # None => returned \in Seq([minute : 0 .. Minute(Length), volume : 1 .. Limit])

Full(i) == Len(answer[i]) = Limit

\* A request reached the next one's time, or the present.
Reached(i) ==
  Full(i) => i + 1 \in Requests /\ Last(answer[i]) >= From(i + 1)

\* The bars are in order, a minute each.  If every request reached the next
\* one's time, no trade that was made before all of them is missing, but in a
\* minute in which an answer was cut off, or which was not over when one was
\* given: the first of two bars of a minute is kept, and may be a part of it.
HistoryIsWhole ==
  returned # None =>
    /\ \A j, k \in DOMAIN returned : j < k => returned[j].minute < returned[k].minute
    /\ (\A i \in Requests : Reached(i)) =>
         \A m \in {Minute(trades[k]) : k \in DOMAIN trades} :
           \/ \E i \in Requests : Full(i) /\ Minute(Last(answer[i])) = m
           \/ \E i \in Requests : Minute(askedAt[i]) <= m
           \/ \E k \in DOMAIN returned :
                /\ returned[k].minute = m
                /\ returned[k].volume = Volume(trades, m)
=============================================================================
