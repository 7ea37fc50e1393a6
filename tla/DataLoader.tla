----------------------------- MODULE DataLoader -----------------------------
(***************************************************************************)
(* The table of bars of one symbol (liualgotrader/common/data_loader.py),   *)
(* filled by reads of a strategy or scanner, which load what the table is   *)
(* thought to lack from the data provider (data/alpaca.py), and by the      *)
(* messages of the data stream, which consumer.py writes into it.           *)
(*                                                                         *)
(* Time is counted in minutes.  A read blocks its process, not the clock:   *)
(* the provider answers at some moment of it, and with concurrency several  *)
(* threads ask for a piece of the range each.                               *)
(***************************************************************************)
EXTENDS Integers, Sequences, FiniteSets, FiniteSetsExt, SequencesExt

CONSTANTS
  Days,           \* bound: days of the market, numbered from 0
  PerDay,         \* minutes of a day
  TradingDays,    \* the days at which the market is open
  PointsPerLoad,  \* get_max_data_points_per_load()
  MaxReads,       \* bound: reads of the table
  None

ASSUME SizesAssumption == {Days, PerDay, PointsPerLoad} \subseteq Nat \ {0}
ASSUME BoundAssumption == MaxReads \in Nat

Minutes == 0 .. Days * PerDay - 1
Day(t) == t \div PerDay
DaysOf(from, to) == {t \in Minutes : Day(t) \in Day(from) .. Day(to)}

ASSUME TradingDaysAssumption == TradingDays \subseteq 0 .. Days - 1

VARIABLES
  market,      \* the minutes at which the symbol is traded
  now,         \* the current minute
  concurrent,  \* DataLoader.concurrency: pieces loaded by threads?
  table,       \* SymbolData.symbol_data: the state of each row there is
  read,        \* the read in progress: what is asked, and the table so far
  todo,        \* slices it still has to load
  pieces,      \* requests to the provider that are under way or answered
  result,      \* what the last read returned
  skipped,     \* bars a row of the stream jumped over, not loaded since
  reads

vars == <<market, now, concurrent, table, read, todo, pieces, result,
          skipped, reads>>

\* A row is final when it is the bar of its whole minute, part when it was
\* loaded during its minute or put together from trades.
RowStates == {"part", "final"}
Tables == UNION {[rows -> RowStates] : rows \in SUBSET Minutes}
Slices == {s \in [start : Minutes, stop : 0 .. Days * PerDay] : s.start <= s.stop}
Readings ==
  [kind : {"slice", "key", "last", "offset"}, start : Minutes, stop : Minutes,
   n : Nat, work : Tables, began : Minutes, asked : SUBSET Minutes,
   then : {None} \cup [at : Minutes, ev : {"T", "AM"}]]

ASSUME NoneAssumption == None \notin Minutes \cup Readings

TypeOK ==
  /\ market \subseteq Minutes /\ now \in Minutes /\ concurrent \in BOOLEAN
  /\ table \in Tables
  /\ read \in {None} \cup Readings
  /\ todo \in Seq(Slices)
  /\ pieces \subseteq [slice : Slices, rows : {None} \cup Tables]
  /\ read = None => pieces = {} /\ todo = << >>
  /\ skipped \subseteq market
  /\ reads \in 0 .. MaxReads

Init ==
  /\ market \in SUBSET {t \in Minutes : Day(t) \in TradingDays}
  /\ now = 0
  /\ concurrent \in BOOLEAN
  /\ table = << >>
  /\ read = None /\ todo = << >> /\ pieces = {}
  /\ result = None /\ skipped = {} /\ reads = 0

Rows(tbl) == DOMAIN tbl
Oldest(tbl) == Min(Rows(tbl))
Newest(tbl) == Max(Rows(tbl))
\* The number of rows from one on, and the row -n of the table.
From(r, tbl) == Cardinality({o \in Rows(tbl) : r <= o})
RowFromEnd(n, tbl) == CHOOSE r \in Rows(tbl) : From(r, tbl) = n

(***************************************************************************)
(* The provider.                                                            *)
(***************************************************************************)

\* num_trading_days: the opening days of a range that begins at the time of
\* day of its start.
NumTradingDays(s) ==
  Cardinality({d \in TradingDays :
                 (d * PerDay) + (s.start % PerDay) \in s.start .. s.stop})

\* The pieces of data_concurrency_ranges, as pairs of neighbouring points.
Ranges(s) ==
  LET points == NumTradingDays(s) * PerDay
      periods == (points + PointsPerLoad - 1) \div PointsPerLoad
      point(i) == s.start + (i * (s.stop - s.start)) \div periods
  IN {[start |-> point(i - 1), stop |-> point(i)] : i \in 1 .. periods}

\* get_symbol_data: whole days, to the end of the day after the last one when
\* that is today or later (_localize_start_end).
Bars(s) ==
  {t \in market :
     /\ t <= now
     /\ Day(t) >= Day(s.start)
     /\ Day(t) <= Day(s.stop) \/ Day(s.stop) + 1 >= Day(now)}
Answer(s) == [t \in Bars(s) |-> IF t = now THEN "part" ELSE "final"]

\* The minutes traded so far; get_last_trading asks the provider for the latest.
Traded == {t \in market : t <= now}

(***************************************************************************)
(* What a read has to load.                                                 *)
(***************************************************************************)

\* _calc_data_to_fetch.
ToFetch_NotBefore(s, tbl) ==
  IF tbl = << >> THEN <<s>>
  ELSE IF s.stop > Newest(tbl)
         THEN <<[start |-> Newest(tbl), stop |-> s.stop]>> ELSE << >>
ToFetch(s, tbl) ==
  IF tbl = << >> THEN <<s>>
  ELSE (IF Day(s.start) < Day(Oldest(tbl))
          THEN <<[start |-> s.start, stop |-> Oldest(tbl)]>> ELSE << >>)
       \o (IF s.stop > Newest(tbl)
             THEN <<[start |-> Newest(tbl), stop |-> s.stop]>> ELSE << >>)

\* fetch_data_datetime: from the table's edge to the moment asked for.
ToReach(d, tbl) ==
  IF tbl # << >> /\ d < Oldest(tbl) THEN <<[start |-> d, stop |-> Oldest(tbl)]>>
  ELSE IF tbl # << >> /\ d > Newest(tbl)
    THEN <<[start |-> Newest(tbl), stop |-> d + 1]>>
    ELSE <<[start |-> d, stop |-> d + 1]>>

\* convert_offset_to_datetime for the row -n: that row, or as many minutes
\* before the time `base`.
OffsetTime(n, tbl, base) ==
  IF n <= Cardinality(Rows(tbl)) THEN RowFromEnd(n, tbl) ELSE base + 1 - n

(***************************************************************************)
(* Reads: SymbolData.__getitem__.                                           *)
(***************************************************************************)
Begin(kind, start, stop, n, slices, then) ==
  /\ read = None
  /\ read' = [kind |-> kind, start |-> start, stop |-> stop, n |-> n,
              work |-> table, began |-> now, asked |-> {}, then |-> then]
  /\ todo' = slices
  /\ result' = None
  /\ UNCHANGED <<market, now, concurrent, table, pieces, skipped>>

BeginRead(kind, start, stop, n, slices) ==
  /\ reads < MaxReads
  /\ reads' = reads + 1
  /\ Begin(kind, start, stop, n, slices, None)

\* What may be asked for: with concurrency nothing that lies in the future.
\* (Pieces of such a range that are answered on two days leave a gap.)
Asked(t) == concurrent => t <= now

\* getitem_slice with two times.
ReadSlice(a, b) ==
  Asked(b) /\ BeginRead("slice", a, b, 0, ToFetch([start |-> a, stop |-> b], table))

\* getitem with a time: the last row at or before it.
ReadKey(k) ==
  Asked(k) /\ BeginRead("key", k, k, 0, ToFetch([start |-> k, stop |-> k], table))

\* getitem_slice with [-n:-1].
ReadLast(n) ==
  /\ table # << >> \/ Traded # {}
  /\ LET stop == IF table # << >> THEN Newest(table) ELSE Max(Traded)
         start == OffsetTime(n, table, stop)
     IN /\ start >= 0
        /\ BeginRead("last", start, stop, n,
                     ToFetch([start |-> start, stop |-> stop], table))

\* get_item_by_offset(-n): iloc[len - n] when Python finds such a row, which
\* it does down to -len; else load_item_by_offset.
Reachable(n, tbl) == n <= 2 * Cardinality(Rows(tbl))
ReadOffset(n) ==
  IF Reachable(n, table) THEN BeginRead("offset", now, now, n, << >>)
  ELSE /\ Traded # {}
       /\ LET d == OffsetTime(n, table, Max(Traded)) IN
          /\ d >= 0
          /\ BeginRead("offset", d, d, n, ToReach(d, table))

(***************************************************************************)
(* fetch_data_range, for the first of the slices left.                      *)
(***************************************************************************)
Request(s) == [slice |-> s, rows |-> None]

FetchRange ==
  /\ read # None /\ pieces = {} /\ todo # << >>
  /\ LET s == Head(todo) IN
     /\ pieces' = IF concurrent THEN {Request(r) : r \in Ranges(s)}
                                ELSE {Request(s)}
     /\ read' = [read EXCEPT !.asked = @ \cup DaysOf(s.start, s.stop)]
  /\ todo' = Tail(todo)
  /\ UNCHANGED <<market, now, concurrent, table, result, skipped, reads>>

\* The provider answers a request with what it has at that moment.
ProviderAnswers(p) ==
  /\ p \in pieces /\ p.rows = None
  /\ pieces' = (pieces \ {p}) \cup {[p EXCEPT !.rows = Answer(p.slice)]}
  /\ UNCHANGED <<market, now, concurrent, table, read, todo, result, skipped,
                 reads>>

\* An answer is put together with the rows there are: _legacy_fetch_data_range
\* prefers the new rows, _concurrent_fetch_data, which takes the pieces in any
\* order, the rows it has.
Union(keep, add) ==
  [t \in Rows(keep) \cup Rows(add) |->
     IF t \in Rows(keep) THEN keep[t] ELSE add[t]]
Merge_OldFirst(p) ==
  /\ p \in pieces /\ p.rows \notin {None, << >>}
  /\ pieces' = pieces \ {p}
  /\ read' = [read EXCEPT !.work = Union(@, p.rows)]
  /\ UNCHANGED <<market, now, concurrent, table, todo, result, skipped, reads>>
Merge(p) ==
  /\ p \in pieces /\ p.rows \notin {None, << >>}
  /\ pieces' = pieces \ {p}
  /\ read' = [read EXCEPT !.work = IF concurrent THEN Union(@, p.rows)
                                   ELSE Union(p.rows, @)]
  /\ UNCHANGED <<market, now, concurrent, table, todo, result, skipped, reads>>

\* get_symbol_data raises ValueError for a piece without bars, or an error of
\* the provider that is not to be retried: the read raises, what other pieces
\* loaded is dropped, and so is the stream message that asked for the read.
FetchFails(p) ==
  /\ p \in pieces /\ p.rows \in {None, << >>}
  /\ read' = None /\ todo' = << >> /\ pieces' = {}
  /\ UNCHANGED <<market, now, concurrent, table, result, skipped, reads>>

(***************************************************************************)
(* The end of a read: its rows, and the table as loaded.                    *)
(***************************************************************************)

\* get_indexer(method="nearest") prefers the later of two equally near rows.
Nearest(t, tbl) ==
  LET distance(r) == IF r < t THEN t - r ELSE r - t
  IN CHOOSE r \in Rows(tbl) :
       \A o \in Rows(tbl) \ {r} :
         distance(r) < distance(o) \/ (distance(r) = distance(o) /\ r > o)

\* iloc[len - n : len], where a negative position counts from the end.
LastRows(n, tbl) ==
  LET len == Cardinality(Rows(tbl))
      kept == IF n <= len THEN n ELSE IF n <= 2 * len THEN n - len ELSE len
  IN {r \in Rows(tbl) : From(r, tbl) <= kept}

RowAt(n, tbl) ==
  LET len == Cardinality(Rows(tbl))
  IN RowFromEnd(IF n <= len THEN n ELSE n - len, tbl)

\* getitem: get_indexer(method="ffill") gives -1 when no row is early enough,
\* and iloc[-1] is the last row.
RowFor_Nearest(k, tbl) == Nearest(k, tbl)
RowFor(k, tbl) ==
  LET earlier == {r \in Rows(tbl) : r <= k}
  IN IF earlier = {} THEN Newest(tbl) ELSE Max(earlier)

RowsBetween(from, to, tbl) ==
  {t \in Rows(tbl) : Nearest(from, tbl) <= t /\ t <= Nearest(to, tbl)}

Returned(r) ==
  CASE r.kind = "slice" -> RowsBetween(r.start, r.stop, r.work)
    [] r.kind = "key" -> {RowFor(r.start, r.work)}
    [] r.kind = "last" -> LastRows(r.n, r.work)
    [] r.kind = "offset" -> {RowAt(r.n, r.work)}

\* The rows of the table once a message of minute t was written: a trade is
\* added to the row there is, a minute bar replaces it.
RowWritten(t, ev) == IF ev = "AM" THEN "final" ELSE "part"
Write(t, ev, tbl) ==
  [m \in Rows(tbl) \cup {t} |-> IF m = t THEN RowWritten(t, ev) ELSE tbl[m]]
\* The bars such a row hides from _calc_data_to_fetch: those between the table
\* and a row after it, and those of its own day, and since, before the table.
Jumped(t, tbl) ==
  {m \in market : \/ Newest(tbl) < m /\ m < t
                  \/ Day(t) <= Day(m) /\ m < Oldest(tbl) /\ t < Oldest(tbl)}

\* What a read returns exists: with an offset that was loaded, iloc[-n].
Readable ==
  /\ read.work # << >>
  /\ read.kind = "offset" =>
       IF read.asked = {} THEN Reachable(read.n, read.work)
       ELSE read.n <= Cardinality(Rows(read.work))

EndRead ==
  /\ read # None /\ pieces = {} /\ todo = << >>
  /\ read' = None
  /\ IF ~Readable
       THEN UNCHANGED <<table, result, skipped>>
       ELSE IF read.then = None
         THEN /\ table' = read.work
              /\ result' = [kind |-> read.kind, start |-> read.start,
                            stop |-> read.stop, n |-> read.n,
                            began |-> read.began, asked |-> read.asked,
                            rows |-> Returned(read)]
              /\ skipped' = skipped \ Rows(table')
         ELSE LET t == read.then.at IN
              /\ table' = Write(t, read.then.ev, read.work)
              /\ skipped' = (skipped \cup Jumped(t, read.work)) \ Rows(table')
              /\ UNCHANGED result
  /\ UNCHANGED <<market, now, concurrent, todo, pieces, reads>>

(***************************************************************************)
(* aggregate_bar_data: a message of the stream is written into the table,   *)
(* which is loaded first when the symbol has none.                          *)
(***************************************************************************)
Deliverable(t, ev) ==
  /\ t \in market /\ t <= now
  /\ IF ev = "AM" THEN t < now ELSE t >= now - 1

AggregateBar(t, ev) ==
  /\ read = None /\ Deliverable(t, ev)
  /\ IF table = << >>
       THEN /\ LET d == Max(Traded) IN
               Begin("offset", d, d, 1, ToReach(d, table), [at |-> t, ev |-> ev])
            /\ UNCHANGED reads
       ELSE /\ table' = Write(t, ev, table)
            /\ skipped' = (skipped \cup Jumped(t, table)) \ Rows(table')
            /\ result' = None
            /\ UNCHANGED <<market, now, concurrent, read, todo, pieces, reads>>

Tick ==
  /\ now + 1 \in Minutes
  /\ now' = now + 1
  /\ UNCHANGED <<market, concurrent, table, read, todo, pieces, result, skipped,
                 reads>>

Reads ==
  \/ \E a, b \in Minutes : a <= b /\ ReadSlice(a, b)
  \/ \E k \in Minutes : ReadKey(k)
  \/ \E n \in 1 .. Days * PerDay : ReadLast(n) \/ ReadOffset(n)
Loading ==
  \/ FetchRange
  \/ \E p \in pieces : ProviderAnswers(p) \/ Merge(p) \/ FetchFails(p)
  \/ EndRead
Stream == \E t \in Minutes, ev \in {"T", "AM"} : AggregateBar(t, ev)

Next == Reads \/ Loading \/ Stream \/ Tick

Spec == Init /\ [][Next]_vars

(***************************************************************************)
(* Properties.                                                              *)
(***************************************************************************)
Is(kind) == result # None /\ result.kind = kind

\* _calc_data_to_fetch looks at the two ends of the table only, which is
\* enough as long as the table has no gap: a slice returns every bar of its
\* range the provider had when it was asked for, but for bars that a message
\* of the stream, written beyond the end of the table, jumped over.
SliceComplete ==
  Is("slice") =>
    {t \in market : result.start <= t /\ t <= result.stop /\ t < result.began}
      \subseteq result.rows \cup skipped

\* A price asked for by its time is the one of the newest bar at or before
\* that time, jumped-over bars apart, whenever the table reaches back to it.
KeyIsNewest ==
  Is("key") /\ (\E r \in Rows(table) : r <= result.start) =>
    LET row == Max(result.rows) IN
    /\ row <= result.start
    /\ \A t \in market \ skipped :
         t <= result.start /\ t < result.began => t <= row

\* Without concurrency, loading a day again replaces the rows that were loaded
\* or put together during their minute by the final ones.
LoadingHeals ==
  result # None /\ ~concurrent =>
    \A r \in result.asked \cap Rows(table) :
      r < result.began => table[r] = "final"
=============================================================================
