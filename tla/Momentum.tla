------------------------------ MODULE Momentum ------------------------------
(***************************************************************************)
(* The momentum scanner, live and in a backtest.  Live it asks for snapshots *)
(* of the market, a chunk of symbols per request, all requests at once, and  *)
(* puts what fits in the producer's queue; the producer subscribes and files *)
(* new symbols in trending_tickers.  A backtest has no market to ask: it     *)
(* replays what was filed, by the time it was filed at.  No scanner's name   *)
(* is ever written, so that what other scanners picked is replayed too.      *)
(***************************************************************************)
EXTENDS Integers, Sequences, FiniteSets

CONSTANTS
  Total,        \* the market's symbols are 1 .. Total
  ChunkSize,    \* symbol_chunk_size
  Open, LastMinute,   \* minutes: 0 is midnight, Open is 9:30
  MaxPuts,      \* bound: what scanners put in a session
  MaxRestarts   \* bound

ConstantsAssumption ==
  /\ Total \in Nat \ {0} /\ ChunkSize \in Nat \ {0}
  /\ Open \in Nat \ {0} /\ LastMinute \in Nat /\ Open < LastMinute
  /\ MaxPuts \in Nat /\ MaxRestarts \in Nat

VARIABLES
  minute, market,   \* the time, and what a snapshot of each symbol would be
  others,           \* another scanner is configured
  scanner,          \* of Momentum's task: "asleep", "asking" or "ended"
  unanswered,       \* the chunks whose snapshots are awaited
  fits, broken,     \* what was answered so far
  puts, queue,      \* scanner_queue
  adding,           \* the new symbols the producer is subscribing and filing
  symbols,          \* the producer's symbols
  table,            \* trending_tickers
  reason,           \* history: since when the market or another scanner gave a
                    \* reason to pick the symbol
  restarts
scanning == <<scanner, unanswered, fits, broken>>
producer == <<adding, symbols, table>>
vars == <<minute, market, others, scanning, puts, queue, producer, reason, restarts>>

Symbols == 1 .. Total
Minutes == 0 .. LastMinute
Never == LastMinute + 1
Chunk(first) == {s \in Symbols : first <= s /\ s < first + ChunkSize}
Chunks == {Chunk(first) : first \in {f \in Symbols : f % ChunkSize = 1 % ChunkSize}}

\* "misses": the filter says no, or a part of the snapshot is missing; "broken":
\* the previous close is 0.
Markets == [Symbols -> {"fits", "misses", "broken"}]
Since(shown, m) ==
  [s \in Symbols |-> IF reason[s] = Never /\ shown[s] = "fits" THEN m ELSE reason[s]]

Init ==
  /\ minute = 0 /\ market \in Markets /\ others \in BOOLEAN
  /\ scanner = "asleep" /\ unanswered = {} /\ fits = {} /\ broken = FALSE
  /\ puts = 0 /\ queue = <<>> /\ adding = {} /\ symbols = {} /\ table = {}
  /\ reason = [s \in Symbols |-> IF market[s] = "fits" THEN 0 ELSE Never]
  /\ restarts = 0

Minute ==
  /\ minute < LastMinute
  /\ minute' = minute + 1
  /\ market' \in Markets
  /\ reason' = Since(market', minute')
  /\ UNCHANGED <<others, scanning, puts, queue, producer, restarts>>

\* The recurrence passed, or the task begins.
Run ==
  /\ scanner = "asleep" /\ puts < MaxPuts
  /\ scanner' = "asking" /\ unanswered' = Chunks
  /\ UNCHANGED <<minute, market, others, fits, broken, puts, queue, producer, reason, restarts>>

\* A division by zero ends the chunk.
Answer(chunk) ==
  /\ chunk \in unanswered
  /\ unanswered' = unanswered \ {chunk}
  /\ fits' = fits \cup {s \in chunk : market[s] = "fits"}
  /\ broken' = (broken \/ \E s \in chunk : market[s] = "broken")
  /\ UNCHANGED <<minute, market, others, scanner, puts, queue, producer, reason, restarts>>

\* The pool of threads is left when every request is answered; an exception of
\* one of them is the scanner's, whose task then ends.
Picked ==
  /\ scanner = "asking" /\ unanswered = {}
  /\ IF broken \/ fits = {} THEN UNCHANGED <<queue, puts>>
     ELSE queue' = Append(queue, fits) /\ puts' = puts + 1
  /\ scanner' = IF broken THEN "ended" ELSE "asleep"
  /\ fits' = {} /\ broken' = FALSE
  /\ UNCHANGED <<minute, market, others, unanswered, producer, reason, restarts>>

OtherPicks ==
  /\ others /\ puts < MaxPuts
  /\ \E picks \in (SUBSET Symbols) \ {{}} :
       /\ queue' = Append(queue, picks)
       /\ reason' = [s \in Symbols |-> IF s \in picks /\ reason[s] = Never
                                       THEN minute ELSE reason[s]]
  /\ puts' = puts + 1
  /\ UNCHANGED <<minute, market, others, scanning, producer, restarts>>

\* scanners_iteration up to its first await.
TakePicks ==
  /\ queue # <<>> /\ adding = {}
  /\ queue' = Tail(queue)
  /\ adding' = Head(queue) \ symbols
  /\ UNCHANGED <<minute, market, others, scanning, puts, symbols, table, reason, restarts>>

\* TrendingTickers.save, of all rows or none; create_tstamp is the time of the
\* transaction.
File ==
  /\ adding # {}
  /\ table' = table \cup {[symbol |-> s, at |-> minute] : s \in adding}
  /\ symbols' = symbols \cup adding /\ adding' = {}
  /\ UNCHANGED <<minute, market, others, scanning, puts, queue, reason, restarts>>
FileFails ==
  /\ adding # {}
  /\ adding' = {}
  /\ UNCHANGED <<minute, market, others, scanning, puts, queue, symbols, table, reason, restarts>>

\* The application is started again: only the table is left.
Restart ==
  /\ restarts < MaxRestarts /\ restarts' = restarts + 1
  /\ scanner' = "asleep" /\ unanswered' = {} /\ fits' = {} /\ broken' = FALSE
  /\ puts' = 0 /\ queue' = <<>> /\ adding' = {} /\ symbols' = {}
  /\ UNCHANGED <<minute, market, others, table, reason>>

\* load_from_db: from 9:30 to a minute after back_time, or of the whole day when
\* back_time is midnight.
Start(backTime) == IF backTime = 0 THEN 0 ELSE Open
End_NextDay(backTime) == LastMinute
End(backTime) == IF backTime = 0 THEN LastMinute ELSE backTime + 1
LoadFromDb(backTime) ==
  {row.symbol : row \in {r \in table : Start(backTime) <= r.at /\ r.at <= End(backTime)}}

Next ==
  \/ Minute \/ Run \/ Picked \/ OtherPicks \/ TakePicks \/ File \/ FileFails \/ Restart
  \/ \E chunk \in Chunks : Answer(chunk)

Spec == Init /\ [][Next]_vars

-----------------------------------------------------------------------------

\* Every variable has its type.
TypeOK ==
  /\ minute \in Minutes /\ market \in Markets /\ others \in BOOLEAN
  /\ scanner \in {"asleep", "asking", "ended"} /\ unanswered \subseteq Chunks
  /\ fits \subseteq Symbols /\ broken \in BOOLEAN
  /\ puts \in 0 .. MaxPuts + 1 /\ queue \in Seq((SUBSET Symbols) \ {{}})
  /\ adding \subseteq Symbols /\ symbols \subseteq Symbols
  /\ table \subseteq [symbol : Symbols, at : Minutes]
  /\ reason \in [Symbols -> Minutes \cup {Never}] /\ restarts \in 0 .. MaxRestarts

\* A replay never has a symbol nobody had a reason to pick until a minute after
\* its time.  A symbol the live session added is replayed from then on; when it
\* was added before 9:30, by a backtest of whole days only.
ReplayIsLive ==
  /\ \A backTime \in Open .. LastMinute : \A s \in LoadFromDb(backTime) :
       reason[s] <= backTime + 1
  /\ symbols \subseteq LoadFromDb(0)
  /\ \A row \in table : row.at >= Open =>
       \A backTime \in row.at .. LastMinute : row.symbol \in LoadFromDb(backTime)
=============================================================================
