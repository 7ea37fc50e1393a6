-------------------------- MODULE MarketData_proofs --------------------------
(***************************************************************************)
(* Proofs about the sources of market data other than the loader's table:    *)
(* the momentum scanner (Momentum), Gemini's stream (GeminiStream) and its   *)
(* history (GeminiHistory), the miner of companies (Universe) and Tradier's  *)
(* calendar (TradierCalendar), for every size and bound.                     *)
(***************************************************************************)
EXTENDS MCMarketData, FiniteSetTheorems, SequenceTheorems, WellFoundedInduction,
  NaturalsInduction, TLAPS

-----------------------------------------------------------------------------
(* The momentum scanner, live and replayed.                                  *)

\* There was a reason to pick all these symbols.
Reasonable(S) == \A s \in S : reason[s] <= minute

\* From the answer of a snapshot to the row of a pick, a symbol had its reason
\* before; what the producer has was filed.
MomentumInv ==
  /\ Momentum!TypeOK
  /\ scanner = "asking" => puts <= MaxPuts
  /\ \A s \in Momentum!Symbols : reason[s] # Momentum!Never => reason[s] <= minute
  /\ Reasonable({s \in Momentum!Symbols : snapshot[s] = "fits"})
  /\ Reasonable(fits) /\ Reasonable(adding)
  /\ \A i \in 1 .. Len(queue) : Reasonable(queue[i])
  /\ \A r \in trending : r.at <= minute /\ reason[r.symbol] <= r.at
  /\ \A s \in symbols : \E r \in trending : r.symbol = s

LEMMA MomentumNumbers ==
  /\ Open \in Nat /\ LastMinute \in Nat /\ 0 < Open /\ Open < LastMinute
  /\ Momentum!Symbols \subseteq Nat /\ Momentum!Minutes \subseteq Nat
  /\ Momentum!Never = LastMinute + 1 /\ MaxPuts \in Nat /\ MaxRestarts \in Nat
  /\ \A m \in Momentum!Minutes : m <= LastMinute
  /\ 0 \in Momentum!Minutes
  BY MomentumAssumption
  DEF Momentum!ConstantsAssumption, Momentum!Symbols, Momentum!Minutes, Momentum!Never

LEMMA MomentumInitially == Momentum!Init => MomentumInv
<1> SUFFICES ASSUME Momentum!Init PROVE MomentumInv
  OBVIOUS
<1>1. \A s \in Momentum!Symbols :
        /\ reason[s] \in Momentum!Minutes \cup {Momentum!Never}
        /\ snapshot[s] = "fits" => reason[s] = 0
  BY MomentumNumbers DEF Momentum!Init
<1>2. Momentum!TypeOK
  <2>1. reason \in [Momentum!Symbols -> Momentum!Minutes \cup {Momentum!Never}]
    BY <1>1 DEF Momentum!Init
  <2>2. queue \in Seq((SUBSET Momentum!Symbols) \ {{}})
    BY DEF Momentum!Init
  <2>3. /\ minute \in Momentum!Minutes /\ puts \in 0 .. MaxPuts + 1
        /\ restarts \in 0 .. MaxRestarts
    BY MomentumNumbers DEF Momentum!Init
  <2> QED  BY <2>1, <2>2, <2>3 DEF Momentum!Init, Momentum!TypeOK
<1> QED  BY <1>1, <1>2, MomentumNumbers DEF Momentum!Init, MomentumInv, Reasonable

\* What is compared is a number.
LEMMA ReasonsAreNumbers ==
  ASSUME MomentumInv
  PROVE  /\ minute \in Nat /\ minute < Momentum!Never /\ Momentum!Never \in Nat
         /\ \A s \in Momentum!Symbols :
              reason[s] \in Nat /\ (reason[s] = Momentum!Never \/ reason[s] <= minute)
         /\ \A r \in trending :
              /\ r.at \in Nat /\ r.at <= minute /\ r.at <= LastMinute
              /\ r.symbol \in Momentum!Symbols /\ reason[r.symbol] <= r.at
<1> USE MomentumNumbers
<1>1. minute \in Momentum!Minutes /\ minute <= LastMinute /\ Momentum!Never \in Nat
  BY DEF MomentumInv, Momentum!TypeOK
<1>2. ASSUME NEW s \in Momentum!Symbols
      PROVE  reason[s] \in Nat /\ (reason[s] = Momentum!Never \/ reason[s] <= minute)
  BY <1>1 DEF MomentumInv, Momentum!TypeOK
<1>3. ASSUME NEW r \in trending
      PROVE  /\ r.at \in Momentum!Minutes /\ r.at <= minute
             /\ r.symbol \in Momentum!Symbols /\ reason[r.symbol] <= r.at
  BY DEF MomentumInv, Momentum!TypeOK
<1>4. \A m \in Momentum!Minutes : m \in Nat /\ m <= LastMinute /\ m < Momentum!Never
  OBVIOUS
<1> QED  BY <1>1, <1>2, <1>3, <1>4

\* A reason is given once, at the present minute.
LEMMA ReasonsStay ==
  ASSUME MomentumInv, [Momentum!Next]_(Momentum!vars)
  PROVE  /\ minute' \in Momentum!Minutes /\ minute <= minute' /\ minute \in Nat
         /\ reason' \in [Momentum!Symbols -> Momentum!Minutes \cup {Momentum!Never}]
         /\ \A s \in Momentum!Symbols :
              /\ reason'[s] # Momentum!Never => reason'[s] <= minute'
              /\ reason[s] <= minute => reason'[s] = reason[s] /\ reason'[s] <= minute'
<1> USE MomentumNumbers, ReasonsAreNumbers DEF MomentumInv, Momentum!TypeOK
<1>1. CASE Momentum!Minute
  <2>1. /\ minute \in Momentum!Minutes /\ minute < LastMinute /\ minute' = minute + 1
        /\ reason' = [s \in Momentum!Symbols |->
                        IF reason[s] = Momentum!Never /\ snapshot'[s] = "fits"
                        THEN minute' ELSE reason[s]]
    BY <1>1 DEF Momentum!Minute, Momentum!Since
  <2>2. minute' \in Momentum!Minutes /\ minute <= minute' /\ minute \in Nat
    BY <2>1 DEF Momentum!Minutes
  <2>3. ASSUME NEW s \in Momentum!Symbols
        PROVE  /\ reason'[s] \in Momentum!Minutes \cup {Momentum!Never}
               /\ reason'[s] # Momentum!Never => reason'[s] <= minute'
               /\ reason[s] <= minute => reason'[s] = reason[s] /\ reason'[s] <= minute'
    <3>1. reason'[s] = IF reason[s] = Momentum!Never /\ snapshot'[s] = "fits"
                       THEN minute' ELSE reason[s]
      BY <2>1
    <3> QED  BY <2>1, <2>2, <3>1
  <2>4. reason' \in [Momentum!Symbols -> Momentum!Minutes \cup {Momentum!Never}]
    <3> HIDE ReasonsAreNumbers, MomentumNumbers
    <3> QED  BY <2>1, <2>3
  <2> QED  BY <2>2, <2>3, <2>4
<1>2. CASE Momentum!OtherPicks
  <2>1. PICK picks \in SUBSET Momentum!Symbols :
          reason' = [s \in Momentum!Symbols |->
                       IF s \in picks /\ reason[s] = Momentum!Never
                       THEN minute ELSE reason[s]]
    BY <1>2 DEF Momentum!OtherPicks
  <2>2. minute' = minute
    BY <1>2 DEF Momentum!OtherPicks
  <2> QED  BY <2>1, <2>2
<1>3. CASE UNCHANGED <<minute, reason>>
  BY <1>3
<1> QED
  BY <1>1, <1>2, <1>3
  DEF Momentum!Next, Momentum!Run, Momentum!Answer, Momentum!Picked, Momentum!TakePicks,
      Momentum!File, Momentum!FileFails, Momentum!Restart, Momentum!vars

\* What was reasonable stays so.
LEMMA ReasonableStays ==
  ASSUME MomentumInv, [Momentum!Next]_(Momentum!vars),
         NEW S \in SUBSET Momentum!Symbols, Reasonable(S)
  PROVE  \A s \in S : reason'[s] <= minute'
  BY ReasonsStay, ReasonsAreNumbers DEF Reasonable

\* Every variable keeps its type.
LEMMA MomentumType ==
  ASSUME MomentumInv, [Momentum!Next]_(Momentum!vars)
  PROVE  Momentum!TypeOK' /\ (scanner' = "asking" => puts' <= MaxPuts)
<1> DEFINE Types ==
      /\ snapshot' \in Momentum!Markets /\ others' \in BOOLEAN
      /\ scanner' \in {"asleep", "asking", "ended"} /\ unanswered' \subseteq Momentum!Chunks
      /\ fits' \subseteq Momentum!Symbols /\ broken' \in BOOLEAN
      /\ puts' \in 0 .. MaxPuts + 1 /\ (scanner' = "asking" => puts' <= MaxPuts)
      /\ queue' \in Seq((SUBSET Momentum!Symbols) \ {{}})
      /\ adding' \subseteq Momentum!Symbols /\ symbols' \subseteq Momentum!Symbols
      /\ trending' \subseteq [symbol : Momentum!Symbols, at : Momentum!Minutes]
      /\ restarts' \in 0 .. MaxRestarts
<1> SUFFICES Types
  BY ReasonsStay DEF Momentum!TypeOK
<1> USE MomentumNumbers DEF MomentumInv, Momentum!TypeOK, Momentum!scanning, Momentum!producer
<1>1. CASE Momentum!Minute
  BY <1>1 DEF Momentum!Minute
<1>2. CASE Momentum!Run
  BY <1>2 DEF Momentum!Run
<1>3. ASSUME NEW chunk \in Momentum!Chunks, Momentum!Answer(chunk) PROVE Types
  <2>1. chunk \subseteq Momentum!Symbols
    BY DEF Momentum!Chunks, Momentum!Chunk
  <2> QED  BY <1>3, <2>1 DEF Momentum!Answer
<1>4. CASE Momentum!Picked
  <2>1. CASE broken \/ fits = {}
    BY <1>4, <2>1 DEF Momentum!Picked
  <2>2. CASE ~(broken \/ fits = {})
    <3>1. fits \in (SUBSET Momentum!Symbols) \ {{}} /\ puts \in 0 .. MaxPuts + 1
      <4>1. fits # {}
        BY <2>2
      <4> QED  BY <4>1 DEF MomentumInv, Momentum!TypeOK
    <3>2. queue' = Append(queue, fits) /\ puts' = puts + 1 /\ puts <= MaxPuts
      BY <1>4, <2>2 DEF Momentum!Picked, MomentumInv
    <3>4. puts' \in 0 .. MaxPuts + 1
      BY <3>1, <3>2
    <3>3. queue' \in Seq((SUBSET Momentum!Symbols) \ {{}})
      BY <3>1, <3>2
    <3> QED  BY <1>4, <2>2, <3>3, <3>4 DEF Momentum!Picked
  <2> QED  BY <2>1, <2>2
<1>5. CASE Momentum!OtherPicks
  <2>1. PICK picks \in (SUBSET Momentum!Symbols) \ {{}} : queue' = Append(queue, picks)
    BY <1>5 DEF Momentum!OtherPicks
  <2>2. queue' \in Seq((SUBSET Momentum!Symbols) \ {{}})
    BY <2>1
  <2>3. puts' \in 0 .. MaxPuts + 1 /\ (scanner = "asking" => puts' <= MaxPuts)
    BY <1>5 DEF Momentum!OtherPicks
  <2> QED  BY <1>5, <2>2, <2>3 DEF Momentum!OtherPicks
<1>6. CASE Momentum!TakePicks
  <2>1. /\ queue' \in Seq((SUBSET Momentum!Symbols) \ {{}})
        /\ Head(queue) \subseteq Momentum!Symbols
    BY <1>6 DEF Momentum!TakePicks
  <2> QED  BY <1>6, <2>1 DEF Momentum!TakePicks
<1>7. CASE Momentum!File
  BY <1>7 DEF Momentum!File
<1>8. CASE Momentum!FileFails
  BY <1>8 DEF Momentum!FileFails
<1>9. CASE Momentum!Restart
  <2>1. queue' \in Seq((SUBSET Momentum!Symbols) \ {{}})
    BY <1>9 DEF Momentum!Restart
  <2>2. puts' \in 0 .. MaxPuts + 1 /\ restarts' \in 0 .. MaxRestarts
    BY <1>9 DEF Momentum!Restart
  <2> QED  BY <1>9, <2>1, <2>2 DEF Momentum!Restart
<1>10. CASE UNCHANGED Momentum!vars
  BY <1>10 DEF Momentum!vars
<1> QED
  BY <1>1, <1>2, <1>3, <1>4, <1>5, <1>6, <1>7, <1>8, <1>9, <1>10 DEF Momentum!Next

\* What is on its way to the table has its reason, and what is there had it.
LEMMA MomentumStep ==
  ASSUME MomentumInv, [Momentum!Next]_(Momentum!vars)
  PROVE  MomentumInv'
<1> DEFINE Reasons ==
      /\ \A s \in Momentum!Symbols : snapshot'[s] = "fits" => reason'[s] <= minute'
      /\ \A s \in fits' \cup adding' : reason'[s] <= minute'
      /\ \A i \in 1 .. Len(queue') : \A s \in queue'[i] : reason'[s] <= minute'
      /\ \A r \in trending' : r.at <= minute' /\ reason'[r.symbol] <= r.at
      /\ \A s \in symbols' : \E r \in trending' : r.symbol = s
<1> SUFFICES Reasons
  BY MomentumType, ReasonsStay DEF MomentumInv, Reasonable
<1> USE MomentumNumbers, ReasonsAreNumbers DEF Momentum!scanning, Momentum!producer
<1>1. /\ minute' \in Nat /\ minute \in Nat /\ minute <= minute'
      /\ \A s \in Momentum!Symbols :
           reason[s] <= minute => reason'[s] = reason[s] /\ reason'[s] <= minute'
  BY ReasonsStay
<1>2. /\ \A s \in Momentum!Symbols : snapshot[s] = "fits" => reason'[s] <= minute'
      /\ \A s \in fits \cup adding : reason'[s] <= minute'
      /\ \A i \in 1 .. Len(queue) : queue[i] \subseteq Momentum!Symbols
      /\ \A i \in 1 .. Len(queue) : \A s \in queue[i] : reason'[s] <= minute'
      /\ fits \cup adding \cup symbols \subseteq Momentum!Symbols
      /\ queue \in Seq(SUBSET Momentum!Symbols)
      /\ snapshot \in [Momentum!Symbols -> {"fits", "misses", "broken"}]
  <2>1. queue \in Seq((SUBSET Momentum!Symbols) \ {{}})
    BY DEF MomentumInv, Momentum!TypeOK
  <2>2. \A i \in 1 .. Len(queue) : queue[i] \subseteq Momentum!Symbols
    BY <2>1
  <2>3. \A i \in 1 .. Len(queue) : \A s \in queue[i] : reason'[s] <= minute'
    BY <1>1, <2>2 DEF MomentumInv, Reasonable
  <2>4. queue \in Seq(SUBSET Momentum!Symbols)
    BY <2>1
  <2> QED
    BY <1>1, <2>2, <2>3, <2>4
    DEF MomentumInv, Reasonable, Momentum!TypeOK, Momentum!Markets
<1>3. /\ \A r \in trending :
           /\ r.at \in Nat /\ r.at <= minute /\ r.at <= minute'
           /\ r.symbol \in Momentum!Symbols
           /\ reason'[r.symbol] = reason[r.symbol] /\ reason'[r.symbol] <= r.at
      /\ \A s \in symbols : \E r \in trending : r.symbol = s
  <2>1. ASSUME NEW r \in trending
        PROVE  /\ r.at \in Nat /\ r.at <= minute /\ r.symbol \in Momentum!Symbols
               /\ reason[r.symbol] \in Nat /\ reason[r.symbol] <= r.at
    OBVIOUS
  <2>2. ASSUME NEW r \in trending PROVE r.at <= minute' /\ reason[r.symbol] <= minute
    BY <1>1, <2>1
  <2> QED  BY <1>1, <2>1, <2>2 DEF MomentumInv
<1>4. CASE Momentum!Minute
  <2>1. ASSUME NEW s \in Momentum!Symbols, snapshot'[s] = "fits"
        PROVE  reason'[s] <= minute'
    <3>1. /\ reason' = [t \in Momentum!Symbols |->
                          IF reason[t] = Momentum!Never /\ snapshot'[t] = "fits"
                          THEN minute' ELSE reason[t]]
          /\ minute' = minute + 1
      BY <1>4 DEF Momentum!Minute, Momentum!Since
    <3> QED  BY <1>1, <2>1, <3>1
  <2> QED  BY <1>2, <1>3, <1>4, <2>1 DEF Momentum!Minute
<1>5. CASE Momentum!Run
  BY <1>2, <1>3, <1>5 DEF Momentum!Run
<1>6. ASSUME NEW chunk \in Momentum!Chunks, Momentum!Answer(chunk) PROVE Reasons
  <2>1. chunk \subseteq Momentum!Symbols
    BY DEF Momentum!Chunks, Momentum!Chunk
  <2> QED  BY <1>2, <1>3, <1>6, <2>1 DEF Momentum!Answer
<1>7. CASE Momentum!Picked
  <2>1. \A i \in 1 .. Len(queue') : queue'[i] = fits \/ (i \in 1 .. Len(queue) /\ queue'[i] = queue[i])
    <3>1. fits \in SUBSET Momentum!Symbols
      BY <1>2
    <3>2. queue' = queue \/ queue' = Append(queue, fits)
      BY <1>7 DEF Momentum!Picked
    <3>3. queue \in Seq(SUBSET Momentum!Symbols) /\ Len(queue) \in Nat
      BY <1>2
    <3>4. CASE queue' = Append(queue, fits)
      BY <3>3, <3>4
    <3> QED  BY <3>2, <3>4
  <2> QED  BY <1>2, <1>3, <1>7, <2>1 DEF Momentum!Picked
<1>8. CASE Momentum!OtherPicks
  <2>1. PICK picks \in SUBSET Momentum!Symbols :
          /\ queue' = Append(queue, picks)
          /\ reason' = [s \in Momentum!Symbols |->
                          IF s \in picks /\ reason[s] = Momentum!Never
                          THEN minute ELSE reason[s]]
    BY <1>8 DEF Momentum!OtherPicks
  <2>2. \A i \in 1 .. Len(queue') : queue'[i] = picks \/ (i \in 1 .. Len(queue) /\ queue'[i] = queue[i])
    BY <1>2, <2>1
  <2>3. \A s \in picks : reason'[s] <= minute'
    <3>1. minute' = minute
      BY <1>8 DEF Momentum!OtherPicks
    <3> QED  BY <1>1, <2>1, <3>1
  <2> QED  BY <1>2, <1>3, <1>8, <2>2, <2>3 DEF Momentum!OtherPicks
<1>9. CASE Momentum!TakePicks
  <2>1. /\ \A s \in adding' : reason'[s] <= minute'
        /\ \A i \in 1 .. Len(queue') : i + 1 \in 1 .. Len(queue) /\ queue'[i] = queue[i + 1]
    BY <1>2, <1>9 DEF Momentum!TakePicks
  <2> QED  BY <1>2, <1>3, <1>9, <2>1 DEF Momentum!TakePicks
<1>10. CASE Momentum!File
  <2>1. /\ trending' = trending \cup {[symbol |-> s, at |-> minute] : s \in adding}
        /\ symbols' = symbols \cup adding /\ adding' = {} /\ minute' = minute
        /\ UNCHANGED <<snapshot, fits, queue, reason>>
    BY <1>10 DEF Momentum!File
  <2>2. ASSUME NEW s \in adding PROVE \E r \in trending' : r.symbol = s
    <3>1. [symbol |-> s, at |-> minute] \in trending'
      BY <2>1
    <3> QED  BY <3>1
  <2> QED  BY <1>1, <1>2, <1>3, <2>1, <2>2
<1>11. CASE Momentum!FileFails
  BY <1>2, <1>3, <1>11 DEF Momentum!FileFails
<1>12. CASE Momentum!Restart
  BY <1>2, <1>3, <1>12 DEF Momentum!Restart
<1>13. CASE UNCHANGED Momentum!vars
  BY <1>2, <1>3, <1>13 DEF Momentum!vars
<1> QED
  BY <1>4, <1>5, <1>6, <1>7, <1>8, <1>9, <1>10, <1>11, <1>12, <1>13 DEF Momentum!Next

\* A replay never has a symbol nobody had a reason to pick until a minute after
\* its time, and has all the live session added from the minute on at which
\* TrendingTickers.save filed it (momentum.py, trending_tickers.py).
THEOREM ReplayIsLiveAlways == Momentum!Spec => []ReplayIsLive
<1>1. MomentumInv => ReplayIsLive
  <2> SUFFICES ASSUME MomentumInv PROVE Momentum!ReplayIsLive
    BY DEF ReplayIsLive
  <2> USE MomentumNumbers, ReasonsAreNumbers
  <2>2. ASSUME NEW backTime \in Open .. LastMinute, NEW s \in Momentum!LoadFromDb(backTime)
        PROVE  reason[s] <= backTime + 1
    <3>1. PICK r \in trending : r.symbol = s /\ r.at <= backTime + 1
      BY DEF Momentum!LoadFromDb, Momentum!End
    <3>2. backTime \in Int
      BY MomentumNumbers
    <3>3. r.at \in Nat /\ reason[r.symbol] \in Nat /\ reason[r.symbol] <= r.at
      BY ReasonsAreNumbers
    <3> HIDE MomentumNumbers, ReasonsAreNumbers
    <3> QED  BY <3>1, <3>2, <3>3
  <2>3. ASSUME NEW s \in symbols PROVE s \in Momentum!LoadFromDb(0)
    <3>1. PICK r \in trending : r.symbol = s
      BY DEF MomentumInv
    <3> QED  BY <3>1 DEF Momentum!LoadFromDb, Momentum!Start, Momentum!End
  <2>4. ASSUME NEW r \in trending, r.at >= Open, NEW backTime \in r.at .. LastMinute
        PROVE  r.symbol \in Momentum!LoadFromDb(backTime)
    BY <2>4 DEF Momentum!LoadFromDb, Momentum!Start, Momentum!End
  <2> QED  BY <2>2, <2>3, <2>4 DEF Momentum!ReplayIsLive
<1> QED
  BY <1>1, MomentumInitially, MomentumStep, PTL DEF Momentum!Spec

-----------------------------------------------------------------------------
(* The trades of Gemini's stream.                                            *)

\* A quotient is where it should be, and grows.
LEMMA Quotient ==
  ASSUME NEW n \in Int, NEW len \in Nat \ {0}
  PROVE  /\ n \div len \in Int
         /\ len * (n \div len) <= n /\ n < len * (n \div len) + len
OBVIOUS

LEMMA QuotientGrows ==
  ASSUME NEW a \in Int, NEW b \in Int, NEW len \in Nat \ {0}, a <= b
  PROVE  a \div len <= b \div len
<1> DEFINE p == a \div len
           q == b \div len
<1>1. /\ p \in Int /\ q \in Int
      /\ len * p <= a /\ b < len * q + len
  BY Quotient
<1> HIDE DEF p, q
<1> SUFFICES ASSUME q + 1 <= p PROVE FALSE
  BY <1>1 DEF p, q
<1>2. len * (q + 1) <= len * p /\ len * (q + 1) = len * q + len
  BY <1>1
<1> QED  BY <1>1, <1>2

LEMMA MinuteIsMinute ==
  ASSUME NEW s \in 0 .. MaxSeconds
  PROVE  Streaming!Minute(s) \in Streaming!Minutes
<1>1. MaxSeconds \in Nat /\ MinuteLength \in Nat \ {0}
  BY StreamingAssumption DEF Streaming!ConstantsAssumption
<1>2. s \div MinuteLength \in Int /\ s \div MinuteLength <= MaxSeconds \div MinuteLength
  BY <1>1, Quotient, QuotientGrows
<1>3. 0 <= s \div MinuteLength
  <2>1. 0 \div MinuteLength = 0
    BY <1>1
  <2> QED  BY <1>1, <2>1, QuotientGrows
<1> QED  BY <1>2, <1>3 DEF Streaming!Minute, Streaming!Minutes

LEMMA MinutesAreFinite == IsFiniteSet(Streaming!Minutes)
<1>1. Streaming!Minute(MaxSeconds) \in Int
  BY StreamingAssumption DEF Streaming!ConstantsAssumption, Streaming!Minute
<1> QED  BY <1>1, FS_Interval DEF Streaming!Minutes

Made == 1 .. Len(made)

Filled == {m \in Streaming!Minutes : row[m] # None}

StreamTyped ==
  /\ second \in 0 .. MaxSeconds /\ made \in Seq(0 .. MaxSeconds)
  /\ socket \in Seq(Made) /\ waiting \in Seq(Made)
  /\ row \in [Streaming!Minutes -> {None} \cup Made]
  /\ known \in BOOLEAN

\* Trades come in their order, those of the queue before those of the socket.
TradesInOrder ==
  /\ \A i, j \in 1 .. Len(socket) : i < j => socket[i] < socket[j]
  /\ \A i, j \in 1 .. Len(waiting) : i < j => waiting[i] < waiting[j]
  /\ \A i \in 1 .. Len(waiting), j \in 1 .. Len(socket) : waiting[i] < socket[j]

\* A trade made its minute's row or found it made, or the loader failed on it.
Served(t) ==
  \/ row[Streaming!MinuteOf(t)] # None /\ row[Streaming!MinuteOf(t)] <= t
  \/ Streaming!LostFor(t, "unknown")

\* The trade that was handled last came before all that are on their way.
LastServed ==
  time_tick # None =>
    \E u \in Made :
      /\ made[u] = time_tick /\ Served(u)
      /\ \A i \in 1 .. Len(waiting) : u < waiting[i]
      /\ \A i \in 1 .. Len(socket) : u < socket[i]

\* A row is made of a trade before them, too.
RowsEarlier ==
  \A m \in Streaming!Minutes : row[m] # None =>
    /\ \A i \in 1 .. Len(waiting) : row[m] < waiting[i]
    /\ \A i \in 1 .. Len(socket) : row[m] < socket[i]

\* Nothing more is to come of a trade.
Settled(t) ==
  \/ Served(t)
  \/ \E why \in {"broken", "unrouted", "late"} : Streaming!LostFor(t, why)
  \/ \E u \in 1 .. t - 1 : Streaming!LostFor(u, "unknown") /\ made[u] = made[t]

OnItsWay(t) ==
  \/ \E i \in 1 .. Len(socket) : socket[i] = t
  \/ \E i \in 1 .. Len(waiting) : waiting[i] = t

\* The loader fails once, on the first trade it is given.
LoaderFailsOnce ==
  \A k, l \in lost : k.why = "unknown" /\ l.why = "unknown" => known /\ k = l

StreamInv ==
  /\ StreamTyped /\ TradesInOrder /\ LastServed /\ RowsEarlier /\ LoaderFailsOnce
  /\ \A t \in Made : OnItsWay(t) \/ Settled(t)
  /\ volume_today = Cardinality(Filled)

LEMMA StreamInitially == Streaming!Init => StreamInv
<1> SUFFICES ASSUME Streaming!Init PROVE StreamInv
  OBVIOUS
<1>1. Len(made) = 0 /\ Len(socket) = 0 /\ Len(waiting) = 0 /\ Made = {}
  BY DEF Streaming!Init, Made
<1>2. StreamTyped
  <2>1. second \in 0 .. MaxSeconds
    BY StreamingAssumption DEF Streaming!Init, Streaming!ConstantsAssumption
  <2>2. /\ made \in Seq(0 .. MaxSeconds) /\ socket \in Seq(Made) /\ waiting \in Seq(Made)
        /\ row \in [Streaming!Minutes -> {None} \cup Made] /\ known \in BOOLEAN
    BY DEF Streaming!Init
  <2> QED  BY <2>1, <2>2 DEF StreamTyped
<1>3. Filled = {}
  BY DEF Streaming!Init, Filled
<1>4. volume_today = Cardinality(Filled)
  BY <1>3, FS_EmptySet DEF Streaming!Init
<1> QED
  BY <1>1, <1>2, <1>4
  DEF StreamInv, TradesInOrder, LastServed, RowsEarlier, LoaderFailsOnce, Streaming!Init

LEMMA MadeAt ==
  ASSUME StreamTyped, NEW t \in Made
  PROVE  /\ t \in Nat /\ made[t] \in 0 .. MaxSeconds
         /\ Streaming!MinuteOf(t) \in Streaming!Minutes
<1>1. made \in Seq(0 .. MaxSeconds)
  BY DEF StreamTyped
<1>2. t \in Nat /\ t \in 1 .. Len(made)
  BY <1>1 DEF Made
<1>3. made[t] \in 0 .. MaxSeconds
  BY <1>1, <1>2, ElementOfSeq
<1> QED  BY <1>2, <1>3, MinuteIsMinute DEF Streaming!MinuteOf

\* A row is kept, and so is what is known of a lost trade.
Grows ==
  /\ \A t \in Made : t \in Made' /\ made'[t] = made[t]
  /\ \A m \in Streaming!Minutes : row[m] # None => row'[m] = row[m]
  /\ lost \subseteq lost'

LEMMA ServedStays ==
  ASSUME StreamTyped, Grows, NEW t \in Made
  PROVE  /\ Served(t) => Served(t)'
         /\ Settled(t) => Settled(t)'
<1>1. /\ t \in Nat /\ Streaming!MinuteOf(t) \in Streaming!Minutes
      /\ Streaming!MinuteOf(t)' = Streaming!MinuteOf(t)
  BY MadeAt DEF Grows, Streaming!MinuteOf, Streaming!Minute
<1>2. \A r : \A u : Streaming!LostFor(u, r) => Streaming!LostFor(u, r)'
  BY DEF Grows, Streaming!LostFor
<1>3. Served(t) => Served(t)'
  BY <1>1, <1>2 DEF Served, Grows
<1>4. ASSUME NEW u \in 1 .. t - 1, made[u] = made[t]
      PROVE  made'[u] = made'[t]
  <2>1. u \in Made
    BY <1>1 DEF Made, StreamTyped
  <2> QED  BY <1>4, <2>1 DEF Grows
<1> QED  BY <1>2, <1>3, <1>4 DEF Settled

\* The last trade that was handled is the last one still.
LEMMA LastStays ==
  ASSUME StreamTyped, LastServed, RowsEarlier, Grows,
         time_tick' = time_tick, row' = row,
         \A i \in 1 .. Len(waiting') :
           \/ \E k \in 1 .. Len(waiting) : waiting'[i] = waiting[k]
           \/ \E k \in 1 .. Len(socket) : waiting'[i] = socket[k]
           \/ waiting'[i] \notin Made /\ waiting'[i] \in Made',
         \A i \in 1 .. Len(socket') :
           \/ \E k \in 1 .. Len(socket) : socket'[i] = socket[k]
           \/ socket'[i] \notin Made /\ socket'[i] \in Made'
  PROVE  LastServed' /\ RowsEarlier'
<1>1. ASSUME NEW t \in Made', t \notin Made, NEW u \in Made PROVE u < t
  BY <1>1 DEF Made, StreamTyped
<1>2. ASSUME time_tick # None PROVE LastServed'
  <2>1. PICK u \in Made :
          /\ made[u] = time_tick /\ Served(u)
          /\ \A i \in 1 .. Len(waiting) : u < waiting[i]
          /\ \A i \in 1 .. Len(socket) : u < socket[i]
    BY <1>2 DEF LastServed
  <2>2. u \in Made' /\ made'[u] = time_tick' /\ Served(u)'
    BY <2>1, ServedStays DEF Grows
  <2> QED  BY <1>1, <2>1, <2>2 DEF LastServed
<1>3. RowsEarlier'
  <2> SUFFICES ASSUME NEW m \in Streaming!Minutes, row[m] # None
               PROVE  /\ \A i \in 1 .. Len(waiting') : row[m] < waiting'[i]
                      /\ \A i \in 1 .. Len(socket') : row[m] < socket'[i]
    BY DEF RowsEarlier
  <2>1. row[m] \in Made
    BY DEF StreamTyped
  <2> QED  BY <1>1, <2>1 DEF RowsEarlier
<1> QED  BY <1>2, <1>3 DEF LastServed

\* What the steps of the stream do.  Each of them is one of these.
LEMMA StreamedStep ==
  ASSUME StreamInv, Streaming!Streamed
  PROVE  StreamInv'
<1> USE DEF StreamInv
<1>1. /\ made' = Append(made, second) /\ socket' = Append(socket, Len(made) + 1)
      /\ UNCHANGED <<second, waiting, time_tick, known, row, volume_today, lost>>
  BY DEF Streaming!Streamed
<1>2. /\ Len(made) \in Nat /\ Len(made') = Len(made) + 1 /\ Made' = Made \cup {Len(made) + 1}
      /\ made' \in Seq(0 .. MaxSeconds)
      /\ \A t \in Made : made'[t] = made[t]
  BY <1>1 DEF StreamTyped, Made
<1>3. /\ Len(socket) \in Nat /\ Len(socket') = Len(socket) + 1
      /\ \A i \in 1 .. Len(socket) : socket'[i] = socket[i] /\ socket[i] \in Made
      /\ socket'[Len(socket) + 1] = Len(made) + 1
      /\ socket' \in Seq(Made')
  <2>1. socket \in Seq(Made') /\ Len(made) + 1 \in Made'
    BY <1>2, SeqDef DEF StreamTyped
  <2> QED  BY <1>1, <2>1 DEF StreamTyped
<1>4. \A i \in 1 .. Len(waiting) : waiting[i] \in Made
  BY DEF StreamTyped
<1>5. Grows
  BY <1>1, <1>2 DEF Grows
<1>6. StreamTyped'
  <2>1. waiting' \in Seq(Made') /\ row' \in [Streaming!Minutes -> {None} \cup Made']
    BY <1>1, <1>2 DEF StreamTyped
  <2> QED  BY <1>1, <1>2, <1>3, <2>1 DEF StreamTyped
<1>7. TradesInOrder'
  <2>1. \A i, j \in 1 .. Len(socket') : i < j => socket'[i] < socket'[j]
    <3> SUFFICES ASSUME NEW i \in 1 .. Len(socket'), NEW j \in 1 .. Len(socket'), i < j
                 PROVE  socket'[i] < socket'[j]
      OBVIOUS
    <3>1. i \in 1 .. Len(socket) /\ (j \in 1 .. Len(socket) \/ j = Len(socket) + 1)
      BY <1>3
    <3>2. socket[i] \in 1 .. Len(made)
      BY <1>3, <3>1 DEF Made
    <3> QED  BY <1>2, <1>3, <3>1, <3>2 DEF TradesInOrder
  <2>2. ASSUME NEW i \in 1 .. Len(waiting), NEW j \in 1 .. Len(socket')
        PROVE  waiting[i] < socket'[j]
    <3>1. j \in 1 .. Len(socket) \/ j = Len(socket) + 1
      BY <1>3
    <3>2. waiting[i] \in 1 .. Len(made)
      BY <1>4 DEF Made
    <3> QED  BY <1>2, <1>3, <3>1, <3>2 DEF TradesInOrder
  <2>3. \A i, j \in 1 .. Len(waiting') : i < j => waiting'[i] < waiting'[j]
    BY <1>1 DEF TradesInOrder
  <2>4. waiting' = waiting
    BY <1>1
  <2> QED  BY <2>1, <2>2, <2>3, <2>4 DEF TradesInOrder
<1>8. LastServed' /\ RowsEarlier'
  BY <1>1, <1>2, <1>3, <1>5, LastStays DEF Made
<1>9. \A t \in Made' : OnItsWay(t)' \/ Settled(t)'
  <2>1. ASSUME NEW t \in Made PROVE OnItsWay(t)' \/ Settled(t)'
    BY <1>1, <1>3, <1>5, ServedStays DEF OnItsWay
  <2>2. ASSUME NEW t, t = Len(made) + 1 PROVE OnItsWay(t)'
    BY <1>3, <2>2 DEF OnItsWay
  <2> QED  BY <1>2, <2>1, <2>2
<1>10. LoaderFailsOnce' /\ volume_today' = Cardinality(Filled')
  BY <1>1 DEF LoaderFailsOnce, Filled
<1> QED  BY <1>6, <1>7, <1>8, <1>9, <1>10

LEMMA BreaksStep ==
  ASSUME StreamInv, Streaming!Breaks
  PROVE  StreamInv'
<1> USE DEF StreamInv
<1>1. /\ socket' = <<>>
      /\ lost' = lost \cup {[trade |-> socket[k], why |-> "broken"] : k \in DOMAIN socket}
      /\ UNCHANGED <<second, made, waiting, time_tick, known, row, volume_today>>
  BY DEF Streaming!Breaks
<1>2. Len(socket') = 0 /\ Made' = Made /\ DOMAIN socket = 1 .. Len(socket)
  BY <1>1 DEF Made, StreamTyped
<1>3. Grows
  BY <1>1, <1>2 DEF Grows
<1>4. StreamTyped'
  <2>1. socket' \in Seq(Made')
    BY <1>1
  <2> QED  BY <1>1, <1>2, <2>1 DEF StreamTyped
<1>5. TradesInOrder'
  BY <1>1, <1>2 DEF TradesInOrder
<1>6. LastServed' /\ RowsEarlier'
  BY <1>1, <1>2, <1>3, LastStays
<1>7. ASSUME NEW t \in Made PROVE OnItsWay(t)' \/ Settled(t)'
  <2>1. ASSUME NEW i \in 1 .. Len(socket), socket[i] = t PROVE Settled(t)'
    <3>1. Streaming!LostFor(t, "broken")'
      BY <1>1, <1>2, <2>1 DEF Streaming!LostFor
    <3> QED  BY <3>1 DEF Settled
  <2> QED  BY <1>1, <1>3, <2>1, ServedStays DEF OnItsWay
<1>8. LoaderFailsOnce'
  BY <1>1 DEF LoaderFailsOnce
<1>9. volume_today' = Cardinality(Filled')
  BY <1>1 DEF Filled
<1> QED  BY <1>2, <1>4, <1>5, <1>6, <1>7, <1>8, <1>9

\* The head of what is on its way: later ones come after it.
LEMMA FirstOfSocket ==
  ASSUME StreamTyped, socket # <<>>
  PROVE  /\ Head(socket) = socket[1] /\ 1 \in 1 .. Len(socket) /\ Head(socket) \in Made
         /\ Tail(socket) \in Seq(Made)
         /\ Len(Tail(socket)) = Len(socket) - 1
         /\ \A i \in 1 .. Len(Tail(socket)) :
              i + 1 \in 1 .. Len(socket) /\ Tail(socket)[i] = socket[i + 1]
<1>1. socket \in Seq(Made)
  BY DEF StreamTyped
<1> QED  BY <1>1

LEMMA FirstOfQueue ==
  ASSUME StreamTyped, waiting # <<>>
  PROVE  /\ Head(waiting) = waiting[1] /\ 1 \in 1 .. Len(waiting) /\ Head(waiting) \in Made
         /\ Tail(waiting) \in Seq(Made)
         /\ Len(Tail(waiting)) = Len(waiting) - 1
         /\ \A i \in 1 .. Len(Tail(waiting)) :
              i + 1 \in 1 .. Len(waiting) /\ Tail(waiting)[i] = waiting[i + 1]
<1>1. waiting \in Seq(Made)
  BY DEF StreamTyped
<1> QED  BY <1>1

LEMMA ListenerStep ==
  ASSUME StreamInv, Streaming!TradesHandler
  PROVE  StreamInv'
<1> USE DEF StreamInv
<1>1. /\ socket # <<>> /\ socket' = Tail(socket)
      /\ UNCHANGED <<second, made, time_tick, known, row, volume_today>>
      /\ \/ waiting' = Append(waiting, Head(socket)) /\ lost' = lost
         \/ /\ lost' = lost \cup {[trade |-> Head(socket), why |-> "unrouted"]}
            /\ waiting' = waiting
  BY DEF Streaming!TradesHandler, Streaming!Lose
<1>2. /\ Head(socket) = socket[1] /\ 1 \in 1 .. Len(socket) /\ Head(socket) \in Made
      /\ socket' \in Seq(Made) /\ Len(socket') = Len(socket) - 1
      /\ \A i \in 1 .. Len(socket') :
           i + 1 \in 1 .. Len(socket) /\ socket'[i] = socket[i + 1]
  BY <1>1, FirstOfSocket
<1>3. /\ Made' = Made /\ Made \subseteq Nat /\ Grows
      /\ Len(socket) \in Nat /\ Len(waiting) \in Nat
      /\ \A i \in 1 .. Len(socket) : socket[i] \in Made
      /\ \A i \in 1 .. Len(waiting) : waiting[i] \in Made
  <2>1. Len(made) \in Nat /\ Made = 1 .. Len(made)
    BY DEF Made, StreamTyped
  <2>2. Made' = Made /\ Grows
    BY <1>1, <2>1 DEF Made, Grows
  <2>3. socket \in Seq(Made) /\ waiting \in Seq(Made)
    BY DEF StreamTyped
  <2> QED  BY <2>1, <2>2, <2>3
<1>4. /\ waiting' \in Seq(Made) /\ Len(waiting') \in Nat
      /\ Len(waiting) <= Len(waiting')
      /\ \A i \in 1 .. Len(waiting) : waiting'[i] = waiting[i]
      /\ \A i \in 1 .. Len(waiting') :
           i \in 1 .. Len(waiting) \/ (i = Len(waiting) + 1 /\ waiting'[i] = socket[1])
  <2>1. waiting \in Seq(Made) /\ Len(waiting) \in Nat
    BY <1>3 DEF StreamTyped
  <2>2. CASE waiting' = waiting
    BY <2>1, <2>2
  <2>3. CASE waiting' = Append(waiting, Head(socket))
    BY <1>2, <2>1, <2>3
  <2> QED  BY <1>1, <2>2, <2>3
<1>5. StreamTyped'
  BY <1>1, <1>2, <1>3, <1>4 DEF StreamTyped
<1>6. TradesInOrder'
  <2>1. \A i, j \in 1 .. Len(socket') : i < j => socket'[i] < socket'[j]
    <3> SUFFICES ASSUME NEW i \in 1 .. Len(socket'), NEW j \in 1 .. Len(socket'), i < j
                 PROVE  socket'[i] < socket'[j]
      OBVIOUS
    <3>1. /\ i + 1 \in 1 .. Len(socket) /\ socket'[i] = socket[i + 1]
          /\ j + 1 \in 1 .. Len(socket) /\ socket'[j] = socket[j + 1]
          /\ i + 1 < j + 1
      BY <1>2
    <3> QED  BY <3>1 DEF TradesInOrder
  <2>2. ASSUME NEW j \in 1 .. Len(socket') PROVE socket[1] < socket'[j]
    <3>1. j + 1 \in 1 .. Len(socket) /\ socket'[j] = socket[j + 1] /\ 1 < j + 1
      BY <1>2
    <3> QED  BY <1>2, <3>1 DEF TradesInOrder
  <2>3. ASSUME NEW i \in 1 .. Len(waiting), NEW j \in 1 .. Len(socket')
        PROVE  waiting[i] < socket'[j]
    BY <1>2 DEF TradesInOrder
  <2>4. ASSUME NEW i \in 1 .. Len(waiting) PROVE waiting[i] < socket[1]
    BY <1>2 DEF TradesInOrder
  <2>5. \A i, j \in 1 .. Len(waiting') : i < j => waiting'[i] < waiting'[j]
    BY <1>3, <1>4, <2>4 DEF TradesInOrder
  <2>6. \A i \in 1 .. Len(waiting'), j \in 1 .. Len(socket') : waiting'[i] < socket'[j]
    BY <1>4, <2>2, <2>3
  <2> QED  BY <2>1, <2>5, <2>6 DEF TradesInOrder
<1>7. LastServed' /\ RowsEarlier'
  BY <1>1, <1>2, <1>3, <1>4, LastStays
<1>8. ASSUME NEW t \in Made PROVE OnItsWay(t)' \/ Settled(t)'
  <2>1. CASE Settled(t)
    BY <1>3, <2>1, ServedStays
  <2>2. CASE t = socket[1]
    <3>1. CASE lost' = lost \cup {[trade |-> Head(socket), why |-> "unrouted"]}
      BY <1>2, <2>2, <3>1 DEF Settled, Streaming!LostFor
    <3>2. CASE waiting' = Append(waiting, Head(socket))
      <4>1. Len(waiting) + 1 \in 1 .. Len(waiting') /\ waiting'[Len(waiting) + 1] = t
        <5>1. waiting \in Seq(Made)
          BY DEF StreamTyped
        <5> QED  BY <1>2, <2>2, <3>2, <5>1
      <4> QED  BY <4>1 DEF OnItsWay
    <3> QED  BY <1>1, <3>1, <3>2
  <2>3. ASSUME NEW i \in 1 .. Len(socket), socket[i] = t, i # 1 PROVE OnItsWay(t)'
    <3>1. i - 1 \in 1 .. Len(socket') /\ socket'[i - 1] = t
      BY <1>2, <1>3, <2>3
    <3> QED  BY <3>1 DEF OnItsWay
  <2>4. ASSUME NEW i \in 1 .. Len(waiting), waiting[i] = t PROVE OnItsWay(t)'
    <3>1. i \in 1 .. Len(waiting') /\ waiting'[i] = t
      BY <1>3, <1>4, <2>4
    <3> QED  BY <3>1 DEF OnItsWay
  <2> QED  BY <2>1, <2>2, <2>3, <2>4 DEF OnItsWay
<1>9. LoaderFailsOnce'
  BY <1>1 DEF LoaderFailsOnce
<1>10. volume_today' = Cardinality(Filled')
  BY <1>1 DEF Filled
<1> QED  BY <1>3, <1>5, <1>6, <1>7, <1>8, <1>9, <1>10

\* What is left in the queue when its first trade was taken.
LEMMA QueueTaken ==
  ASSUME StreamInv, waiting # <<>>, waiting' = Tail(waiting), UNCHANGED <<made, socket>>
  PROVE  /\ Made' = Made /\ waiting[1] \in Made
         /\ waiting' \in Seq(Made) /\ socket' \in Seq(Made)
         /\ TradesInOrder'
         /\ \A i \in 1 .. Len(waiting') : \E k \in 1 .. Len(waiting) : waiting'[i] = waiting[k]
         /\ \A i \in 1 .. Len(waiting') : waiting[1] < waiting'[i]
         /\ \A i \in 1 .. Len(socket') : waiting[1] < socket'[i]
         /\ \A t \in Made : OnItsWay(t) /\ t # waiting[1] => OnItsWay(t)'
<1> USE DEF StreamInv
<1>1. /\ 1 \in 1 .. Len(waiting) /\ waiting[1] \in Made
      /\ waiting' \in Seq(Made) /\ Len(waiting') = Len(waiting) - 1
      /\ \A i \in 1 .. Len(waiting') :
           i + 1 \in 1 .. Len(waiting) /\ waiting'[i] = waiting[i + 1]
  BY FirstOfQueue
<1>2. Made' = Made /\ socket' = socket /\ socket \in Seq(Made) /\ Len(waiting) \in Nat
  BY DEF Made, StreamTyped
<1>3. TradesInOrder'
  BY <1>1, <1>2 DEF TradesInOrder
<1>4. \A i \in 1 .. Len(waiting') : waiting[1] < waiting'[i]
  BY <1>1 DEF TradesInOrder
<1>5. \A i \in 1 .. Len(socket') : waiting[1] < socket'[i]
  BY <1>1, <1>2 DEF TradesInOrder
<1>6. ASSUME NEW t \in Made, OnItsWay(t), t # waiting[1] PROVE OnItsWay(t)'
  <2>1. ASSUME NEW i \in 1 .. Len(waiting), waiting[i] = t PROVE OnItsWay(t)'
    <3>1. i - 1 \in 1 .. Len(waiting') /\ waiting'[i - 1] = t
      BY <1>1, <1>2, <1>6, <2>1
    <3> QED  BY <3>1 DEF OnItsWay
  <2> QED  BY <1>2, <1>6, <2>1 DEF OnItsWay
<1> QED  BY <1>1, <1>2, <1>3, <1>4, <1>5, <1>6

\* A trade of the second of the last one is settled by it.
LEMMA DropStep ==
  ASSUME StreamInv, Streaming!Drop
  PROVE  StreamInv'
<1> USE DEF StreamInv
<1>1. /\ waiting # <<>> /\ waiting' = Tail(waiting)
      /\ UNCHANGED <<second, made, socket, time_tick, known, row, volume_today>>
      /\ \/ lost' = lost \cup {[trade |-> Head(waiting), why |-> "late"]}
         \/ /\ lost' = lost \cup {[trade |-> Head(waiting), why |-> "repeated"]}
            /\ made[Head(waiting)] = time_tick
  BY DEF Streaming!Drop, Streaming!Lose, Streaming!SameSecond
<1>2. Head(waiting) = waiting[1] /\ waiting[1] \in Made /\ 1 \in 1 .. Len(waiting)
  BY <1>1, FirstOfQueue
<1>3. Made' = Made /\ Grows
  BY <1>1 DEF Made, Grows
<1>4. StreamTyped'
  BY <1>1, <1>3, QueueTaken DEF StreamTyped
<1>5. LastServed' /\ RowsEarlier'
  BY <1>1, <1>3, QueueTaken, LastStays
<1>6. ASSUME NEW t \in Made, t = waiting[1] PROVE Settled(t)'
  <2>1. CASE lost' = lost \cup {[trade |-> Head(waiting), why |-> "late"]}
    BY <1>2, <1>6, <2>1 DEF Settled, Streaming!LostFor
  <2>2. CASE made[Head(waiting)] = time_tick
    <3>1. made[t] = time_tick /\ time_tick # None /\ t \in Nat
      BY <1>2, <1>6, <2>2, MadeAt, StreamingAssumption DEF Streaming!ConstantsAssumption
    <3>2. PICK u \in Made :
            made[u] = time_tick /\ Served(u) /\ u < waiting[1]
      BY <1>2, <3>1 DEF LastServed
    <3>3. u \in 1 .. t - 1 /\ made[u] = made[t] /\ u \in Nat
      <4>1. u \in Nat /\ 1 <= u /\ u < t /\ t \in Nat
        BY <1>6, <3>1, <3>2 DEF Made, StreamTyped
      <4> QED  BY <3>1, <3>2, <4>1
    <3>4. CASE Streaming!LostFor(u, "unknown")
      BY <1>3, <3>3, <3>4, ServedStays DEF Settled
    <3>5. CASE row[Streaming!MinuteOf(u)] # None /\ row[Streaming!MinuteOf(u)] <= u
      <4>1. Streaming!MinuteOf(t) = Streaming!MinuteOf(u)
        BY <3>3 DEF Streaming!MinuteOf
      <4>2. row[Streaming!MinuteOf(u)] \in Made
        BY <3>2, <3>5, MadeAt DEF StreamTyped
      <4>3. row[Streaming!MinuteOf(t)] <= t
        <5>1. row[Streaming!MinuteOf(u)] \in Nat /\ u < t /\ u \in Nat /\ t \in Nat
          BY <3>1, <3>3, <4>2 DEF Made
        <5> QED  BY <3>5, <4>1, <5>1
      <4>4. Served(t)
        BY <3>5, <4>1, <4>3 DEF Served
      <4> QED  BY <1>3, <4>4, ServedStays DEF Settled
    <3> QED  BY <3>2, <3>4, <3>5 DEF Served
  <2> QED  BY <1>1, <2>1, <2>2
<1>7. ASSUME NEW t \in Made PROVE OnItsWay(t)' \/ Settled(t)'
  <2>1. OnItsWay(t) /\ t # waiting[1] => OnItsWay(t)'
    BY <1>1, QueueTaken
  <2>2. Settled(t) => Settled(t)'
    BY <1>3, ServedStays
  <2> QED  BY <1>6, <2>1, <2>2
<1>8. LoaderFailsOnce'
  <2>1. ASSUME NEW k \in lost', k.why = "unknown" PROVE k \in lost
    <3>1. CASE lost' = lost \cup {[trade |-> Head(waiting), why |-> "late"]}
      BY <2>1, <3>1
    <3>2. CASE lost' = lost \cup {[trade |-> Head(waiting), why |-> "repeated"]}
      BY <2>1, <3>2
    <3> QED  BY <1>1, <3>1, <3>2
  <2> QED  BY <1>1, <2>1 DEF LoaderFailsOnce
<1>9. volume_today' = Cardinality(Filled')
  BY <1>1 DEF Filled
<1> QED  BY <1>1, <1>3, <1>4, <1>5, <1>7, <1>8, <1>9, QueueTaken

\* A trade that is handled makes the row of its minute, finds it made, or is the
\* one the loader fails on.
LEMMA HandleStep ==
  ASSUME StreamInv, Streaming!Handle
  PROVE  StreamInv'
<1> USE DEF StreamInv
<1>0. PICK t : t = waiting[1]
  OBVIOUS
<1>1. /\ waiting # <<>> /\ waiting' = Tail(waiting) /\ known' = TRUE
      /\ time_tick' = made[t]
      /\ UNCHANGED <<second, made, socket>>
      /\ IF known /\ Streaming!Aggregated(t)
         THEN row' = [row EXCEPT ![Streaming!MinuteOf(t)] = t]
              /\ volume_today' = volume_today + 1
         ELSE UNCHANGED <<row, volume_today>>
      /\ IF known THEN lost' = lost
         ELSE lost' = lost \cup {[trade |-> t, why |-> "unknown"]}
  <2>1. waiting # <<>>
    BY DEF Streaming!Handle
  <2>2. Head(waiting) = t
    BY <1>0, <2>1, FirstOfQueue
  <2> QED  BY <2>1, <2>2 DEF Streaming!Handle, Streaming!Lose
<1>2. /\ Made' = Made /\ t \in Made /\ t \in Nat
      /\ Streaming!MinuteOf(t) \in Streaming!Minutes
      /\ Streaming!MinuteOf(t)' = Streaming!MinuteOf(t)
  <2>1. Made' = Made /\ t \in Made
    BY <1>0, <1>1, QueueTaken
  <2> QED  BY <1>1, <2>1, MadeAt DEF Streaming!MinuteOf, Streaming!Minute
<1>3. /\ row \in [Streaming!Minutes -> {None} \cup Made] /\ None \notin Nat
      /\ row' \in [Streaming!Minutes -> {None} \cup Made]
      /\ \A m \in Streaming!Minutes : row[m] # None => row'[m] = row[m]
  BY <1>1, <1>2, StreamingAssumption
  DEF StreamTyped, Streaming!Aggregated, Streaming!ConstantsAssumption
<1>4. Grows
  BY <1>1, <1>2, <1>3 DEF Grows
<1>5. StreamTyped'
  <2>1. second' \in 0 .. MaxSeconds /\ made' \in Seq(0 .. MaxSeconds) /\ known' \in BOOLEAN
    BY <1>1 DEF StreamTyped
  <2>2. socket' \in Seq(Made') /\ waiting' \in Seq(Made')
    BY <1>1, <1>2, QueueTaken
  <2> QED  BY <1>2, <1>3, <2>1, <2>2 DEF StreamTyped
<1>6. Served(t)'
  <2>1. CASE ~known
    BY <1>1, <2>1 DEF Served, Streaming!LostFor
  <2>2. CASE known /\ Streaming!Aggregated(t)
    <3>1. row'[Streaming!MinuteOf(t)] = t
      BY <1>1, <1>2, <1>3, <2>2
    <3> QED  BY <1>2, <1>3, <3>1 DEF Served
  <2>3. CASE known /\ ~Streaming!Aggregated(t)
    <3>1. /\ row[Streaming!MinuteOf(t)] # None
          /\ row'[Streaming!MinuteOf(t)] = row[Streaming!MinuteOf(t)]
      BY <1>1, <2>3 DEF Streaming!Aggregated
    <3>2. row[Streaming!MinuteOf(t)] \in Nat
      BY <1>2, <1>3, <3>1 DEF Made
    <3>3. row[Streaming!MinuteOf(t)] < t
      BY <1>0, <1>1, <1>2, <3>1, FirstOfQueue DEF RowsEarlier
    <3>4. row'[Streaming!MinuteOf(t)] # None /\ row'[Streaming!MinuteOf(t)] <= t
      BY <1>2, <3>1, <3>2, <3>3
    <3> QED  BY <1>2, <3>4 DEF Served
  <2> QED  BY <2>1, <2>2, <2>3
<1>7. LastServed'
  BY <1>0, <1>1, <1>2, <1>6, QueueTaken DEF LastServed
<1>8. RowsEarlier'
  <2>1. ASSUME NEW m \in Streaming!Minutes, row[m] # None
        PROVE  /\ \A i \in 1 .. Len(waiting') : row[m] < waiting'[i]
               /\ \A i \in 1 .. Len(socket') : row[m] < socket'[i]
    BY <1>1, <2>1, QueueTaken DEF RowsEarlier
  <2>2. /\ \A i \in 1 .. Len(waiting') : t < waiting'[i]
        /\ \A i \in 1 .. Len(socket') : t < socket'[i]
    BY <1>0, <1>1, QueueTaken
  <2>3. \A m \in Streaming!Minutes : row'[m] = row[m] \/ row'[m] = t
    BY <1>1, <1>2, <1>3
  <2> QED  BY <2>1, <2>2, <2>3 DEF RowsEarlier
<1>9. ASSUME NEW u \in Made PROVE OnItsWay(u)' \/ Settled(u)'
  <2>1. OnItsWay(u) /\ u # waiting[1] => OnItsWay(u)'
    BY <1>1, QueueTaken
  <2>2. Settled(u) => Settled(u)'
    BY <1>4, ServedStays
  <2>3. u = t => Settled(u)'
    BY <1>6 DEF Settled
  <2> QED  BY <1>0, <2>1, <2>2, <2>3
<1>10. LoaderFailsOnce'
  <2>1. CASE known
    BY <1>1, <2>1 DEF LoaderFailsOnce
  <2>2. CASE ~known
    <3>1. \A k \in lost : k.why # "unknown"
      BY <2>2 DEF LoaderFailsOnce
    <3>2. \A k \in lost' : k.why = "unknown" => k = [trade |-> t, why |-> "unknown"]
      BY <1>1, <2>2, <3>1
    <3> QED  BY <1>1, <3>2 DEF LoaderFailsOnce
  <2> QED  BY <2>1, <2>2
<1>11. volume_today' = Cardinality(Filled')
  <2>1. CASE ~(known /\ Streaming!Aggregated(t))
    BY <1>1, <2>1 DEF Filled
  <2>2. CASE known /\ Streaming!Aggregated(t)
    <3>1. Streaming!MinuteOf(t) \notin Filled
      BY <2>2 DEF Filled, Streaming!Aggregated
    <3>2. Filled' = Filled \cup {Streaming!MinuteOf(t)}
      BY <1>1, <1>2, <1>3, <2>2 DEF Filled
    <3>3. IsFiniteSet(Filled)
      BY MinutesAreFinite, FS_Subset DEF Filled
    <3> QED  BY <1>1, <2>2, <3>1, <3>2, <3>3, FS_AddElement
  <2> QED  BY <2>1, <2>2
<1> QED  BY <1>1, <1>2, <1>5, <1>7, <1>8, <1>9, <1>10, <1>11, QueueTaken

LEMMA StreamStep ==
  ASSUME StreamInv, [Streaming!Next]_(Streaming!vars)
  PROVE  StreamInv'
<1>1. CASE /\ UNCHANGED <<made, socket, waiting, time_tick, known, row, volume_today, lost>>
           /\ second' \in 0 .. MaxSeconds
  BY <1>1
  DEF StreamInv, StreamTyped, TradesInOrder, LastServed, RowsEarlier, LoaderFailsOnce, Made,
      Filled, Served, Settled, OnItsWay, Streaming!LostFor, Streaming!MinuteOf,
      Streaming!Minute
<1>2. CASE Streaming!Tick
  <2>1. second' \in 0 .. MaxSeconds
    BY <1>2, StreamingAssumption
    DEF Streaming!Tick, StreamInv, StreamTyped, Streaming!ConstantsAssumption
  <2> QED  BY <1>1, <1>2, <2>1 DEF Streaming!Tick
<1>3. CASE Streaming!Run \/ Streaming!Route \/ UNCHANGED Streaming!vars
  BY <1>1, <1>3 DEF Streaming!Run, Streaming!Route, Streaming!vars, StreamInv, StreamTyped
<1> QED
  BY <1>2, <1>3, StreamedStep, BreaksStep, ListenerStep, DropStep, HandleStep
  DEF Streaming!Next

LEMMA RowsAreOfTrades == StreamInv => Streaming!MinuteHasItsRow
<1> SUFFICES ASSUME StreamInv PROVE Streaming!MinuteHasItsRow
  OBVIOUS
<1> USE DEF StreamInv
<1>1. DOMAIN made = Made /\ DOMAIN socket = 1 .. Len(socket) /\ DOMAIN waiting = 1 .. Len(waiting)
  BY DEF Made, StreamTyped
<1>2. ASSUME NEW t \in Made
      PROVE  \/ Streaming!Pending(t) \/ Streaming!Queued(t)
             \/ /\ row[Streaming!MinuteOf(t)] # None
                /\ row[Streaming!MinuteOf(t)] <= t
             \/ \E why \in {"broken", "unrouted", "late", "unknown"} :
                  Streaming!LostFor(t, why)
             \/ \E u \in 1 .. t - 1 :
                  Streaming!LostFor(u, "unknown") /\ made[u] = made[t]
  BY <1>1 DEF OnItsWay, Settled, Served, Streaming!Pending, Streaming!Queued
<1>3. Cardinality({l \in lost : l.why = "unknown"}) <= 1
  <2> DEFINE failures == {l \in lost : l.why = "unknown"}
  <2>1. CASE failures = {}
    BY <2>1, FS_EmptySet
  <2>2. CASE failures # {}
    <3>1. PICK l : failures = {l}
      BY <2>2 DEF LoaderFailsOnce
    <3>2. Cardinality(failures) = 1
      BY <3>1, FS_Singleton
    <3> QED  BY <3>2
  <2> QED  BY <2>1, <2>2
<1>4. \A S : Streaming!Cardinality(S) = Cardinality(S)
  BY DEF Streaming!Cardinality, Cardinality
<1> QED  BY <1>1, <1>2, <1>3, <1>4 DEF Streaming!MinuteHasItsRow, Filled

\* Every trade of Gemini's stream reaches its minute's row, or is lost for one of
\* the reasons the code gives; the loader fails on one at most, and the day's
\* volume is that of the rows (gemini.py, consumer.py aggregate_bar_data).
THEOREM MinuteHasItsRowAlways == Streaming!Spec => []Streaming!MinuteHasItsRow
  BY RowsAreOfTrades, StreamInitially, StreamStep, PTL DEF Streaming!Spec

-----------------------------------------------------------------------------
(* The miner of companies: a list by its ranks, and the pages put together.  *)

\* The natural numbers are well ordered.
LEMMA Least ==
  ASSUME NEW S \in SUBSET Nat, S # {}
  PROVE  \E x \in S : \A y \in S : x <= y
<1>1. PICK x \in S : \A y \in S : ~(<<y, x>> \in OpToRel(<, Nat))
  BY NatLessThanWellFounded, WFMin, Zenon
<1>2. ASSUME NEW y \in S PROVE x <= y
  <2>1. ~(y < x)
    BY <1>1 DEF OpToRel
  <2> QED  BY <2>1
<1> QED  BY <1>2

\* The ticker of rank k.
HasRank(S, t, k) == t \in S /\ Cardinality({u \in S : u <= t}) = k
Ranked(S) == \A k \in 1 .. Cardinality(S) : \E t \in S : HasRank(S, t, k)

\* Of a list of n tickers each rank from 1 to n is taken.
LEMMA AllRanked ==
  ASSUME NEW n \in Nat, NEW S \in SUBSET (0 .. n)
  PROVE  IsFiniteSet(S) /\ Cardinality(S) \in Nat /\ Ranked(S)
<1> DEFINE Bad == {m \in Nat : ~\A T \in SUBSET (0 .. m - 1) :
                                 IsFiniteSet(T) /\ Cardinality(T) \in Nat /\ Ranked(T)}
<1>1. SUFFICES ASSUME Bad # {} PROVE FALSE
  <2> SUFFICES ASSUME Bad = {}
               PROVE  IsFiniteSet(S) /\ Cardinality(S) \in Nat /\ Ranked(S)
    OBVIOUS
  <2>1. n + 1 \notin Bad /\ n + 1 \in Nat
    OBVIOUS
  <2>2. 0 .. (n + 1) - 1 = 0 .. n
    OBVIOUS
  <2> QED  BY <2>1, <2>2
<1>2. PICK m \in Bad : \A j \in Bad : m <= j
  BY <1>1, Least
<1>3. PICK T \in SUBSET (0 .. m - 1) : ~(IsFiniteSet(T) /\ Cardinality(T) \in Nat /\ Ranked(T))
  OBVIOUS
<1>4. m # 0
  <2> SUFFICES ASSUME m = 0 PROVE FALSE
    OBVIOUS
  <2>1. T = {}
    OBVIOUS
  <2>2. IsFiniteSet(T) /\ Cardinality(T) = 0
    BY <2>1, FS_EmptySet
  <2> QED  BY <1>3, <2>2 DEF Ranked
<1>5. /\ m - 1 \in Nat
      /\ \A R \in SUBSET (0 .. (m - 1) - 1) :
           IsFiniteSet(R) /\ Cardinality(R) \in Nat /\ Ranked(R)
  <2>1. m \in Nat /\ \A j \in Bad : m <= j
    BY <1>2
  <2> HIDE DEF Bad
  <2>2. m - 1 \in Nat /\ m - 1 \notin Bad
    BY <1>4, <2>1
  <2> QED  BY <2>2 DEF Bad
<1>6. CASE m - 1 \notin T
  <2>1. T \in SUBSET (0 .. (m - 1) - 1)
    BY <1>6
  <2> QED  BY <1>3, <1>5, <2>1
<1>7. CASE m - 1 \in T
  <2> DEFINE R == T \ {m - 1}
  <2>1. R \in SUBSET (0 .. (m - 1) - 1)
    OBVIOUS
  <2>2. IsFiniteSet(R) /\ Cardinality(R) \in Nat /\ Ranked(R)
    BY <1>5, <2>1
  <2>3. T = R \cup {m - 1} /\ m - 1 \notin R /\ T \in SUBSET Nat
    BY <1>7
  <2> HIDE DEF R
  <2>4. IsFiniteSet(T) /\ Cardinality(T) = Cardinality(R) + 1
    BY <2>2, <2>3, FS_AddElement
  <2>5. ASSUME NEW k \in 1 .. Cardinality(T) PROVE \E t \in T : HasRank(T, t, k)
    <3>1. CASE k = Cardinality(T)
      <4>1. \A u \in T : u <= m - 1
        OBVIOUS
      <4>2. {u \in T : u <= m - 1} = T
        BY <4>1
      <4> QED  BY <1>7, <3>1, <4>2 DEF HasRank
    <3>2. CASE k # Cardinality(T)
      <4>1. k \in 1 .. Cardinality(R)
        BY <2>2, <2>4, <3>2
      <4>2. PICK t \in R : HasRank(R, t, k)
        BY <2>2, <4>1 DEF Ranked
      <4>3. t \in 0 .. (m - 1) - 1
        BY <2>1
      <4>4. {u \in T : u <= t} = {u \in R : u <= t}
        BY <2>3, <4>3
      <4> QED  BY <2>3, <4>2, <4>4 DEF HasRank
    <3> QED  BY <3>1, <3>2
  <2> QED  BY <1>3, <2>2, <2>4, <2>5 DEF Ranked
<1> QED  BY <1>6, <1>7

\* F[n] is the first n pages put together.
IsFlatten(F, seqs) ==
  F = [i \in 1 .. Len(seqs) |-> IF i = 1 THEN seqs[i] ELSE F[i - 1] \o seqs[i]]

LEMMA FlattenExists ==
  ASSUME NEW T, NEW n \in Nat \ {0}, NEW seqs \in [1 .. n -> Seq(T)]
  PROVE  \E F : IsFlatten(F, seqs)
<1>1. seqs \in Seq(Seq(T)) /\ Len(seqs) = n
  OBVIOUS
<1> DEFINE Upto(m, F) ==
             F = [i \in 1 .. m |-> IF i = 1 THEN seqs[i] ELSE F[i - 1] \o seqs[i]]
           Bad == {m \in 1 .. n : ~\E F : Upto(m, F)}
<1>2. SUFFICES ASSUME Bad # {} PROVE FALSE
  <2>1. SUFFICES ASSUME Bad = {} PROVE \E F : IsFlatten(F, seqs)
    OBVIOUS
  <2>2. PICK F : Upto(n, F)
    <3> HIDE DEF Upto
    <3>1. n \in 1 .. n
      OBVIOUS
    <3>2. n \notin Bad
      <4> HIDE DEF Bad
      <4> QED  BY <2>1
    <3> QED  BY <3>1, <3>2
  <2> HIDE DEF Bad
  <2>3. IsFlatten(F, seqs)
    BY <1>1, <2>2 DEF IsFlatten
  <2> QED  BY <2>3
<1>3. PICK m \in Bad : \A j \in Bad : m <= j
  <2>1. Bad \in SUBSET Nat
    <3>1. Bad \in SUBSET (1 .. n)
      OBVIOUS
    <3> HIDE DEF Bad
    <3> QED  BY <3>1
  <2> HIDE DEF Bad
  <2> QED  BY <1>2, <2>1, Least
<1>4. m # 1
  <2> SUFFICES ASSUME m = 1 PROVE FALSE
    OBVIOUS
  <2> DEFINE F == [i \in 1 .. 1 |-> seqs[1]]
  <2>1. F = [i \in 1 .. 1 |-> IF i = 1 THEN seqs[i] ELSE F[i - 1] \o seqs[i]]
    OBVIOUS
  <2> QED  BY <2>1
<1>5. \E F : Upto(m - 1, F)
  <2>1. m \in 1 .. n /\ \A j \in Bad : m <= j
    BY <1>3
  <2> HIDE DEF Bad
  <2>2. m - 1 \in 1 .. n /\ m - 1 \notin Bad
    BY <1>4, <2>1
  <2> QED  BY <2>2 DEF Bad
<1>6. PICK F : Upto(m - 1, F)
  BY <1>5
<1> DEFINE G == [i \in 1 .. m |-> IF i = m THEN F[m - 1] \o seqs[m] ELSE F[i]]
<1>7. ASSUME NEW i \in 1 .. m
      PROVE  G[i] = IF i = 1 THEN seqs[i] ELSE G[i - 1] \o seqs[i]
  <2>1. CASE i = m
    <3>1. i # 1 /\ i - 1 \in 1 .. m /\ i - 1 # m
      BY <1>4, <2>1
    <3> QED  BY <2>1, <3>1
  <2>2. CASE i # m
    <3>1. i \in 1 .. (m - 1)
      BY <2>2
    <3>2. F[i] = IF i = 1 THEN seqs[i] ELSE F[i - 1] \o seqs[i]
      BY <1>6, <3>1
    <3>3. i # 1 => i - 1 \in 1 .. m /\ i - 1 # m
      BY <3>1
    <3> QED  BY <2>2, <3>2, <3>3
  <2> QED  BY <2>1, <2>2
<1>8. Upto(m, G)
  <2>1. G = [i \in 1 .. m |-> G[i]]
    OBVIOUS
  <2> HIDE DEF G
  <2> QED  BY <1>7, <2>1
<1> QED  BY <1>8

\* All that is on a page is in the list put together, and nothing else.
LEMMA FlattenIsAll ==
  ASSUME NEW T, NEW n \in Nat \ {0}, NEW seqs \in [1 .. n -> Seq(T)]
  PROVE  /\ Miner!FlattenSeq(seqs) \in Seq(T)
         /\ \A p \in 1 .. n : \A j \in DOMAIN seqs[p] :
              \E i \in DOMAIN Miner!FlattenSeq(seqs) :
                Miner!FlattenSeq(seqs)[i] = seqs[p][j]
<1>1. seqs \in Seq(Seq(T)) /\ Len(seqs) = n /\ n # 0
  OBVIOUS
<1> DEFINE F == CHOOSE G : IsFlatten(G, seqs)
<1>2. IsFlatten(F, seqs)
  BY FlattenExists
<1>3. Miner!FlattenSeq(seqs) = F[n]
  BY <1>1 DEF Miner!FlattenSeq, IsFlatten
<1> HIDE DEF F
<1> DEFINE Has(m) ==
             /\ F[m] \in Seq(T)
             /\ \A p \in 1 .. m : \A j \in DOMAIN seqs[p] :
                  \E i \in DOMAIN F[m] : F[m][i] = seqs[p][j]
           Bad == {m \in 1 .. n : ~Has(m)}
<1>4. SUFFICES ASSUME Bad # {} PROVE FALSE
  <2> SUFFICES ASSUME Bad = {} PROVE Has(n)
    BY <1>3
  <2> HIDE DEF Has
  <2> QED  OBVIOUS
<1>5. PICK m \in Bad : \A k \in Bad : m <= k
  <2>1. Bad \in SUBSET (1 .. n)
    OBVIOUS
  <2> HIDE DEF Bad
  <2>2. Bad \in SUBSET Nat
    BY <2>1
  <2> QED  BY <1>4, <2>2, Least
<1>6. F[m] = IF m = 1 THEN seqs[m] ELSE F[m - 1] \o seqs[m]
  BY <1>1, <1>2 DEF IsFlatten
<1>7. seqs[m] \in Seq(T)
  OBVIOUS
<1>8. m # 1
  BY <1>6, <1>7
<1>10. m - 1 \in 1 .. n /\ Has(m - 1)
  <2>1. m \in 1 .. n /\ \A k \in Bad : m <= k
    BY <1>5
  <2> HIDE DEF Bad
  <2>2. m - 1 \in 1 .. n /\ m - 1 \notin Bad
    BY <1>8, <2>1
  <2> QED  BY <2>2 DEF Bad
<1>11. F[m] = F[m - 1] \o seqs[m] /\ F[m - 1] \in Seq(T)
  BY <1>6, <1>8, <1>10
<1>12. /\ F[m] \in Seq(T)
       /\ \A i \in DOMAIN F[m - 1] : i \in DOMAIN F[m] /\ F[m][i] = F[m - 1][i]
       /\ \A i \in DOMAIN seqs[m] :
            /\ Len(F[m - 1]) + i \in DOMAIN F[m]
            /\ F[m][Len(F[m - 1]) + i] = seqs[m][i]
  <2> DEFINE a == F[m - 1]
             b == seqs[m]
  <2>1. a \in Seq(T) /\ b \in Seq(T) /\ F[m] = a \o b
    BY <1>7, <1>11
  <2> HIDE DEF a, b
  <2>2. /\ a \o b \in Seq(T) /\ Len(a \o b) = Len(a) + Len(b)
        /\ \A i \in 1 .. Len(a) + Len(b) :
             (a \o b)[i] = IF i <= Len(a) THEN a[i] ELSE b[i - Len(a)]
    BY <2>1, ConcatProperties
  <2>3. /\ Len(a) \in Nat /\ DOMAIN a = 1 .. Len(a)
        /\ Len(b) \in Nat /\ DOMAIN b = 1 .. Len(b)
        /\ DOMAIN (a \o b) = 1 .. Len(a) + Len(b)
    BY <2>1, <2>2
  <2>4. \A i \in DOMAIN a : i \in DOMAIN (a \o b) /\ (a \o b)[i] = a[i]
    BY <2>2, <2>3
  <2>5. \A i \in DOMAIN b :
          /\ Len(a) + i \in 1 .. Len(a) + Len(b) /\ ~(Len(a) + i <= Len(a))
          /\ (Len(a) + i) - Len(a) = i
    BY <2>3
  <2>6. \A i \in DOMAIN b :
          Len(a) + i \in DOMAIN (a \o b) /\ (a \o b)[Len(a) + i] = b[i]
    BY <2>2, <2>3, <2>5
  <2> QED  BY <2>1, <2>2, <2>4, <2>6 DEF a, b
<1>13. ASSUME NEW p \in 1 .. m, NEW j \in DOMAIN seqs[p]
       PROVE  \E i \in DOMAIN F[m] : F[m][i] = seqs[p][j]
  <2>1. CASE p = m
    <3>1. j \in DOMAIN seqs[m]
      BY <2>1
    <3>2. /\ Len(F[m - 1]) + j \in DOMAIN F[m]
          /\ F[m][Len(F[m - 1]) + j] = seqs[p][j]
      BY <1>12, <2>1, <3>1
    <3> QED  BY <3>2
  <2>2. CASE p # m
    <3>1. p \in 1 .. (m - 1)
      BY <2>2
    <3> QED  BY <1>10, <1>12, <3>1
  <2> QED  BY <2>1, <2>2
<1>14. Has(m)
  BY <1>12, <1>13
<1> QED  BY <1>14

LEMMA MinerNumbers ==
  /\ MaxTicker \in Nat /\ PerPage \in Nat \ {0} /\ MaxChanges \in Nat /\ MaxRuns \in Nat
  /\ Miner!Tickers = 1 .. MaxTicker /\ None \notin Sectors
  BY MinerAssumption DEF Miner!ConstantsAssumption, Miner!Tickers

\* The list has each rank once, a ticker at each.
LEMMA ListIsListing ==
  ASSUME listing \subseteq Miner!Tickers
  PROVE  /\ Miner!Listed \in [1 .. Miner!Cardinality(listing) -> listing]
         /\ Miner!Listed \in Seq(Miner!Tickers)
         /\ Len(Miner!Listed) \in Nat /\ Len(Miner!Listed) = Miner!Cardinality(listing)
         /\ DOMAIN Miner!Listed = 1 .. Len(Miner!Listed)
<1> DEFINE n == Miner!Cardinality(listing)
           Rank(t, k) == Miner!Cardinality({u \in listing : u <= t}) = k
<1>1. \A S : Miner!Cardinality(S) = Cardinality(S)
  BY DEF Miner!Cardinality, Cardinality
<1>2. Cardinality(listing) \in Nat /\ Ranked(listing)
  <2>1. MaxTicker \in Nat /\ listing \in SUBSET (0 .. MaxTicker)
    BY MinerNumbers DEF Miner!Tickers
  <2> QED  BY <2>1, AllRanked
<1>3. n \in Nat /\ \A k \in 1 .. n : \E t \in listing : Rank(t, k)
  <2>1. n = Cardinality(listing)
    BY <1>1
  <2>2. \A t, k : Rank(t, k) <=> Cardinality({u \in listing : u <= t}) = k
    BY <1>1
  <2> HIDE DEF n, Rank
  <2> QED  BY <1>2, <2>1, <2>2 DEF Ranked, HasRank
<1>4. Miner!Listed = [k \in 1 .. n |-> CHOOSE t \in listing : Rank(t, k)]
  BY DEF Miner!Listed
<1> HIDE DEF Rank, n
<1>5. Miner!Listed \in [1 .. n -> listing]
  BY <1>3, <1>4
<1>6. n = Miner!Cardinality(listing)
  BY DEF n
<1>7. Miner!Listed \in [1 .. n -> Miner!Tickers]
  BY <1>5
<1> HIDE DEF Miner!Listed
<1>8. Miner!Listed \in Seq(Miner!Tickers) /\ Len(Miner!Listed) = n
  BY <1>3, <1>7
<1> QED  BY <1>3, <1>5, <1>6, <1>8

\* A page is a part of the list; one of the pages asked for is full.
LEMMA PageOfList ==
  ASSUME listing \subseteq Miner!Tickers, NEW p \in Nat \ {0}
  PROVE  /\ Miner!Page(p) \in Seq(Miner!Tickers)
         /\ p <= Len(Miner!Listed) \div PerPage =>
              \A j \in 1 .. PerPage :
                /\ j \in DOMAIN Miner!Page(p)
                /\ Miner!Page(p)[j] = Miner!Listed[(p - 1) * PerPage + j]
<1> DEFINE s == Miner!Listed
           len == Len(s)
           from == (p - 1) * PerPage
           to == Miner!Smaller(p * PerPage, len)
<1>1. s \in Seq(Miner!Tickers) /\ len \in Nat /\ DOMAIN s = 1 .. len
  BY ListIsListing
<1>2. PerPage \in Nat \ {0}
  BY MinerNumbers
<1>3. from \in Nat /\ p * PerPage \in Nat /\ p * PerPage = from + PerPage
  BY <1>2
<1>4. to \in Nat /\ to <= len /\ (p * PerPage <= len => to = p * PerPage)
  BY <1>1, <1>3 DEF Miner!Smaller
<1>5. Miner!Page(p) = SubSeq(s, from + 1, to)
  BY DEF Miner!Page
<1>6. p <= len \div PerPage => p * PerPage <= len
  <2> SUFFICES ASSUME p <= len \div PerPage PROVE p * PerPage <= len
    OBVIOUS
  <2> DEFINE q == len \div PerPage
  <2>1. q \in Int /\ PerPage * q <= len
    BY <1>1, <1>2, Quotient
  <2>2. p <= q
    OBVIOUS
  <2> HIDE DEF q
  <2>3. PerPage * p <= PerPage * q /\ PerPage * p = p * PerPage
    BY <1>2, <2>1, <2>2
  <2> QED  BY <1>1, <1>2, <2>1, <2>3
<1> HIDE DEF s, from, to, len
<1>7. \A i \in from + 1 .. to : s[i] \in Miner!Tickers
  <2>1. \A i \in from + 1 .. to : i \in 1 .. len
    BY <1>1, <1>3, <1>4
  <2>2. s \in [1 .. len -> Miner!Tickers]
    BY <1>1 DEF len
  <2> QED  BY <2>1, <2>2
<1>8. /\ SubSeq(s, from + 1, to) \in Seq(Miner!Tickers)
      /\ \A j \in 1 .. to - from : /\ j \in DOMAIN SubSeq(s, from + 1, to)
                                   /\ SubSeq(s, from + 1, to)[j] = s[from + j]
  <2>1. /\ SubSeq(s, from + 1, to) \in Seq(Miner!Tickers)
        /\ Len(SubSeq(s, from + 1, to)) =
             IF from + 1 <= to THEN to - (from + 1) + 1 ELSE 0
        /\ \A i \in 1 .. to - (from + 1) + 1 :
             SubSeq(s, from + 1, to)[i] = s[(from + 1) + i - 1]
    <3>1. from + 1 \in Int /\ to \in Int
      BY <1>3, <1>4
    <3> QED  BY <1>7, <3>1, SubSeqProperties
  <2>2. \A j \in 1 .. to - from :
          /\ from + 1 <= to
          /\ j \in 1 .. to - (from + 1) + 1 /\ (from + 1) + j - 1 = from + j
    BY <1>3, <1>4
  <2> QED  BY <2>1, <2>2
<1>9. Miner!Page(p) \in Seq(Miner!Tickers)
  BY <1>5, <1>8
<1>10. ASSUME p <= len \div PerPage, NEW j \in 1 .. PerPage
       PROVE  /\ j \in DOMAIN Miner!Page(p)
              /\ Miner!Page(p)[j] = s[from + j]
  <2>1. to - from = PerPage
    BY <1>2, <1>3, <1>4, <1>6, <1>10
  <2> QED  BY <1>5, <1>8, <2>1
<1> QED  BY <1>9, <1>10 DEF s, len, from

\* Of a run whose list stays as it was counted: the pages are the list's, as
\* many as there are full ones.
PagesOfList ==
  phase = "pages" /\ steady =>
    /\ DOMAIN fetched = 1 .. Len(Miner!Listed) \div PerPage
    /\ \A p \in DOMAIN fetched : fetched[p] # None => fetched[p] = Miner!Page(p)

\* Put together they have each ticker of a full page.
AllTaken ==
  phase \in {"details", "saving", "done"} /\ steady =>
    \A k \in DOMAIN Miner!Listed :
      Miner!OnFullPage(k) => \E i \in DOMAIN tickers : tickers[i] = Miner!Listed[k]

\* Where the details of a listed ticker are: to come, unknown, to be saved, saved.
Detailed(i) ==
  \/ phase = "details" /\ i \in asked
  \/ tickers[i] \in unknown
  \/ phase # "done" /\ i \in info
  \/ phase # "details" /\ ticker_data[tickers[i]] = sector[tickers[i]]
AllDetailed ==
  phase \in {"details", "saving", "done"} /\ steady =>
    \A i \in DOMAIN tickers : tickers[i] \in listing => Detailed(i)

MinerInv == Miner!TypeOK /\ PagesOfList /\ AllTaken /\ AllDetailed

LEMMA MinerInitially == Miner!Init => MinerInv
<1> SUFFICES ASSUME Miner!Init PROVE MinerInv
  OBVIOUS
<1>1. Miner!TypeOK
  <2>1. ticker_data \in [Miner!Tickers -> Sectors \cup {None}]
    BY DEF Miner!Init
  <2>2. relisted \in 0 .. MaxChanges /\ runs \in 0 .. MaxRuns
    BY MinerNumbers DEF Miner!Init
  <2>3. fetched \in Seq({None} \cup Seq(Miner!Tickers)) /\ tickers \in Seq(Miner!Tickers)
    BY DEF Miner!Init
  <2>4. asked \subseteq DOMAIN tickers /\ info \subseteq DOMAIN tickers
    BY DEF Miner!Init
  <2> QED  BY <2>1, <2>2, <2>3, <2>4 DEF Miner!Init, Miner!TypeOK
<1> QED
  BY <1>1 DEF Miner!Init, MinerInv, PagesOfList, AllTaken, AllDetailed

LEMMA GetCountStep ==
  ASSUME MinerInv, Miner!GetCount
  PROVE  MinerInv'
<1> USE DEF MinerInv, Miner!GetCount, Miner!provider
<1>1. listing \subseteq Miner!Tickers
  BY DEF Miner!TypeOK
<1> DEFINE n == Len(Miner!Listed) \div PerPage
<1>2. n \in Nat /\ fetched' = [p \in 1 .. n |-> None]
  <2>1. Len(Miner!Listed) \in Nat /\ Len(Miner!Listed) = Miner!Cardinality(listing)
    BY <1>1, ListIsListing
  <2>2. n \in Nat
    BY <2>1, MinerNumbers, Quotient
  <2> QED  BY <2>1, <2>2 DEF Miner!Pages
<1>3. Miner!Listed' = Miner!Listed
  BY DEF Miner!Listed
<1> HIDE DEF n
<1>4. Miner!TypeOK'
  <2>1. fetched' \in Seq({None} \cup Seq(Miner!Tickers))
    BY <1>2
  <2>2. runs' \in 0 .. MaxRuns
    BY MinerNumbers DEF Miner!TypeOK
  <2> QED  BY <2>1, <2>2 DEF Miner!TypeOK
<1>5. PagesOfList'
  BY <1>2, <1>3 DEF PagesOfList, n
<1> QED  BY <1>4, <1>5 DEF AllTaken, AllDetailed

LEMMA FetchStep ==
  ASSUME MinerInv, NEW p \in DOMAIN fetched, Miner!Fetch(p)
  PROVE  MinerInv'
<1> USE DEF MinerInv, Miner!Fetch, Miner!provider
<1>1. listing \subseteq Miner!Tickers /\ p \in Nat \ {0}
  BY DEF Miner!TypeOK
<1>2. Miner!Page(p) \in Seq(Miner!Tickers)
  BY <1>1, PageOfList
<1>3. Miner!Listed' = Miner!Listed
  BY DEF Miner!Listed
<1>4. \A q : Miner!Page(q)' = Miner!Page(q)
  BY <1>3 DEF Miner!Page
<1>5. DOMAIN fetched' = DOMAIN fetched
  OBVIOUS
<1>6. Miner!TypeOK'
  <2>1. fetched' \in Seq({None} \cup Seq(Miner!Tickers))
    BY <1>2 DEF Miner!TypeOK
  <2> QED  BY <2>1 DEF Miner!TypeOK
<1>7. PagesOfList'
  <2>1. ASSUME steady, NEW q \in DOMAIN fetched, fetched'[q] # None
        PROVE  fetched'[q] = Miner!Page(q)
    BY <2>1 DEF PagesOfList
  <2> QED  BY <1>3, <1>4, <1>5, <2>1 DEF PagesOfList
<1> QED  BY <1>6, <1>7 DEF AllTaken, AllDetailed

\* The ticker at place k of the list is on page (k - 1) \div PerPage + 1.
LEMMA PlaceOnPage ==
  ASSUME NEW k \in Nat \ {0}, NEW p \in Int, NEW len \in Nat,
         p = (k - 1) \div PerPage, p < len \div PerPage
  PROVE  /\ p + 1 \in 1 .. len \div PerPage
         /\ \E j \in 1 .. PerPage : k = ((p + 1) - 1) * PerPage + j
<1>1. PerPage \in Nat \ {0}
  BY MinerNumbers
<1>2. PerPage * p <= k - 1 /\ k - 1 < PerPage * p + PerPage
  BY <1>1, Quotient
<1>3. len \div PerPage \in Int
  BY <1>1, Quotient
<1>4. p >= 0
  <2> SUFFICES ASSUME p <= -1 PROVE FALSE
    OBVIOUS
  <2>1. PerPage * p <= PerPage * (-1)
    BY <1>1
  <2> QED  BY <1>1, <1>2, <2>1
<1>5. PerPage * p = ((p + 1) - 1) * PerPage /\ PerPage * p \in Nat
  BY <1>1, <1>4
<1>6. k - PerPage * p \in 1 .. PerPage /\ k = PerPage * p + (k - PerPage * p)
  BY <1>1, <1>2, <1>5
<1> QED  BY <1>3, <1>4, <1>5, <1>6

LEMMA PagesGatheredStep ==
  ASSUME MinerInv, Miner!PagesGathered
  PROVE  MinerInv'
<1> USE DEF MinerInv, Miner!PagesGathered, Miner!provider
<1>1. listing \subseteq Miner!Tickers
  BY DEF Miner!TypeOK
<1>2. Miner!Listed' = Miner!Listed
  BY DEF Miner!Listed
<1>3. /\ fetched \in [1 .. Len(fetched) -> Seq(Miner!Tickers)]
      /\ Len(fetched) \in Nat /\ DOMAIN fetched = 1 .. Len(fetched)
  BY DEF Miner!TypeOK
<1>4. /\ tickers' \in Seq(Miner!Tickers)
      /\ \A p \in DOMAIN fetched : \A j \in DOMAIN fetched[p] :
           \E i \in DOMAIN tickers' : tickers'[i] = fetched[p][j]
  <2>1. CASE Len(fetched) = 0
    BY <1>3, <2>1 DEF Miner!FlattenSeq
  <2>2. CASE Len(fetched) # 0
    <3>1. Len(fetched) \in Nat \ {0}
      BY <1>3, <2>2
    <3> QED  BY <1>3, <3>1, FlattenIsAll
  <2> QED  BY <2>1, <2>2
<1>5. Miner!TypeOK'
  BY <1>4 DEF Miner!TypeOK
<1>6. AllTaken'
  <2> SUFFICES ASSUME steady, NEW k \in DOMAIN Miner!Listed, Miner!OnFullPage(k)
               PROVE  \E i \in DOMAIN tickers' : tickers'[i] = Miner!Listed[k]
    BY <1>2 DEF AllTaken, Miner!OnFullPage
  <2> DEFINE len == Len(Miner!Listed)
             p == (k - 1) \div PerPage
  <2>1. len \in Nat /\ DOMAIN Miner!Listed = 1 .. len
    BY <1>1, ListIsListing
  <2>2. k \in Nat \ {0} /\ p \in Int /\ p < len \div PerPage
    <3>1. k \in Nat \ {0}
      BY <2>1
    <3>2. p \in Int
      BY <3>1, MinerNumbers, Quotient
    <3> QED  BY <3>1, <3>2 DEF Miner!OnFullPage
  <2>3. /\ p + 1 \in 1 .. len \div PerPage
        /\ \E j \in 1 .. PerPage : k = ((p + 1) - 1) * PerPage + j
    <3> HIDE DEF len
    <3> QED  BY <2>1, <2>2, PlaceOnPage
  <2>4. DOMAIN fetched = 1 .. len \div PerPage
    BY DEF PagesOfList
  <2> HIDE DEF p
  <2>5. fetched[p + 1] = Miner!Page(p + 1)
    BY <2>3, <2>4 DEF PagesOfList
  <2>6. PICK j \in 1 .. PerPage : k = ((p + 1) - 1) * PerPage + j
    BY <2>3
  <2>7. p + 1 \in Nat \ {0} /\ p + 1 <= len \div PerPage
    BY <2>2, <2>3
  <2>8. j \in DOMAIN fetched[p + 1] /\ fetched[p + 1][j] = Miner!Listed[k]
    BY <1>1, <2>5, <2>6, <2>7, PageOfList
  <2> QED  BY <1>4, <2>3, <2>4, <2>8
<1>7. AllDetailed'
  BY DEF AllDetailed, Detailed
<1> QED  BY <1>5, <1>6, <1>7 DEF PagesOfList

LEMMA DetailsStep ==
  ASSUME MinerInv,
         \/ \E i \in DOMAIN tickers : Miner!FetchDetails(i)
         \/ Miner!DetailsGathered
  PROVE  MinerInv'
<1> USE DEF MinerInv, Miner!provider
<1>1. Miner!Listed' = Miner!Listed /\ listing' = listing /\ tickers' = tickers
  BY DEF Miner!Listed, Miner!FetchDetails, Miner!DetailsGathered
<1>2. \A k : Miner!OnFullPage(k)' <=> Miner!OnFullPage(k)
  BY <1>1 DEF Miner!OnFullPage
<1>3. CASE \E i \in DOMAIN tickers : Miner!FetchDetails(i)
  <2>1. PICK i \in DOMAIN tickers : Miner!FetchDetails(i)
    BY <1>3
  <2> USE DEF Miner!FetchDetails
  <2>2. PICK found \in BOOLEAN :
          /\ info' = IF found /\ tickers[i] \in listing THEN info \cup {i} ELSE info
          /\ unknown' = IF found THEN unknown ELSE unknown \cup {tickers[i]}
    BY <2>1
  <2>3. tickers[i] \in Miner!Tickers
    BY DEF Miner!TypeOK
  <2>4. Miner!TypeOK'
    BY <2>1, <2>2, <2>3 DEF Miner!TypeOK
  <2>5. AllDetailed'
    BY <2>1, <2>2 DEF AllDetailed, Detailed
  <2>6. AllTaken'
    BY <1>1, <1>2, <2>1 DEF AllTaken
  <2> QED  BY <2>1, <2>4, <2>5, <2>6 DEF PagesOfList
<1>4. CASE Miner!DetailsGathered
  <2> USE <1>4 DEF Miner!DetailsGathered
  <2>1. AllTaken'
    BY <1>1, <1>2 DEF AllTaken
  <2> QED  BY <2>1 DEF Miner!TypeOK, PagesOfList, AllDetailed, Detailed
<1> QED  BY <1>3, <1>4

LEMMA SaveStep ==
  ASSUME MinerInv,
         \/ \E i \in DOMAIN tickers : Miner!Save(i)
         \/ Miner!SavesGathered
  PROVE  MinerInv'
<1> USE DEF MinerInv, Miner!provider
<1>1. Miner!Listed' = Miner!Listed /\ listing' = listing /\ tickers' = tickers
  <2>1. listing' = listing /\ tickers' = tickers
    BY DEF Miner!Save, Miner!SavesGathered
  <2> QED  BY <2>1 DEF Miner!Listed
<1>2. \A k : Miner!OnFullPage(k)' <=> Miner!OnFullPage(k)
  BY <1>1 DEF Miner!OnFullPage
<1>3. CASE \E i \in DOMAIN tickers : Miner!Save(i)
  <2>1. PICK i \in DOMAIN tickers : Miner!Save(i)
    BY <1>3
  <2> USE <2>1 DEF Miner!Save
  <2>2. tickers \in Seq(Miner!Tickers) /\ tickers[i] \in Miner!Tickers
    BY DEF Miner!TypeOK
  <2>3. Miner!TypeOK'
    BY <2>2 DEF Miner!TypeOK
  <2>4. AllDetailed'
    <3> SUFFICES ASSUME steady, NEW j \in DOMAIN tickers, tickers[j] \in listing
                 PROVE  Detailed(j)'
      BY <1>1 DEF AllDetailed
    <3>1. Detailed(j)
      BY DEF AllDetailed
    <3>2. tickers[j] \in Miner!Tickers
      BY <2>2
    <3>3. ticker_data'[tickers[j]] =
            IF tickers[j] = tickers[i] THEN sector[tickers[i]] ELSE ticker_data[tickers[j]]
      BY <2>2, <3>2 DEF Miner!TypeOK
    <3> QED  BY <3>1, <3>3 DEF Detailed
  <2>5. AllTaken'
    BY <1>1, <1>2 DEF AllTaken
  <2> QED  BY <2>3, <2>4, <2>5 DEF PagesOfList
<1>4. CASE Miner!SavesGathered
  <2> USE <1>4 DEF Miner!SavesGathered
  <2>1. AllTaken'
    BY <1>1, <1>2 DEF AllTaken
  <2> QED  BY <2>1 DEF Miner!TypeOK, PagesOfList, AllDetailed, Detailed
<1> QED  BY <1>3, <1>4

LEMMA MinerStep == MinerInv /\ [Miner!Next]_(Miner!vars) => MinerInv'
<1> SUFFICES ASSUME MinerInv, [Miner!Next]_(Miner!vars) PROVE MinerInv'
  OBVIOUS
<1>1. CASE \E t \in Miner!Tickers : Miner!Relist(t)
  <2>1. PICK t \in Miner!Tickers : Miner!Relist(t)
    BY <1>1
  <2>2. relisted' \in 0 .. MaxChanges
    BY <2>1, MinerNumbers DEF MinerInv, Miner!TypeOK, Miner!Relist
  <2> QED
    BY <2>1, <2>2
    DEF MinerInv, Miner!TypeOK, Miner!Relist, PagesOfList, AllTaken, AllDetailed
<1>2. CASE Miner!Fail
  BY <1>2
  DEF MinerInv, Miner!TypeOK, Miner!Fail, Miner!provider, PagesOfList, AllTaken, AllDetailed
<1>3. CASE UNCHANGED Miner!vars
  <2>1. Miner!Listed' = Miner!Listed
    BY <1>3 DEF Miner!vars, Miner!provider, Miner!Listed
  <2>2. \A k : /\ Miner!OnFullPage(k)' <=> Miner!OnFullPage(k)
               /\ Miner!Page(k)' = Miner!Page(k)
    BY <2>1 DEF Miner!OnFullPage, Miner!Page
  <2> QED
    BY <1>3, <2>1, <2>2
    DEF MinerInv, Miner!TypeOK, Miner!vars, Miner!provider, PagesOfList, AllTaken,
        AllDetailed, Detailed
<1> QED
  BY <1>1, <1>2, <1>3, GetCountStep, FetchStep, PagesGatheredStep, DetailsStep, SaveStep
  DEF Miner!Next

\* After a run of the miner during which the list did not change, each company of
\* a full page with details is in the table, and found by its sector.
THEOREM MinedIsFoundAlways == Miner!Spec => []MinedIsFound
<1>1. MinerInv => MinedIsFound
  <2> SUFFICES ASSUME MinerInv, phase = "done", steady, NEW k \in DOMAIN Miner!Listed,
                      Miner!OnFullPage(k), Miner!Listed[k] \notin unknown
               PROVE  Miner!Found(Miner!Listed[k])
    BY DEF MinedIsFound, Miner!MinedIsFound
  <2> DEFINE t == Miner!Listed[k]
  <2>1. listing \subseteq Miner!Tickers
    BY DEF MinerInv, Miner!TypeOK
  <2>2. t \in listing
    BY <2>1, ListIsListing
  <2>3. PICK i \in DOMAIN tickers : tickers[i] = t
    BY DEF MinerInv, AllTaken
  <2>4. ticker_data[t] = sector[t]
    BY <2>2, <2>3 DEF MinerInv, AllDetailed, Detailed
  <2> HIDE DEF t
  <2>5. t \in Miner!Tickers /\ sector[t] \in Sectors /\ sector[t] # None
    BY <2>1, <2>2, MinerNumbers DEF MinerInv, Miner!TypeOK
  <2>6. t \in Miner!Rows
    BY <2>4, <2>5 DEF Miner!Rows
  <2>7. sector[t] # "" => t \in Miner!SectorsTickers(Miner!MarketSectors)
    <3> SUFFICES ASSUME sector[t] # ""
                 PROVE  t \in Miner!SectorsTickers(Miner!MarketSectors)
      OBVIOUS
    <3>1. ticker_data[t] \in Miner!MarketSectors
      BY <2>4, <2>6 DEF Miner!MarketSectors
    <3>2. t \in Miner!SectorTickers(ticker_data[t])
      BY <2>6 DEF Miner!SectorTickers
    <3> QED  BY <3>1, <3>2 DEF Miner!SectorsTickers
  <2> QED  BY <2>4, <2>7 DEF Miner!Found, t
<1> QED  BY <1>1, MinerInitially, MinerStep, PTL DEF Miner!Spec
-----------------------------------------------------------------------------
(* The search for the last trading day, back through the pages.              *)

LEMMA PagesAre ==
  /\ Len(Lengths) \in Nat /\ Len(Lengths) >= 1 /\ Calendar!Months = 1 .. Len(Lengths)
  /\ \A m \in Calendar!Months : Lengths[m] \in Nat /\ Lengths[m] >= 1
  /\ None \notin Calendar!Dates /\ Refused \notin Calendar!Dates /\ None # Refused
  BY CalendarAssumption DEF Calendar!ConstantsAssumption, Calendar!Months

LEMMA DatesAre ==
  /\ \A d \in Calendar!Dates :
       /\ d.month \in Calendar!Months /\ d.day \in 1 .. Lengths[d.month]
       /\ d = [month |-> d.month, day |-> d.day]
  /\ \A m \in Calendar!Months : \A i \in 1 .. Lengths[m] :
       [month |-> m, day |-> i] \in Calendar!Dates
  BY DEF Calendar!Dates

At(m, i) == [month |-> m, index |-> i]
DateOf(m, i) == [month |-> m, day |-> i]

\* The days the search for the day before the index of a page looks at.
LookedAt(m, i) ==
  {d \in open : \/ d.month = m /\ d.day <= i
                \/ d.month < m /\ d.day < Lengths[d.month]}
IsNewest(r, S) ==
  IF S = {} THEN r = Refused ELSE r \in S /\ \A e \in S : ~Calendar!Before(r, e)

LEMMA SearchSteps ==
  ASSUME open \subseteq Calendar!Dates, NEW m \in Calendar!Months, NEW i \in Nat
  PROVE  /\ i > 0 /\ DateOf(m, i) \in open => IsNewest(DateOf(m, i), LookedAt(m, i))
         /\ i > 0 /\ DateOf(m, i) \notin open => LookedAt(m, i) = LookedAt(m, i - 1)
         /\ i = 0 /\ m = 1 => LookedAt(m, i) = {}
         /\ i = 0 /\ m # 1 => LookedAt(m, i) = LookedAt(m - 1, Lengths[m - 1] - 1)
<1>1. ASSUME NEW d \in open
      PROVE  /\ d.month \in Nat /\ d.month >= 1 /\ d.day \in Nat /\ d.day >= 1
             /\ d.month \in Calendar!Months /\ d.day <= Lengths[d.month]
             /\ Lengths[d.month] \in Nat /\ d = DateOf(d.month, d.day)
  BY PagesAre, DatesAre DEF DateOf
<1>2. m \in Nat /\ m >= 1
  BY PagesAre
<1>3. ASSUME i > 0, DateOf(m, i) \in open PROVE IsNewest(DateOf(m, i), LookedAt(m, i))
  <2>1. DateOf(m, i).month = m /\ DateOf(m, i).day = i
    BY DEF DateOf
  <2>2. DateOf(m, i) \in LookedAt(m, i)
    BY <1>3, <2>1 DEF LookedAt
  <2>3. ASSUME NEW e \in LookedAt(m, i) PROVE ~Calendar!Before(DateOf(m, i), e)
    <3>1. e \in open /\ ((e.month = m /\ e.day <= i) \/ e.month < m)
      BY DEF LookedAt
    <3>2. e.month \in Nat /\ e.day \in Nat
      BY <1>1, <3>1
    <3> QED  BY <1>2, <2>1, <3>1, <3>2 DEF Calendar!Before
  <2> QED  BY <2>2, <2>3 DEF IsNewest
<1>4. ASSUME i > 0, DateOf(m, i) \notin open PROVE LookedAt(m, i) = LookedAt(m, i - 1)
  <2>1. ASSUME NEW d \in open, d.month = m PROVE d.day <= i <=> d.day <= i - 1
    <3>1. d.day # i
      BY <1>1, <1>4, <2>1
    <3> QED  BY <1>1, <3>1
  <2> QED  BY <2>1 DEF LookedAt
<1>5. ASSUME i = 0, m = 1 PROVE LookedAt(m, i) = {}
  <2>1. ASSUME NEW d \in open PROVE ~(d.month = m /\ d.day <= i) /\ ~(d.month < m)
    BY <1>1, <1>5
  <2> QED  BY <2>1 DEF LookedAt
<1>6. ASSUME i = 0, m # 1 PROVE LookedAt(m, i) = LookedAt(m - 1, Lengths[m - 1] - 1)
  <2>1. ASSUME NEW d \in open
        PROVE  (\/ d.month = m /\ d.day <= i
                \/ d.month < m /\ d.day < Lengths[d.month])
               <=>
               (\/ d.month = m - 1 /\ d.day <= Lengths[m - 1] - 1
                \/ d.month < m - 1 /\ d.day < Lengths[d.month])
    <3>1. ~(d.month = m /\ d.day <= i)
      BY <1>1, <1>6
    <3>2. d.month < m <=> d.month = m - 1 \/ d.month < m - 1
      BY <1>1, <1>2
    <3>3. d.month = m - 1 => (d.day < Lengths[d.month] <=> d.day <= Lengths[m - 1] - 1)
      BY <1>1
    <3> QED  BY <3>1, <3>2, <3>3
  <2> QED  BY <2>1 DEF LookedAt
<1> QED  BY <1>3, <1>4, <1>5, <1>6

\* What the search never leaves to a day before is nothing.
LEMMA SearchEnds ==
  ASSUME NEW Bad \in SUBSET [month : Calendar!Months, index : Nat],
         \A m \in Calendar!Months, i \in Nat :
           At(m, i) \in Bad =>
             \/ i > 0 /\ At(m, i - 1) \in Bad
             \/ i = 0 /\ m # 1 /\ At(m - 1, Lengths[m - 1] - 1) \in Bad
  PROVE  Bad = {}
<1> SUFFICES ASSUME Bad # {} PROVE FALSE
  OBVIOUS
<1> DEFINE pages == {b.month : b \in Bad}
<1>1. pages \in SUBSET Nat /\ pages # {}
  BY PagesAre
<1>2. PICK m \in pages : \A n \in pages : m <= n
  BY <1>1, Least
<1>3. m \in Calendar!Months /\ m \in Nat
  BY PagesAre
<1> DEFINE days == {b.index : b \in {c \in Bad : c.month = m}}
<1>4. days \in SUBSET Nat /\ days # {}
  OBVIOUS
<1> HIDE DEF pages
<1>5. PICK i \in days : \A j \in days : i <= j
  BY <1>4, Least
<1>6. i \in Nat /\ At(m, i) \in Bad
  BY DEF At
<1>7. ASSUME i > 0, At(m, i - 1) \in Bad PROVE FALSE
  <2>1. At(m, i - 1).month = m /\ At(m, i - 1).index = i - 1
    BY DEF At
  <2>2. i - 1 \in days
    BY <1>7, <2>1
  <2> HIDE DEF days
  <2> QED  BY <1>5, <1>6, <2>2
<1>8. ASSUME m # 1, At(m - 1, Lengths[m - 1] - 1) \in Bad PROVE FALSE
  <2>1. At(m - 1, Lengths[m - 1] - 1).month = m - 1
    BY DEF At
  <2>2. m - 1 \in pages
    BY <1>8, <2>1 DEF pages
  <2> QED  BY <1>2, <1>3, <2>2
<1> HIDE DEF days
<1> QED  BY <1>3, <1>6, <1>7, <1>8

\* From each index of a page the search has a newest day, or is refused.
LEMMA SearchHasResult ==
  ASSUME open \subseteq Calendar!Dates, NEW m \in Calendar!Months, NEW i \in Nat
  PROVE  \E r : IsNewest(r, LookedAt(m, i))
<1> DEFINE Bad == {b \in [month : Calendar!Months, index : Nat] :
                     ~\E r : IsNewest(r, LookedAt(b.month, b.index))}
<1>1. ASSUME NEW n \in Calendar!Months, NEW j \in Nat
      PROVE  /\ At(n, j) \in [month : Calendar!Months, index : Nat]
             /\ At(n, j).month = n /\ At(n, j).index = j
  BY DEF At
<1>2. ASSUME NEW n \in Calendar!Months, NEW j \in Nat
      PROVE  At(n, j) \in Bad <=> ~\E r : IsNewest(r, LookedAt(n, j))
  BY <1>1
<1>3. Bad \in SUBSET [month : Calendar!Months, index : Nat]
  OBVIOUS
<1> HIDE DEF Bad
<1>4. ASSUME NEW n \in Calendar!Months, NEW j \in Nat, At(n, j) \in Bad
      PROVE  \/ j > 0 /\ At(n, j - 1) \in Bad
             \/ j = 0 /\ n # 1 /\ At(n - 1, Lengths[n - 1] - 1) \in Bad
  <2>1. ~\E r : IsNewest(r, LookedAt(n, j))
    BY <1>2, <1>4
  <2>2. CASE j > 0
    <3>1. j - 1 \in Nat
      BY <2>2
    <3>2. DateOf(n, j) \notin open
      BY <2>1, <2>2, SearchSteps
    <3>3. LookedAt(n, j) = LookedAt(n, j - 1)
      BY <2>2, <3>2, SearchSteps
    <3> QED  BY <1>2, <2>1, <2>2, <3>1, <3>3
  <2>3. CASE j = 0
    <3>1. n # 1
      <4>1. n = 1 => IsNewest(Refused, LookedAt(n, j))
        BY <2>3, SearchSteps DEF IsNewest
      <4> QED  BY <2>1, <4>1
    <3>2. n - 1 \in Calendar!Months /\ Lengths[n - 1] - 1 \in Nat
      BY <3>1, PagesAre
    <3>3. LookedAt(n, j) = LookedAt(n - 1, Lengths[n - 1] - 1)
      BY <2>3, <3>1, SearchSteps
    <3> QED  BY <1>2, <2>1, <2>3, <3>1, <3>2, <3>3
  <2> QED  BY <2>2, <2>3
<1>5. Bad = {}
  BY <1>3, <1>4, SearchEnds
<1> QED  BY <1>2, <1>5

\* There is one newest day.
LEMMA OneNewest ==
  ASSUME NEW S \in SUBSET Calendar!Dates, NEW r, NEW q, IsNewest(r, S), IsNewest(q, S)
  PROVE  r = q
<1> SUFFICES ASSUME S # {} PROVE r = q
  BY DEF IsNewest
<1>1. r \in S /\ q \in S /\ ~Calendar!Before(r, q) /\ ~Calendar!Before(q, r)
  BY DEF IsNewest
<1>2. /\ r.month \in Nat /\ r.day \in Nat /\ r = [month |-> r.month, day |-> r.day]
      /\ q.month \in Nat /\ q.day \in Nat /\ q = [month |-> q.month, day |-> q.day]
  BY <1>1, PagesAre, DatesAre
<1>3. r.month = q.month /\ r.day = q.day
  BY <1>1, <1>2 DEF Calendar!Before
<1> QED  BY <1>2, <1>3

\* What PreviousLastTrading is defined by.
Searches(f) ==
  f = [at \in [month : Calendar!Months, index : Nat] |->
         IF at.index > 0
         THEN IF Calendar!Closed(DateOf(at.month, at.index))
              THEN f[At(at.month, at.index - 1)]
              ELSE DateOf(at.month, at.index)
         ELSE IF at.month = 1 THEN Refused
              ELSE f[At(at.month - 1, Lengths[at.month - 1] - 1)]]

LEMMA SearchExists ==
  ASSUME open \subseteq Calendar!Dates
  PROVE  \E f : Searches(f)
<1> DEFINE Result(m, i) == CHOOSE r : IsNewest(r, LookedAt(m, i))
           f == [at \in [month : Calendar!Months, index : Nat] |->
                   Result(at.month, at.index)]
<1>1. ASSUME NEW m \in Calendar!Months, NEW i \in Nat
      PROVE  IsNewest(Result(m, i), LookedAt(m, i))
  BY SearchHasResult
<1>2. ASSUME NEW m \in Calendar!Months, NEW i \in Nat, NEW r, IsNewest(r, LookedAt(m, i))
      PROVE  Result(m, i) = r
  <2>1. LookedAt(m, i) \in SUBSET Calendar!Dates
    BY DEF LookedAt
  <2> HIDE DEF Result
  <2> QED  BY <1>1, <1>2, <2>1, OneNewest
<1>3. ASSUME NEW m \in Calendar!Months, NEW i \in Nat, NEW n \in Calendar!Months, NEW j \in Nat,
             LookedAt(m, i) = LookedAt(n, j)
      PROVE  Result(m, i) = Result(n, j)
  BY <1>3
<1> HIDE DEF Result
<1>4. ASSUME NEW m \in Calendar!Months, NEW i \in Nat
      PROVE  f[At(m, i)] = Result(m, i)
  BY DEF At
<1>5. ASSUME NEW at \in [month : Calendar!Months, index : Nat]
      PROVE  f[at] =
               IF at.index > 0
               THEN IF Calendar!Closed(DateOf(at.month, at.index))
                    THEN f[At(at.month, at.index - 1)]
                    ELSE DateOf(at.month, at.index)
               ELSE IF at.month = 1 THEN Refused
                    ELSE f[At(at.month - 1, Lengths[at.month - 1] - 1)]
  <2> DEFINE m == at.month
             i == at.index
  <2>1. m \in Calendar!Months /\ i \in Nat /\ f[at] = Result(m, i)
    OBVIOUS
  <2> HIDE DEF f, m, i
  <2>2. CASE i > 0
    <3>1. i - 1 \in Nat
      BY <2>1, <2>2
    <3>2. CASE DateOf(m, i) \in open
      <4>1. Result(m, i) = DateOf(m, i)
        BY <1>2, <2>1, <2>2, <3>2, SearchSteps
      <4> QED  BY <2>1, <2>2, <3>2, <4>1 DEF Calendar!Closed, m, i
    <3>3. CASE DateOf(m, i) \notin open
      <4>1. Result(m, i) = Result(m, i - 1)
        BY <1>3, <2>1, <2>2, <3>1, <3>3, SearchSteps
      <4>2. f[At(m, i - 1)] = Result(m, i - 1)
        BY <1>4, <2>1, <3>1
      <4> QED  BY <2>1, <2>2, <3>3, <4>1, <4>2 DEF Calendar!Closed, m, i
    <3> QED  BY <3>2, <3>3
  <2>3. CASE i = 0
    <3>1. CASE m = 1
      <4>1. IsNewest(Refused, LookedAt(m, i))
        BY <2>1, <2>3, <3>1, SearchSteps DEF IsNewest
      <4>2. Result(m, i) = Refused
        BY <1>2, <2>1, <4>1
      <4> QED  BY <2>1, <2>3, <3>1, <4>2 DEF m, i
    <3>2. CASE m # 1
      <4>1. m - 1 \in Calendar!Months /\ Lengths[m - 1] - 1 \in Nat
        BY <2>1, <3>2, PagesAre
      <4>2. Result(m, i) = Result(m - 1, Lengths[m - 1] - 1)
        BY <1>3, <2>1, <2>3, <3>2, <4>1, SearchSteps
      <4>3. f[At(m - 1, Lengths[m - 1] - 1)] = Result(m - 1, Lengths[m - 1] - 1)
        BY <1>4, <4>1
      <4> QED  BY <2>1, <2>3, <3>2, <4>2, <4>3 DEF m, i
    <3> QED  BY <3>1, <3>2
  <2> QED  BY <2>1, <2>2, <2>3
<1>6. f = [at \in [month : Calendar!Months, index : Nat] |-> f[at]]
  OBVIOUS
<1> HIDE DEF f
<1>7. Searches(f)
  BY <1>5, <1>6 DEF Searches
<1> QED  BY <1>7

\* PreviousLastTrading is the newest day it looks at.
LEMMA SearchIsNewest ==
  ASSUME open \subseteq Calendar!Dates, NEW m \in Calendar!Months, NEW i \in Nat
  PROVE  IsNewest(Calendar!PreviousLastTrading[At(m, i)], LookedAt(m, i))
<1> DEFINE f == Calendar!PreviousLastTrading
<1>1. f = CHOOSE g : Searches(g)
  BY DEF Calendar!PreviousLastTrading, Searches, At, DateOf
<1>2. Searches(f)
  <2> HIDE DEF f
  <2> QED  BY <1>1, SearchExists
<1> HIDE DEF f
<1> DEFINE Bad == {b \in [month : Calendar!Months, index : Nat] :
                     ~IsNewest(f[b], LookedAt(b.month, b.index))}
<1>3. ASSUME NEW n \in Calendar!Months, NEW j \in Nat
      PROVE  /\ At(n, j) \in [month : Calendar!Months, index : Nat]
             /\ At(n, j).month = n /\ At(n, j).index = j
  BY DEF At
<1>4. ASSUME NEW n \in Calendar!Months, NEW j \in Nat
      PROVE  At(n, j) \in Bad <=> ~IsNewest(f[At(n, j)], LookedAt(n, j))
  BY <1>3
<1>5. Bad \in SUBSET [month : Calendar!Months, index : Nat]
  OBVIOUS
<1>6. ASSUME NEW n \in Calendar!Months, NEW j \in Nat
      PROVE  f[At(n, j)] =
               IF j > 0
               THEN IF Calendar!Closed(DateOf(n, j))
                    THEN f[At(n, j - 1)]
                    ELSE DateOf(n, j)
               ELSE IF n = 1 THEN Refused
                    ELSE f[At(n - 1, Lengths[n - 1] - 1)]
  <2> DEFINE at == At(n, j)
  <2>1. f[at] = IF at.index > 0
                THEN IF Calendar!Closed(DateOf(at.month, at.index))
                     THEN f[At(at.month, at.index - 1)]
                     ELSE DateOf(at.month, at.index)
                ELSE IF at.month = 1 THEN Refused
                     ELSE f[At(at.month - 1, Lengths[at.month - 1] - 1)]
    <3>1. at \in [month : Calendar!Months, index : Nat]
      BY <1>3
    <3> HIDE DEF at
    <3> QED  BY <1>2, <3>1 DEF Searches
  <2>2. at.month = n /\ at.index = j
    BY <1>3
  <2> HIDE DEF at
  <2> QED  BY <2>1, <2>2 DEF at
<1> HIDE DEF Bad
<1>7. ASSUME NEW n \in Calendar!Months, NEW j \in Nat, At(n, j) \in Bad
      PROVE  \/ j > 0 /\ At(n, j - 1) \in Bad
             \/ j = 0 /\ n # 1 /\ At(n - 1, Lengths[n - 1] - 1) \in Bad
  <2>1. ~IsNewest(f[At(n, j)], LookedAt(n, j))
    BY <1>4, <1>7
  <2>2. CASE j > 0
    <3>1. j - 1 \in Nat
      BY <2>2
    <3>2. DateOf(n, j) \notin open
      BY <1>6, <2>1, <2>2, SearchSteps DEF Calendar!Closed
    <3>3. LookedAt(n, j) = LookedAt(n, j - 1) /\ f[At(n, j)] = f[At(n, j - 1)]
      BY <1>6, <2>2, <3>2, SearchSteps DEF Calendar!Closed
    <3> QED  BY <1>4, <2>1, <2>2, <3>1, <3>3
  <2>3. CASE j = 0
    <3>1. n # 1
      <4>1. n = 1 => IsNewest(f[At(n, j)], LookedAt(n, j))
        BY <1>6, <2>3, SearchSteps DEF IsNewest
      <4> QED  BY <2>1, <4>1
    <3>2. n - 1 \in Calendar!Months /\ Lengths[n - 1] - 1 \in Nat
      BY <3>1, PagesAre
    <3>3. /\ LookedAt(n, j) = LookedAt(n - 1, Lengths[n - 1] - 1)
          /\ f[At(n, j)] = f[At(n - 1, Lengths[n - 1] - 1)]
      BY <1>6, <2>3, <3>1, SearchSteps
    <3> QED  BY <1>4, <2>1, <2>3, <3>1, <3>2, <3>3
  <2> QED  BY <2>2, <2>3
<1>8. Bad = {}
  BY <1>5, <1>7, SearchEnds
<1> QED  BY <1>4, <1>8 DEF f

-----------------------------------------------------------------------------
(* The walk through the pages of a range.                                    *)

NextVisit(d) == IF d = Refused THEN Refused ELSE Calendar!NextMonth(d)

\* f is the walk from a date to a month.
WalksTo(f, start, month) ==
  f = [m \in start.month .. month |->
         IF m = start.month THEN start ELSE NextVisit(f[m - 1])]

LEMMA WalkExists ==
  ASSUME NEW start \in Calendar!Dates
  PROVE  \E f : WalksTo(f, start, Len(Lengths))
<1> DEFINE first == start.month
           n == Len(Lengths)
           Bad == {m \in first .. n : ~\E f : WalksTo(f, start, m)}
<1>1. first \in Nat /\ n \in Nat /\ first <= n
  BY PagesAre, DatesAre
<1> SUFFICES ASSUME Bad # {} PROVE FALSE
  BY <1>1
<1>2. Bad \in SUBSET Nat
  <2>1. Bad \in SUBSET (first .. n)
    OBVIOUS
  <2> HIDE DEF Bad, first, n
  <2> QED  BY <1>1, <2>1
<1>3. PICK m \in Bad : \A j \in Bad : m <= j
  BY <1>2, Least
<1>4. m \in first .. n /\ m \in Nat
  BY <1>2
<1>5. m # first
  <2> SUFFICES ASSUME m = first PROVE FALSE
    OBVIOUS
  <2> DEFINE f == [k \in first .. m |-> start]
  <2>1. first .. m = {first}
    BY <1>1
  <2>2. f = [k \in first .. m |-> IF k = first THEN start ELSE NextVisit(f[k - 1])]
    BY <2>1
  <2>3. WalksTo(f, start, m)
    BY <2>2 DEF WalksTo
  <2> QED  BY <2>3
<1>6. \E f : WalksTo(f, start, m - 1)
  <2> HIDE DEF Bad, first, n
  <2>1. m - 1 \in first .. n /\ m - 1 \notin Bad
    BY <1>1, <1>2, <1>3, <1>4, <1>5
  <2> QED  BY <2>1 DEF Bad
<1>7. PICK f : WalksTo(f, start, m - 1)
  BY <1>6
<1> DEFINE g == [k \in first .. m |-> IF k = m THEN NextVisit(f[m - 1]) ELSE f[k]]
<1> HIDE DEF Bad
<1>8. ASSUME NEW k \in first .. m
      PROVE  g[k] = IF k = first THEN start ELSE NextVisit(g[k - 1])
  <2>1. CASE k = m
    <3>1. k # first /\ k - 1 \in first .. m /\ k - 1 # m
      BY <1>1, <1>4, <1>5, <2>1
    <3> QED  BY <2>1, <3>1
  <2>2. CASE k # m
    <3>1. k \in first .. (m - 1)
      BY <1>1, <1>4, <2>2
    <3>2. f[k] = IF k = first THEN start ELSE NextVisit(f[k - 1])
      BY <1>7, <3>1 DEF WalksTo
    <3>3. k # first => k - 1 \in first .. m /\ k - 1 # m
      BY <1>1, <1>4, <3>1
    <3> QED  BY <2>2, <3>2, <3>3
  <2> QED  BY <2>1, <2>2
<1>9. WalksTo(g, start, m)
  <2>1. g = [k \in first .. m |-> g[k]]
    OBVIOUS
  <2> HIDE DEF g
  <2> QED  BY <1>8, <2>1 DEF WalksTo
<1> QED  BY <1>9 DEF Bad

\* The date visited in a month, or the month that is too short for it.
LEMMA VisitedIs ==
  ASSUME NEW start \in Calendar!Dates, NEW month \in start.month .. Len(Lengths)
  PROVE  LET d == Calendar!Visited(start)[month]
         IN IF d = Refused
            THEN \E m \in start.month .. month : Lengths[m] + 1 < start.day
            ELSE d \in Calendar!Dates /\ d.month = month /\ d.day <= start.day
<1> DEFINE f == Calendar!Visited(start)
           first == start.month
           n == Len(Lengths)
           Good(m) ==
             IF f[m] = Refused
             THEN \E k \in first .. m : Lengths[k] + 1 < start.day
             ELSE f[m] \in Calendar!Dates /\ f[m].month = m /\ f[m].day <= start.day
           Bad == {m \in first .. n : ~Good(m)}
<1>1. /\ first \in Nat /\ n \in Nat /\ first >= 1 /\ first <= n
      /\ start.day \in Nat /\ start # Refused
      /\ \A k \in first .. n : k \in Calendar!Months /\ Lengths[k] \in Nat
  BY PagesAre, DatesAre
<1>2. WalksTo(f, start, n)
  <2>1. f = CHOOSE g : WalksTo(g, start, n)
    BY DEF Calendar!Visited, WalksTo, NextVisit
  <2> HIDE DEF f
  <2> QED  BY <2>1, WalkExists
<1> HIDE DEF f
<1>3. ASSUME NEW m \in first .. n
      PROVE  f[m] = IF m = first THEN start ELSE NextVisit(f[m - 1])
  BY <1>2 DEF WalksTo
<1> SUFFICES ASSUME Bad # {} PROVE FALSE
  BY DEF f
<1>4. Bad \in SUBSET (first .. n)
  OBVIOUS
<1> HIDE DEF Bad, first, n
<1>5. Bad \in SUBSET Nat
  BY <1>1, <1>4
<1>6. PICK m \in Bad : \A j \in Bad : m <= j
  BY <1>5, Least
<1>7. m \in first .. n /\ m \in Nat
  BY <1>4, <1>5
<1>8. m # first
  <2> SUFFICES ASSUME m = first PROVE FALSE
    OBVIOUS
  <2>1. f[m] = start /\ f[m] # Refused
    BY <1>1, <1>3, <1>7
  <2>2. Good(m)
    BY <1>1, <2>1 DEF first
  <2> QED  BY <2>2 DEF Bad
<1>9. m - 1 \in first .. n /\ m - 1 \notin Bad
  BY <1>1, <1>5, <1>6, <1>7, <1>8
<1>10. Good(m - 1)
  BY <1>9 DEF Bad
<1>11. f[m] = NextVisit(f[m - 1])
  BY <1>3, <1>7, <1>8
<1>12. CASE f[m - 1] = Refused
  <2>1. f[m] = Refused
    BY <1>11, <1>12 DEF NextVisit
  <2>2. PICK k \in first .. (m - 1) : Lengths[k] + 1 < start.day
    BY <1>10, <1>12
  <2>3. k \in first .. m
    BY <1>1, <1>7
  <2>4. Good(m)
    BY <2>1, <2>2, <2>3
  <2> QED  BY <2>4 DEF Bad
<1>13. CASE f[m - 1] # Refused
  <2> DEFINE d == f[m - 1]
             e == f[m]
  <2>1. d \in Calendar!Dates /\ d.month = m - 1 /\ d.day <= start.day /\ d.day \in 1 .. Lengths[m - 1]
    BY <1>10, <1>13, DatesAre
  <2>2. /\ e = Calendar!NextMonth(d) /\ m \in Calendar!Months /\ d.month + 1 = m
        /\ Lengths[m] \in Nat /\ Lengths[m] >= 1 /\ d.day \in Nat /\ d.day >= 1
    BY <1>1, <1>7, <1>11, <1>13, <2>1, PagesAre DEF NextVisit
  <2> HIDE DEF d, e, Good
  <2>3. CASE d.day <= Lengths[m] + 1
    <3> DEFINE day == IF d.day <= Lengths[m] THEN d.day ELSE d.day - 1
    <3>1. e = [month |-> m, day |-> day]
      BY <2>2, <2>3 DEF Calendar!NextMonth
    <3>2. day \in 1 .. Lengths[m] /\ day <= start.day
      BY <1>1, <2>1, <2>2, <2>3
    <3> HIDE DEF day
    <3>3. e \in Calendar!Dates /\ e.month = m /\ e.day <= start.day
      BY <2>2, <3>1, <3>2, DatesAre
    <3>4. e # Refused
      BY <3>3, PagesAre
    <3>5. Good(m)
      BY <3>3, <3>4 DEF Good, e
    <3> QED  BY <3>5 DEF Bad
  <2>4. CASE ~(d.day <= Lengths[m] + 1)
    <3>1. e = Refused
      BY <2>2, <2>4 DEF Calendar!NextMonth
    <3>2. Lengths[m] + 1 < start.day /\ m \in first .. m
      BY <1>1, <1>7, <2>1, <2>2, <2>4
    <3>3. Good(m)
      BY <3>1, <3>2 DEF Good, e
    <3> QED  BY <3>3 DEF Bad
  <2> QED  BY <2>3, <2>4
<1> QED  BY <1>12, <1>13

LEMMA RangeIsWholeHolds ==
  ASSUME Calendar!TypeOK
  PROVE  Calendar!RangeIsWhole
<1> SUFFICES ASSUME NEW end \in Calendar!Dates, ~Calendar!Before(end, today)
             PROVE  IF Calendar!Visited(today)[end.month] = Refused
                    THEN \E m \in today.month .. end.month : Lengths[m] + 1 < today.day
                    ELSE Calendar!TradingDaysOf(today, end) =
                           {d \in open : ~Calendar!Before(d, today) /\ ~Calendar!Before(end, d)}
  BY DEF Calendar!RangeIsWhole
<1>1. today \in Calendar!Dates /\ open \subseteq Calendar!Dates
  BY DEF Calendar!TypeOK
<1>2. \A d \in Calendar!Dates : d.month \in Nat /\ d.day \in Nat /\ d.month <= Len(Lengths)
  BY PagesAre, DatesAre
<1>3. end.month \in today.month .. Len(Lengths)
  BY <1>1, <1>2 DEF Calendar!Before
<1>4. CASE Calendar!Visited(today)[end.month] = Refused
  BY <1>1, <1>3, <1>4, VisitedIs
<1>5. CASE Calendar!Visited(today)[end.month] # Refused
  <2>1. ASSUME NEW d \in open, ~Calendar!Before(d, today), ~Calendar!Before(end, d)
        PROVE  d.month \in today.month .. end.month
    BY <1>1, <1>2, <2>1 DEF Calendar!Before
  <2>2. Calendar!TradingDaysOf(today, end) =
          UNION {{d \in Calendar!OnPage(m) :
                    ~Calendar!Before(d, today) /\ ~Calendar!Before(end, d)} :
                   m \in today.month .. end.month}
    BY <1>5 DEF Calendar!TradingDaysOf
  <2> HIDE DEF Calendar!TradingDaysOf
  <2> QED  BY <1>5, <2>1, <2>2 DEF Calendar!OnPage
<1> QED  BY <1>4, <1>5

CalendarInv == Calendar!TypeOK /\ Calendar!LastTradingIsPrevious

LEMMA CalendarStep == CalendarInv /\ [Calendar!Next]_(Calendar!vars) => CalendarInv'
<1> SUFFICES ASSUME CalendarInv, [Calendar!Next]_(Calendar!vars) PROVE CalendarInv'
  OBVIOUS
<1> USE DEF CalendarInv, Calendar!TypeOK
<1>1. CASE Calendar!Midnight
  <2>1. today' \in Calendar!Dates
    <3>1. /\ today.month \in Calendar!Months /\ today.day \in 1 .. Lengths[today.month]
          /\ today = [month |-> today.month, day |-> today.day]
      BY DatesAre
    <3>2. CASE today.day < Lengths[today.month]
      <4>1. today' = [month |-> today.month, day |-> today.day + 1]
        BY <1>1, <3>1, <3>2 DEF Calendar!Midnight
      <4>2. today.day + 1 \in 1 .. Lengths[today.month]
        BY <3>1, <3>2, PagesAre
      <4> QED  BY <3>1, <4>1, <4>2, DatesAre
    <3>3. CASE ~(today.day < Lengths[today.month])
      <4>1. today' = [month |-> today.month + 1, day |-> 1]
        BY <1>1, <3>3 DEF Calendar!Midnight
      <4>2. today.day = Lengths[today.month]
        BY <3>1, <3>3, PagesAre
      <4>3. today.month # Len(Lengths)
        BY <1>1, <3>1, <4>2 DEF Calendar!Midnight
      <4>4. today.month + 1 \in Calendar!Months
        BY <3>1, <4>3, PagesAre
      <4>5. 1 \in 1 .. Lengths[today.month + 1]
        BY <4>4, PagesAre
      <4> QED  BY <4>1, <4>4, <4>5, DatesAre
    <3> QED  BY <3>2, <3>3
  <2> QED  BY <1>1, <2>1 DEF Calendar!Midnight, Calendar!LastTradingIsPrevious
<1>2. CASE Calendar!GetLastTrading
  <2>1. today' = today /\ open' = open
    BY <1>2 DEF Calendar!GetLastTrading
  <2>2. CASE today \in open
    <3>1. last' = today
      BY <1>2, <2>2 DEF Calendar!GetLastTrading
    <3> QED  BY <2>1, <2>2, <3>1 DEF Calendar!LastTradingIsPrevious
  <2>3. CASE today \notin open
    <3> DEFINE m == today.month
               i == today.day - 1
               past == LookedAt(m, i)
    <3>1. m \in Calendar!Months /\ i \in Nat
      BY DatesAre, PagesAre
    <3>2. last' = Calendar!PreviousLastTrading[At(m, i)]
      BY <1>2, <2>3 DEF Calendar!GetLastTrading, At
    <3>3. IsNewest(last', past)
      <4> HIDE DEF m, i
      <4> QED  BY <3>1, <3>2, SearchIsNewest
    <3>4. past = {d \in open : Calendar!Before(d, today) /\
                     (d.month = today.month \/ d.day < Lengths[d.month])}
      <4>1. ASSUME NEW d \in open
            PROVE  (\/ d.month = m /\ d.day <= i
                    \/ d.month < m /\ d.day < Lengths[d.month])
                   <=> /\ Calendar!Before(d, today)
                       /\ d.month = m \/ d.day < Lengths[d.month]
        <5>1. d.month \in Nat /\ d.day \in Nat /\ m \in Nat /\ today.day \in Nat
          BY PagesAre, DatesAre
        <5> QED  BY <5>1 DEF Calendar!Before
      <4> QED  BY <4>1 DEF LookedAt
    <3> HIDE DEF past
    <3>5. last' \in Calendar!Dates \cup {Refused}
      BY <3>3, <3>4 DEF IsNewest
    <3>6. Calendar!LastTradingIsPrevious'
      BY <2>1, <2>3, <3>3, <3>4 DEF Calendar!LastTradingIsPrevious, IsNewest
    <3> QED  BY <2>1, <3>5, <3>6
  <2> QED  BY <2>2, <2>3
<1>3. CASE UNCHANGED Calendar!vars
  BY <1>3 DEF Calendar!vars, Calendar!LastTradingIsPrevious
<1> QED  BY <1>1, <1>2, <1>3 DEF Calendar!Next

\* Whatever the months and the trading days, the search returns the newest trading
\* day it looks at, and a range's walk all of its trading days, unless a month of it
\* is two days too short for the day it begins with.
THEOREM CalendarAnswersAlways == Calendar!Spec => []CalendarAnswers
<1>1. Calendar!Init => CalendarInv
  <2> SUFFICES ASSUME Calendar!Init PROVE CalendarInv
    OBVIOUS
  <2>1. 1 \in Calendar!Months /\ 1 \in 1 .. Lengths[1]
    BY PagesAre
  <2>2. today \in Calendar!Dates
    BY <2>1, DatesAre DEF Calendar!Init
  <2> QED
    BY <2>2 DEF CalendarInv, Calendar!Init, Calendar!TypeOK, Calendar!LastTradingIsPrevious
<1>2. CalendarInv => CalendarAnswers
  BY RangeIsWholeHolds DEF CalendarInv, CalendarAnswers
<1> QED  BY <1>1, <1>2, CalendarStep, PTL DEF Calendar!Spec
-----------------------------------------------------------------------------
(* The history Gemini answers.                                               *)

\* What was answered is a part of the trades, from the first one on that is not
\* before the request's time; if it was not cut off, what it does not have was
\* made later.
Slice(i, begin) ==
  /\ begin \in Nat \ {0} /\ begin + Len(answer[i]) <= Len(trades) + 1
  /\ \A k \in 1 .. Len(answer[i]) : answer[i][k] = trades[begin + k - 1]
  /\ \A k \in 1 .. Len(answer[i]) : answer[i][k] >= Gemini!From(i)
  /\ \A k \in 1 .. begin - 1 : trades[k] < Gemini!From(i)
  /\ \/ Gemini!Full(i)
     \/ \A k \in begin + Len(answer[i]) .. Len(trades) : trades[k] >= askedAt[i]

\* What is returned, of these answers.
Together(ans) ==
  Gemini!FoldLeft(LAMBDA b, ticks : Gemini!Merged(b, Gemini!Bars(ticks)), <<>>, ans)

\* The trades are in order, the answers are parts of them, and the bars are of
\* the answers.
GeminiInv ==
  /\ clock \in Nat /\ trades \in Seq(Nat)
  /\ \A j, k \in 1 .. Len(trades) : j <= k => trades[j] <= trades[k]
  /\ \A k \in 1 .. Len(trades) : trades[k] <= clock
  /\ askedAt \in [Gemini!Requests -> Nat] /\ \A i \in Gemini!Requests : askedAt[i] <= clock
  /\ answer \in [Gemini!Requests -> {None} \cup Seq(Nat)]
  /\ \A i \in Gemini!Requests :
       answer[i] # None => \E begin \in 1 .. Len(trades) + 1 : Slice(i, begin)
  /\ returned # None =>
       /\ \A i \in Gemini!Requests : answer[i] # None
       /\ returned = Together(answer)
Increasing(s) == \A j, k \in DOMAIN s : j < k => s[j] < s[k]

\* Numbers in order are all of them, each once.
LEMMA InOrderIs ==
  ASSUME NEW n \in Nat, NEW S \in SUBSET (0 .. n), NEW s, s = Gemini!InOrder(S)
  PROVE  /\ s \in Seq(S) /\ DOMAIN s = 1 .. Len(s) /\ Len(s) \in Nat
         /\ \A k \in 1 .. Len(s) : s[k] \in S
         /\ Increasing(s)
         /\ \A x \in S : \E k \in 1 .. Len(s) : s[k] = x
<1> DEFINE c == Cardinality(S)
           Upto(x) == {u \in S : u <= x}
<1>1. \A T : Gemini!Cardinality(T) = Cardinality(T)
  BY DEF Gemini!Cardinality, Cardinality
<1>2. IsFiniteSet(S) /\ c \in Nat /\ Ranked(S)
  BY AllRanked
<1>3. \A x \in S : x \in Int
  OBVIOUS
<1>4. \A x \in S : /\ IsFiniteSet(Upto(x)) /\ Cardinality(Upto(x)) \in 1 .. c
  <2> SUFFICES ASSUME NEW x \in S
               PROVE  IsFiniteSet(Upto(x)) /\ Cardinality(Upto(x)) \in 1 .. c
    OBVIOUS
  <2>1. Upto(x) \in SUBSET S /\ x \in Upto(x)
    BY <1>3
  <2> HIDE DEF Upto
  <2>2. IsFiniteSet(Upto(x)) /\ Cardinality(Upto(x)) <= c
    BY <1>2, <2>1, FS_Subset
  <2>3. Cardinality(Upto(x)) \in Nat /\ Cardinality(Upto(x)) # 0
    BY <2>1, <2>2, FS_CardinalityType, FS_EmptySet
  <2> QED  BY <1>2, <2>2, <2>3
<1>5. \A k \in 1 .. c : \E x \in S : Cardinality(Upto(x)) = k
  BY <1>2 DEF Ranked, HasRank
<1> DEFINE Rank(x, k) == Gemini!Cardinality({y \in S : y <= x}) = k
           g == Gemini!Cardinality(S)
<1>6. /\ g = c /\ \A x, k : Rank(x, k) <=> Cardinality(Upto(x)) = k
      /\ s = [k \in 1 .. g |-> CHOOSE x \in S : Rank(x, k)]
  BY <1>1 DEF Gemini!InOrder
<1>7. \A x, y \in S : x <= y => Upto(x) \in SUBSET Upto(y)
  <2> SUFFICES ASSUME NEW x \in S, NEW y \in S, x <= y, NEW u \in S, u <= x
               PROVE  u <= y
    OBVIOUS
  <2>1. x \in Int /\ y \in Int /\ u \in Int
    BY <1>3
  <2> QED  BY <2>1
<1>8. \A x, y \in S : x < y => y \notin Upto(x) /\ y \in Upto(y)
  BY <1>3
<1> HIDE DEF Upto, Rank, g
<1>9. \A k \in 1 .. c : s[k] \in S /\ Cardinality(Upto(s[k])) = k
  BY <1>5, <1>6
<1>10. s \in [1 .. c -> S]
  BY <1>6, <1>9
<1>11. s \in Seq(S) /\ Len(s) = c /\ DOMAIN s = 1 .. c
  BY <1>2, <1>10
<1>12. ASSUME NEW j \in 1 .. c, NEW k \in 1 .. c, j < k PROVE s[j] < s[k]
  <2> SUFFICES ASSUME s[k] <= s[j] PROVE FALSE
    <3>1. s[j] \in Int /\ s[k] \in Int
      BY <1>3, <1>9
    <3> QED  BY <3>1
  <2>1. Upto(s[k]) \in SUBSET Upto(s[j])
    BY <1>7, <1>9
  <2>2. Cardinality(Upto(s[k])) <= Cardinality(Upto(s[j]))
    BY <1>4, <1>9, <2>1, FS_Subset
  <2> QED  BY <1>2, <1>9, <1>12, <2>2
<1>13. ASSUME NEW x \in S PROVE \E k \in 1 .. c : s[k] = x
  <2> DEFINE k == Cardinality(Upto(x))
  <2>1. k \in 1 .. c
    BY <1>4
  <2>2. s[k] \in S /\ Cardinality(Upto(s[k])) = k
    BY <1>9, <2>1
  <2>3. ASSUME NEW y \in S, NEW z \in S, y < z PROVE Cardinality(Upto(y)) # Cardinality(Upto(z))
    <3>1. Upto(y) \in SUBSET Upto(z) /\ Upto(y) # Upto(z)
      BY <1>3, <1>7, <1>8, <2>3
    <3> QED  BY <1>4, <3>1, FS_Subset
  <2>4. ~(s[k] < x) /\ ~(x < s[k])
    BY <2>2, <2>3
  <2>5. s[k] = x
    <3>1. s[k] \in Int /\ x \in Int
      BY <1>3, <2>2
    <3> HIDE DEF k
    <3> QED  BY <2>4, <3>1
  <2> QED  BY <2>1, <2>5
<1> QED  BY <1>2, <1>9, <1>11, <1>12, <1>13 DEF Increasing

LEMMA GeminiMinutes ==
  /\ \A t \in Nat : Gemini!Minute(t) \in Nat
  /\ \A t, u \in Nat : t <= u => Gemini!Minute(t) <= Gemini!Minute(u)
<1>1. PerMinute \in Nat \ {0}
  BY GeminiAssumption DEF Gemini!ConstantsAssumption
<1>2. \A t, u \in Nat : t <= u => t \div PerMinute <= u \div PerMinute
  BY <1>1, QuotientGrows
<1>3. ASSUME NEW t \in Nat PROVE t \div PerMinute \in Nat
  <2>1. 0 \div PerMinute = 0 /\ t \div PerMinute \in Int
    BY <1>1, Quotient
  <2> QED  BY <1>2, <2>1
<1> QED  BY <1>2, <1>3 DEF Gemini!Minute

Bar == [minute : Nat, volume : Nat]
Sorted(bars) == \A j, k \in 1 .. Len(bars) : j < k => bars[j].minute < bars[k].minute
HasMinute(ticks, m) == \E k \in 1 .. Len(ticks) : Gemini!Minute(ticks[k]) = m
HasBar(bars, m) == \E k \in 1 .. Len(bars) : bars[k].minute = m

\* The volume of a minute is a number.
LEMMA VolumeIs ==
  ASSUME NEW ticks \in Seq(Nat), NEW m
  PROVE  Gemini!Volume(ticks, m) \in Nat
<1> DEFINE S == {k \in DOMAIN ticks : Gemini!Minute(ticks[k]) = m}
<1>1. Gemini!Volume(ticks, m) = Cardinality(S)
  BY DEF Gemini!Volume, Gemini!Cardinality, Cardinality
<1>2. S \in SUBSET (1 .. Len(ticks)) /\ IsFiniteSet(1 .. Len(ticks))
  BY FS_Interval
<1> HIDE DEF S
<1> QED  BY <1>1, <1>2, FS_Subset, FS_CardinalityType

\* An answer's bars are of its minutes, in order, each with the minute's volume.
LEMMA BarsAre ==
  ASSUME NEW ticks \in Seq(Nat), NEW n \in Nat, \A k \in 1 .. Len(ticks) : ticks[k] <= n,
         NEW b, b = Gemini!Bars(ticks)
  PROVE  /\ b \in Seq(Bar) /\ Sorted(b)
         /\ \A k \in 1 .. Len(b) : /\ HasMinute(ticks, b[k].minute)
                                   /\ b[k].volume = Gemini!Volume(ticks, b[k].minute)
         /\ \A m : HasMinute(ticks, m) => HasBar(b, m)
<1> DEFINE S == {Gemini!Minute(ticks[k]) : k \in DOMAIN ticks}
           s == Gemini!InOrder(S)
<1>1. DOMAIN ticks = 1 .. Len(ticks) /\ \A k \in 1 .. Len(ticks) : ticks[k] \in Nat
  OBVIOUS
<1>2. Gemini!Minute(n) \in Nat /\ S \in SUBSET (0 .. Gemini!Minute(n))
  <2>1. \A k \in 1 .. Len(ticks) : /\ Gemini!Minute(ticks[k]) \in Nat
                                   /\ Gemini!Minute(ticks[k]) <= Gemini!Minute(n)
    BY <1>1, GeminiMinutes
  <2>2. Gemini!Minute(n) \in Nat
    BY GeminiMinutes
  <2> QED  BY <1>1, <2>1, <2>2
<1>3. \A m : HasMinute(ticks, m) <=> m \in S
  BY <1>1 DEF HasMinute
<1>4. b = [k \in DOMAIN s |-> [minute |-> s[k], volume |-> Gemini!Volume(ticks, s[k])]]
  BY DEF Gemini!Bars
<1>5. \A m : Gemini!Volume(ticks, m) \in Nat
  BY VolumeIs
<1> HIDE DEF S
<1>6. /\ s \in Seq(S) /\ DOMAIN s = 1 .. Len(s) /\ Len(s) \in Nat
      /\ \A k \in 1 .. Len(s) : s[k] \in S
      /\ Increasing(s)
      /\ \A x \in S : \E k \in 1 .. Len(s) : s[k] = x
  <2>1. \A m \in Nat : S \in SUBSET (0 .. m) => 
          \A t : t = Gemini!InOrder(S) =>
            /\ t \in Seq(S) /\ DOMAIN t = 1 .. Len(t) /\ Len(t) \in Nat
            /\ \A k \in 1 .. Len(t) : t[k] \in S
            /\ Increasing(t)
            /\ \A x \in S : \E k \in 1 .. Len(t) : t[k] = x
    BY InOrderIs
  <2> QED  BY <1>2, <2>1
<1> HIDE DEF s
<1>7. \A k \in 1 .. Len(s) : /\ b[k] = [minute |-> s[k], volume |-> Gemini!Volume(ticks, s[k])]
                             /\ b[k].minute = s[k] /\ b[k].volume = Gemini!Volume(ticks, s[k])
                             /\ b[k] \in Bar
  <2> SUFFICES ASSUME NEW k \in 1 .. Len(s)
               PROVE  /\ b[k] = [minute |-> s[k], volume |-> Gemini!Volume(ticks, s[k])]
                      /\ b[k].minute = s[k] /\ b[k].volume = Gemini!Volume(ticks, s[k])
                      /\ b[k] \in Bar
    OBVIOUS
  <2>1. s[k] \in Nat
    <3>1. \A x \in S : x \in Nat
      BY <1>2
    <3> QED  BY <1>6, <3>1
  <2> QED  BY <1>4, <1>5, <1>6, <2>1 DEF Bar
<1>8. b \in [1 .. Len(s) -> Bar]
  BY <1>4, <1>6, <1>7
<1>9. b \in Seq(Bar) /\ Len(b) = Len(s)
  <2>1. \A k \in Nat : \A c \in [1 .. k -> Bar] : c \in Seq(Bar) /\ Len(c) = k
    OBVIOUS
  <2> QED  BY <1>6, <1>8, <2>1
<1>10. Sorted(b)
  <2> SUFFICES ASSUME NEW j \in 1 .. Len(s), NEW k \in 1 .. Len(s), j < k
               PROVE  b[j].minute < b[k].minute
    BY <1>9 DEF Sorted
  <2>1. s[j] < s[k]
    BY <1>6 DEF Increasing
  <2>2. b[j].minute = s[j] /\ b[k].minute = s[k]
    BY <1>7
  <2> QED  BY <2>1, <2>2, Zenon
<1>11. \A k \in 1 .. Len(b) : /\ HasMinute(ticks, b[k].minute)
                              /\ b[k].volume = Gemini!Volume(ticks, b[k].minute)
  <2> SUFFICES ASSUME NEW k \in 1 .. Len(s)
               PROVE  /\ HasMinute(ticks, b[k].minute)
                      /\ b[k].volume = Gemini!Volume(ticks, b[k].minute)
    BY <1>9
  <2>1. b[k].minute = s[k] /\ b[k].volume = Gemini!Volume(ticks, s[k]) /\ s[k] \in S
    BY <1>6, <1>7
  <2> QED  BY <1>3, <2>1
<1>12. ASSUME NEW m, HasMinute(ticks, m) PROVE HasBar(b, m)
  <2>1. PICK k \in 1 .. Len(s) : s[k] = m
    BY <1>3, <1>6, <1>12
  <2> QED  BY <1>7, <1>9, <2>1 DEF HasBar
<1> QED  BY <1>9, <1>10, <1>11, <1>12

\* The bars of other minutes, in the same order.
LEMMA WithoutIs ==
  ASSUME NEW bars \in Seq(Bar), NEW more \in Seq(Bar), Sorted(more),
         NEW w, w = Gemini!Without(more, bars)
  PROVE  /\ w \in Seq(Bar) /\ Sorted(w)
         /\ \A k \in 1 .. Len(w) : /\ \E j \in 1 .. Len(more) : w[k] = more[j]
                                   /\ ~HasBar(bars, w[k].minute)
         /\ \A j \in 1 .. Len(more) :
              ~HasBar(bars, more[j].minute) => HasBar(w, more[j].minute)
<1> DEFINE S == {k \in DOMAIN more :
                   \A j \in DOMAIN bars : bars[j].minute # more[k].minute}
           s == Gemini!InOrder(S)
<1>1. /\ DOMAIN more = 1 .. Len(more) /\ \A k \in 1 .. Len(more) : more[k] \in Bar
      /\ Len(more) \in Nat /\ DOMAIN bars = 1 .. Len(bars)
  OBVIOUS
<1>2. S \in SUBSET (0 .. Len(more))
  BY <1>1
<1>3. \A k : k \in S <=> k \in 1 .. Len(more) /\ ~HasBar(bars, more[k].minute)
  BY <1>1 DEF HasBar
<1>4. w = [k \in DOMAIN s |-> more[s[k]]]
  BY DEF Gemini!Without
<1> HIDE DEF S
<1>5. /\ s \in Seq(S) /\ DOMAIN s = 1 .. Len(s) /\ Len(s) \in Nat
      /\ \A k \in 1 .. Len(s) : s[k] \in S
      /\ Increasing(s)
      /\ \A x \in S : \E k \in 1 .. Len(s) : s[k] = x
  <2>1. \A m \in Nat : S \in SUBSET (0 .. m) => 
          \A t : t = Gemini!InOrder(S) =>
            /\ t \in Seq(S) /\ DOMAIN t = 1 .. Len(t) /\ Len(t) \in Nat
            /\ \A k \in 1 .. Len(t) : t[k] \in S
            /\ Increasing(t)
            /\ \A x \in S : \E k \in 1 .. Len(t) : t[k] = x
    BY InOrderIs
  <2> QED  BY <1>1, <1>2, <2>1
<1> HIDE DEF s
<1>6. \A k \in 1 .. Len(s) : w[k] = more[s[k]] /\ w[k] \in Bar
  BY <1>1, <1>3, <1>4, <1>5
<1>7. w \in [1 .. Len(s) -> Bar]
  BY <1>4, <1>5, <1>6
<1>8. w \in Seq(Bar) /\ Len(w) = Len(s)
  <2>1. \A k \in Nat : \A c \in [1 .. k -> Bar] : c \in Seq(Bar) /\ Len(c) = k
    OBVIOUS
  <2> QED  BY <1>5, <1>7, <2>1
<1>9. Sorted(w)
  <2> SUFFICES ASSUME NEW j \in 1 .. Len(s), NEW k \in 1 .. Len(s), j < k
               PROVE  w[j].minute < w[k].minute
    BY <1>8 DEF Sorted
  <2>1. s[j] < s[k]
    BY <1>5 DEF Increasing
  <2>2. s[j] \in 1 .. Len(more) /\ s[k] \in 1 .. Len(more)
    BY <1>3, <1>5
  <2>3. more[s[j]].minute < more[s[k]].minute
    BY <2>1, <2>2 DEF Sorted
  <2>4. w[j] = more[s[j]] /\ w[k] = more[s[k]]
    BY <1>6
  <2> QED  BY <2>3, <2>4, Zenon
<1>10. ASSUME NEW j \in 1 .. Len(more), ~HasBar(bars, more[j].minute)
       PROVE  HasBar(w, more[j].minute)
  <2>1. PICK k \in 1 .. Len(s) : s[k] = j
    BY <1>3, <1>5, <1>10
  <2>2. k \in 1 .. Len(w) /\ w[k] = more[j]
    BY <1>6, <1>8, <2>1
  <2> QED  BY <2>2 DEF HasBar
<1>11. ASSUME NEW k \in 1 .. Len(w)
       PROVE  (\E j \in 1 .. Len(more) : w[k] = more[j]) /\ ~HasBar(bars, w[k].minute)
  <2>1. k \in 1 .. Len(s)
    BY <1>8
  <2>2. s[k] \in 1 .. Len(more) /\ ~HasBar(bars, more[s[k]].minute)
    BY <1>3, <1>5, <2>1
  <2>3. w[k] = more[s[k]]
    BY <1>6, <2>1
  <2> QED  BY <2>2, <2>3
<1> QED  BY <1>8, <1>9, <1>10, <1>11

\* The minute is in answer i, and in none before it.
FirstIn(ans, i, m) == HasMinute(ans[i], m) /\ \A j \in 1 .. i - 1 : ~HasMinute(ans[j], m)

\* The bars of the first n answers: in order, a minute of each answer has one,
\* with the volume it has in the first answer with that minute.
BarsOf(b, n, ans) ==
  /\ b \in Seq(Bar) /\ Sorted(b)
  /\ \A k \in 1 .. Len(b) : \E i \in 1 .. n :
       FirstIn(ans, i, b[k].minute) /\ b[k].volume = Gemini!Volume(ans[i], b[k].minute)
  /\ \A i \in 1 .. n : \A m : HasMinute(ans[i], m) => HasBar(b, m)

\* A minute of a later answer is in an earlier one, or after all of it.
Consecutive(ans) ==
  \A j \in DOMAIN ans : \A i \in 1 .. j - 1 : \A m, p \in Nat :
    HasMinute(ans[j], m) /\ HasMinute(ans[i], p) /\ m < p => HasMinute(ans[i], m)

LEMMA MergedIs ==
  ASSUME NEW n \in Nat, NEW t \in Nat, NEW ans \in [1 .. n -> Seq(Nat)], Consecutive(ans),
         \A i \in 1 .. n : \A k \in 1 .. Len(ans[i]) : ans[i][k] <= t,
         NEW i \in 1 .. n, NEW b, BarsOf(b, i - 1, ans)
  PROVE  BarsOf(Gemini!Merged(b, Gemini!Bars(ans[i])), i, ans)
<1> DEFINE more == Gemini!Bars(ans[i])
           w == Gemini!Without(more, b)
           c == b \o w
<1>1. /\ more \in Seq(Bar) /\ Sorted(more)
      /\ \A k \in 1 .. Len(more) : /\ HasMinute(ans[i], more[k].minute)
                                   /\ more[k].volume = Gemini!Volume(ans[i], more[k].minute)
      /\ \A m : HasMinute(ans[i], m) => HasBar(more, m)
  <2>1. ans[i] \in Seq(Nat) /\ \A k \in 1 .. Len(ans[i]) : ans[i][k] <= t
    OBVIOUS
  <2> QED  BY <2>1, BarsAre
<1>2. b \in Seq(Bar) /\ Sorted(b)
  BY DEF BarsOf
<1> HIDE DEF more
<1>3. /\ w \in Seq(Bar) /\ Sorted(w)
      /\ \A k \in 1 .. Len(w) : /\ \E j \in 1 .. Len(more) : w[k] = more[j]
                                /\ ~HasBar(b, w[k].minute)
      /\ \A j \in 1 .. Len(more) :
           ~HasBar(b, more[j].minute) => HasBar(w, more[j].minute)
  BY <1>1, <1>2, WithoutIs
<1> HIDE DEF w
<1>4. /\ c \in Seq(Bar) /\ Len(c) = Len(b) + Len(w)
      /\ \A k \in 1 .. Len(b) + Len(w) : c[k] = IF k <= Len(b) THEN b[k] ELSE w[k - Len(b)]
  BY <1>2, <1>3, ConcatProperties
<1>5. Len(b) \in Nat /\ Len(w) \in Nat
  BY <1>2, <1>3
<1> HIDE DEF c
<1>6. \A k \in 1 .. Len(c) : \/ k \in 1 .. Len(b) /\ c[k] = b[k]
                             \/ /\ k > Len(b) /\ k - Len(b) \in 1 .. Len(w)
                                /\ c[k] = w[k - Len(b)]
  BY <1>4, <1>5
<1>7. \A k \in 1 .. Len(b) : k \in 1 .. Len(c) /\ c[k] = b[k]
  BY <1>4, <1>5
<1>8. \A k \in 1 .. Len(w) : Len(b) + k \in 1 .. Len(c) /\ c[Len(b) + k] = w[k]
  <2> SUFFICES ASSUME NEW k \in 1 .. Len(w)
               PROVE  Len(b) + k \in 1 .. Len(c) /\ c[Len(b) + k] = w[k]
    OBVIOUS
  <2>1. Len(b) + k \in 1 .. Len(b) + Len(w) /\ ~(Len(b) + k <= Len(b)) /\ (Len(b) + k) - Len(b) = k
    BY <1>5
  <2> QED  BY <1>4, <2>1
<1>9. \A k \in 1 .. Len(b) : \E j \in 1 .. i - 1 :
        FirstIn(ans, j, b[k].minute) /\ b[k].volume = Gemini!Volume(ans[j], b[k].minute)
  BY DEF BarsOf
<1>10. \A k \in 1 .. Len(w) :
         /\ HasMinute(ans[i], w[k].minute)
         /\ w[k].volume = Gemini!Volume(ans[i], w[k].minute)
         /\ ~HasBar(b, w[k].minute)
  BY <1>1, <1>3
<1>11. \A j \in 1 .. i - 1 : \A m : HasMinute(ans[j], m) => HasBar(b, m)
  BY DEF BarsOf
<1>12. /\ \A k \in 1 .. Len(b) : b[k].minute \in Nat
       /\ \A k \in 1 .. Len(w) : w[k].minute \in Nat
  <2>1. \A k \in 1 .. Len(b) : b[k] \in Bar
    BY <1>2
  <2>2. \A k \in 1 .. Len(w) : w[k] \in Bar
    BY <1>3
  <2> QED  BY <2>1, <2>2 DEF Bar
<1>13. Sorted(c)
  <2> SUFFICES ASSUME NEW j \in 1 .. Len(c), NEW k \in 1 .. Len(c), j < k
               PROVE  c[j].minute < c[k].minute
    BY DEF Sorted
  <2>1. CASE k \in 1 .. Len(b)
    <3>1. j \in 1 .. Len(b)
      BY <1>5, <2>1
    <3>2. b[j].minute < b[k].minute
      BY <1>2, <2>1, <3>1 DEF Sorted
    <3> QED  BY <1>7, <2>1, <3>1, <3>2
  <2>2. CASE j > Len(b)
    <3>1. /\ j - Len(b) \in 1 .. Len(w) /\ c[j] = w[j - Len(b)]
          /\ k - Len(b) \in 1 .. Len(w) /\ c[k] = w[k - Len(b)]
          /\ j - Len(b) < k - Len(b)
      <4>1. /\ j \notin 1 .. Len(b) /\ k \notin 1 .. Len(b) /\ j - Len(b) < k - Len(b)
        BY <1>4, <1>5, <2>2
      <4> QED  BY <1>6, <4>1
    <3> QED  BY <1>3, <3>1 DEF Sorted
  <2>3. CASE j \in 1 .. Len(b) /\ k > Len(b)
    <3>1. k - Len(b) \in 1 .. Len(w) /\ c[k] = w[k - Len(b)] /\ c[j] = b[j]
      <4>1. k \notin 1 .. Len(b)
        BY <1>5, <2>3
      <4> QED  BY <1>6, <1>7, <2>3, <4>1
    <3> DEFINE m == c[k].minute
               p == c[j].minute
    <3>2. HasMinute(ans[i], m) /\ ~HasBar(b, m) /\ m \in Nat
      BY <1>10, <1>12, <3>1
    <3>3. PICK h \in 1 .. i - 1 : HasMinute(ans[h], p)
      BY <1>9, <2>3, <3>1 DEF FirstIn
    <3>4. p \in Nat /\ HasBar(b, p)
      BY <1>12, <2>3, <3>1 DEF HasBar
    <3> HIDE DEF m, p
    <3>5. ~HasMinute(ans[h], m)
      BY <1>11, <3>2
    <3>6. ~(m < p)
      <4>1. i \in DOMAIN ans
        OBVIOUS
      <4> QED  BY <3>2, <3>3, <3>4, <3>5, <4>1 DEF Consecutive
    <3>7. m # p
      BY <3>2, <3>4
    <3>8. p < m
      BY <3>2, <3>4, <3>6, <3>7
    <3> QED  BY <3>8 DEF m, p
  <2> QED  BY <1>5, <1>6, <2>1, <2>2, <2>3
<1>14. ASSUME NEW k \in 1 .. Len(c)
       PROVE  \E j \in 1 .. i : FirstIn(ans, j, c[k].minute)
                                /\ c[k].volume = Gemini!Volume(ans[j], c[k].minute)
  <2>1. CASE k \in 1 .. Len(b) /\ c[k] = b[k]
    <3>1. PICK j \in 1 .. i - 1 :
            FirstIn(ans, j, b[k].minute) /\ b[k].volume = Gemini!Volume(ans[j], b[k].minute)
      BY <1>9, <2>1
    <3>2. j \in 1 .. i
      OBVIOUS
    <3> QED  BY <2>1, <3>1, <3>2
  <2>2. CASE k - Len(b) \in 1 .. Len(w) /\ c[k] = w[k - Len(b)]
    <3> DEFINE m == c[k].minute
    <3>1. /\ HasMinute(ans[i], m) /\ ~HasBar(b, m)
          /\ c[k].volume = Gemini!Volume(ans[i], m)
      BY <1>10, <2>2
    <3>2. \A j \in 1 .. i - 1 : ~HasMinute(ans[j], m)
      BY <1>11, <3>1
    <3>3. FirstIn(ans, i, m) /\ i \in 1 .. i
      BY <3>1, <3>2 DEF FirstIn
    <3> QED  BY <3>1, <3>3
  <2> QED  BY <1>6, <2>1, <2>2
<1>15. ASSUME NEW j \in 1 .. i, NEW m, HasMinute(ans[j], m) PROVE HasBar(c, m)
  <2>1. CASE HasBar(b, m)
    BY <1>7, <2>1 DEF HasBar
  <2>2. CASE ~HasBar(b, m)
    <3>1. j = i
      <4>1. j \notin 1 .. i - 1
        BY <1>11, <1>15, <2>2
      <4> QED  BY <4>1
    <3>2. PICK k \in 1 .. Len(more) : more[k].minute = m
      BY <1>1, <1>15, <3>1 DEF HasBar
    <3>3. PICK h \in 1 .. Len(w) : w[h].minute = m
      BY <1>3, <2>2, <3>2 DEF HasBar
    <3> QED  BY <1>8, <3>3 DEF HasBar
  <2> QED  BY <2>1, <2>2
<1>16. BarsOf(c, i, ans)
  BY <1>4, <1>13, <1>14, <1>15 DEF BarsOf
<1> QED  BY <1>16 DEF Gemini!Merged, c, w, more

\* What the library's fold computes for the sets of requests up to n.
IsMerge(F, n, ans) ==
  F = [s \in SUBSET (1 .. n) |->
         IF s = {} THEN <<>>
         ELSE Gemini!Merged(F[s \ {Gemini!Max(s)}], Gemini!Bars(ans[Gemini!Max(s)]))]

LEMMA MaxIsLast ==
  ASSUME NEW n \in Nat, NEW s \in SUBSET (1 .. n), n \in s
  PROVE  Gemini!Max(s) = n
<1>1. \E x \in s : \A y \in s : x >= y
  OBVIOUS
<1>2. Gemini!Max(s) \in s /\ \A y \in s : Gemini!Max(s) >= y
  BY <1>1 DEF Gemini!Max
<1>3. PICK x \in s : x = Gemini!Max(s) /\ \A y \in s : x >= y
  BY <1>2
<1>4. x \in 1 .. n /\ x >= n
  BY <1>3
<1>5. x = n
  BY <1>4
<1> QED  BY <1>3, <1>5

LEMMA UptoIs ==
  ASSUME NEW n \in Nat, NEW k \in 1 .. n
  PROVE  1 .. k \in SUBSET (1 .. n) /\ 1 .. k # {} /\ k \in 1 .. k /\ k \in Nat
OBVIOUS

LEMMA MergeExists ==
  ASSUME NEW ans, NEW n \in Nat
  PROVE  \E F : IsMerge(F, n, ans)
<1> DEFINE Bad == {m \in Nat : ~\E F : IsMerge(F, m, ans)}
<1> SUFFICES ASSUME Bad # {} PROVE FALSE
  OBVIOUS
<1>1. PICK m \in Bad : \A k \in Bad : m <= k
  BY Least
<1>2. m # 0
  <2> DEFINE F == [s \in SUBSET (1 .. 0) |-> <<>>]
  <2>1. SUBSET (1 .. 0) = {{}}
    OBVIOUS
  <2>2. IsMerge(F, 0, ans)
    BY <2>1 DEF IsMerge
  <2> QED  BY <2>2
<1>3. m \in Nat /\ m - 1 \in Nat /\ m - 1 \notin Bad
  BY <1>1, <1>2
<1>4. PICK F : IsMerge(F, m - 1, ans)
  BY <1>3
<1> DEFINE G == [s \in SUBSET (1 .. m) |->
                   IF m \in s THEN Gemini!Merged(F[s \ {m}], Gemini!Bars(ans[m])) ELSE F[s]]
<1>5. ASSUME NEW s \in SUBSET (1 .. m)
      PROVE  G[s] = IF s = {} THEN <<>>
                    ELSE Gemini!Merged(G[s \ {Gemini!Max(s)}], Gemini!Bars(ans[Gemini!Max(s)]))
  <2>1. CASE m \in s
    <3>1. Gemini!Max(s) = m /\ s # {} /\ s \ {m} \in SUBSET (1 .. m) /\ m \notin s \ {m}
      BY <1>3, <2>1, MaxIsLast
    <3>2. G[s] = Gemini!Merged(F[s \ {m}], Gemini!Bars(ans[m])) /\ G[s \ {m}] = F[s \ {m}]
      BY <2>1, <3>1
    <3> QED  BY <3>1, <3>2
  <2>2. CASE m \notin s
    <3> DEFINE t == s \ {Gemini!Max(s)}
    <3>1. \A i \in s : i \in 1 .. (m - 1)
      BY <1>3, <2>2
    <3>2. s \in SUBSET (1 .. (m - 1)) /\ t \in SUBSET s
      BY <3>1
    <3>3. t \in SUBSET (1 .. m) /\ m \notin t
      BY <2>2, <3>2
    <3>4. G[s] = F[s] /\ G[t] = F[t]
      BY <2>2, <3>3
    <3>5. F[s] = IF s = {} THEN <<>>
                 ELSE Gemini!Merged(F[t], Gemini!Bars(ans[Gemini!Max(s)]))
      BY <1>4, <3>2 DEF IsMerge
    <3> QED  BY <3>4, <3>5
  <2> QED  BY <2>1, <2>2
<1>6. IsMerge(G, m, ans)
  <2>1. G = [s \in SUBSET (1 .. m) |-> G[s]]
    OBVIOUS
  <2> HIDE DEF G
  <2> QED  BY <1>5, <2>1 DEF IsMerge
<1>7. m \notin Bad
  BY <1>6
<1> QED  BY <1>1, <1>7

\* The bars of all answers, one after the other.
LEMMA TogetherIs ==
  ASSUME NEW n \in Nat, NEW t \in Nat, NEW ans \in [1 .. n -> Seq(Nat)], Consecutive(ans),
         \A i \in 1 .. n : \A k \in 1 .. Len(ans[i]) : ans[i][k] <= t
  PROVE  BarsOf(Together(ans), n, ans)
<1> DEFINE F == CHOOSE G : IsMerge(G, n, ans)
<1>1. IsMerge(F, n, ans)
  BY MergeExists
<1>2. Together(ans) = F[1 .. n]
  <2>1. DOMAIN ans = 1 .. n
    OBVIOUS
  <2> QED
    BY <2>1 DEF Together, Gemini!FoldLeft, Gemini!MapThenFoldSet, IsMerge
<1> HIDE DEF F
<1>3. F[1 .. 0] = <<>>
  <2>1. 1 .. 0 = {} /\ {} \in SUBSET (1 .. n)
    OBVIOUS
  <2>2. F[{}] = <<>>
    BY <1>1, <2>1 DEF IsMerge
  <2> QED  BY <2>1, <2>2
<1>4. \A k \in 1 .. n : F[1 .. k] = Gemini!Merged(F[1 .. k - 1], Gemini!Bars(ans[k]))
  <2> SUFFICES ASSUME NEW k \in 1 .. n
               PROVE  F[1 .. k] = Gemini!Merged(F[1 .. k - 1], Gemini!Bars(ans[k]))
    OBVIOUS
  <2>1. 1 .. k \in SUBSET (1 .. n) /\ 1 .. k # {} /\ k \in 1 .. k /\ k \in Nat
    BY UptoIs
  <2>2. Gemini!Max(1 .. k) = k
    BY <2>1, MaxIsLast
  <2>3. (1 .. k) \ {k} = 1 .. k - 1
    BY <2>1
  <2>4. F[1 .. k] = Gemini!Merged(F[(1 .. k) \ {Gemini!Max(1 .. k)}],
                                  Gemini!Bars(ans[Gemini!Max(1 .. k)]))
    BY <1>1, <2>1 DEF IsMerge
  <2> QED  BY <2>2, <2>3, <2>4
<1> DEFINE Bad == {k \in 0 .. n : ~BarsOf(F[1 .. k], k, ans)}
<1> SUFFICES ASSUME Bad # {} PROVE FALSE
  <2> SUFFICES ASSUME Bad = {} PROVE BarsOf(F[1 .. n], n, ans)
    BY <1>2
  <2>1. n \in 0 .. n
    OBVIOUS
  <2> QED  BY <2>1
<1>5. PICK k \in Bad : \A j \in Bad : k <= j
  <2>1. Bad \in SUBSET (0 .. n)
    OBVIOUS
  <2> HIDE DEF Bad
  <2>2. Bad \in SUBSET Nat
    BY <2>1
  <2> QED  BY <2>2, Least
<1>6. k # 0
  <2>1. <<>> \in Seq(Bar) /\ Len(<<>>) = 0
    OBVIOUS
  <2>2. BarsOf(<<>>, 0, ans)
    BY <2>1 DEF BarsOf, Sorted
  <2> QED  BY <1>3, <2>2
<1>7. k \in 1 .. n /\ BarsOf(F[1 .. k - 1], k - 1, ans)
  <2>1. k \in 0 .. n /\ \A j \in Bad : k <= j
    BY <1>5
  <2> HIDE DEF Bad
  <2>2. k \in 1 .. n /\ k - 1 \in 0 .. n /\ k - 1 \notin Bad
    BY <1>6, <2>1
  <2> QED  BY <2>2 DEF Bad
<1>8. BarsOf(F[1 .. k], k, ans)
  BY <1>4, <1>7, MergedIs
<1> QED  BY <1>8

LEMMA GeminiNumbers ==
  /\ Gemini!Periods - 1 \in Nat \ {0} /\ Gemini!Requests = 1 .. Gemini!Periods - 1
  /\ Limit \in Nat \ {0}
  /\ \A i \in Nat : Gemini!From(i) \in Int
  /\ Gemini!From(1) = 0
  /\ \A i, j \in Nat : i <= j => Gemini!From(i) <= Gemini!From(j)
<1>1. /\ Length \in Nat \ {0} /\ PerPeriod \in Nat \ {0} /\ Limit \in Nat \ {0}
      /\ Gemini!Periods > 1
  BY GeminiAssumption DEF Gemini!ConstantsAssumption, Gemini!Periods
<1>2. Gemini!Periods \in Int
  BY <1>1, Quotient DEF Gemini!Periods
<1> DEFINE n == Gemini!Periods - 1
           Product(i) == (i - 1) * Length
<1>3. n \in Nat \ {0}
  BY <1>1, <1>2
<1>4. \A i \in Nat : Product(i) \in Int /\ Gemini!From(i) = Product(i) \div n
  BY <1>1 DEF Gemini!From
<1>5. \A i, j \in Nat : i <= j => Product(i) <= Product(j)
  <2> SUFFICES ASSUME NEW i \in Nat, NEW j \in Nat, i <= j PROVE Product(i) <= Product(j)
    OBVIOUS
  <2>1. Product(j) = Product(i) + (j - i) * Length
    BY <1>1
  <2>2. (j - i) * Length \in Nat
    BY <1>1
  <2> HIDE DEF Product
  <2> QED  BY <1>4, <2>1, <2>2
<1>6. Product(1) = 0
  BY <1>1
<1> HIDE DEF n, Product
<1>7. 0 \div n = 0
  BY <1>3
<1>8. \A i, j \in Nat : i <= j => Product(i) \div n <= Product(j) \div n
  BY <1>3, <1>4, <1>5, QuotientGrows
<1>9. \A i \in Nat : Product(i) \div n \in Int
  BY <1>3, <1>4, Quotient
<1> QED  BY <1>1, <1>3, <1>4, <1>6, <1>7, <1>8, <1>9 DEF n, Gemini!Requests

\* The trades before a request's time are the first ones.
LEMMA TradesBefore ==
  ASSUME GeminiInv, NEW i \in Gemini!Requests
  PROVE  \E n \in 0 .. Len(trades) :
           /\ Gemini!Cardinality({k \in DOMAIN trades : trades[k] < Gemini!From(i)}) = n
           /\ \A k \in 1 .. n : trades[k] < Gemini!From(i)
           /\ \A k \in n + 1 .. Len(trades) : trades[k] >= Gemini!From(i)
<1> DEFINE t == Gemini!From(i)
           S == {k \in DOMAIN trades : trades[k] < t}
           C == {k \in 1 .. Len(trades) + 1 : k = Len(trades) + 1 \/ trades[k] >= t}
<1>1. /\ trades \in Seq(Nat) /\ \A j, k \in 1 .. Len(trades) : j <= k => trades[j] <= trades[k]
  BY DEF GeminiInv
<1>2. t \in Int
  BY GeminiNumbers
<1>3. /\ Len(trades) \in Nat /\ DOMAIN trades = 1 .. Len(trades)
      /\ \A k \in 1 .. Len(trades) : trades[k] \in Nat
  BY <1>1
<1> HIDE DEF t
<1>4. C \in SUBSET Nat /\ Len(trades) + 1 \in C
  BY <1>3
<1> HIDE DEF C
<1>5. PICK c \in C : \A k \in C : c <= k
  BY <1>4, Least
<1> USE DEF C
<1>6. c - 1 \in 0 .. Len(trades)
  BY <1>3, <1>5
<1>7. \A k \in 1 .. c - 1 : k \in DOMAIN trades /\ trades[k] < t
  <2> SUFFICES ASSUME NEW k \in 1 .. c - 1 PROVE k \in DOMAIN trades /\ trades[k] < t
    OBVIOUS
  <2>1. k \in 1 .. Len(trades) /\ ~(c <= k)
    BY <1>3, <1>6
  <2>2. k \notin C
    BY <1>5, <2>1
  <2> QED  BY <1>2, <1>3, <2>1, <2>2
<1>8. \A k \in c .. Len(trades) : trades[k] >= t
  <2> SUFFICES ASSUME NEW k \in c .. Len(trades) PROVE trades[k] >= t
    OBVIOUS
  <2>1. c \in 1 .. Len(trades) /\ k \in 1 .. Len(trades) /\ c <= k
    BY <1>3, <1>6
  <2>2. trades[c] >= t
    BY <1>3, <1>5, <2>1
  <2>3. trades[c] <= trades[k]
    BY <1>1, <2>1
  <2> QED  BY <1>2, <1>3, <2>1, <2>2, <2>3
<1>9. S = 1 .. c - 1
  <2>1. \A k \in DOMAIN trades : k \in 1 .. c - 1 \/ k \in c .. Len(trades)
    BY <1>3, <1>6
  <2>2. \A k \in c .. Len(trades) : k \in DOMAIN trades => ~(trades[k] < t)
    BY <1>2, <1>3, <1>8
  <2> QED  BY <1>7, <2>1, <2>2
<1>10. Gemini!Cardinality(S) = c - 1
  <2>1. Gemini!Cardinality(S) = Cardinality(S)
    BY DEF Gemini!Cardinality, Cardinality
  <2>2. Cardinality(1 .. c - 1) = c - 1
    <3> HIDE DEF C
    <3>1. 1 \in Int /\ c - 1 \in Int /\ c - 1 >= 0
      BY <1>6
    <3>2. Cardinality(1 .. c - 1) = IF 1 > c - 1 THEN 0 ELSE (c - 1) - 1 + 1
      BY <3>1, FS_Interval
    <3> QED  BY <3>1, <3>2
  <2> HIDE DEF S, C
  <2> QED  BY <1>9, <2>1, <2>2
<1>11. (c - 1) + 1 = c
  BY <1>6
<1> QED  BY <1>6, <1>7, <1>8, <1>10, <1>11 DEF t

LEMMA GeminiInitially == Gemini!Init => GeminiInv
<1> SUFFICES ASSUME Gemini!Init PROVE GeminiInv
  OBVIOUS
<1>1. trades = <<>> /\ <<>> \in Seq(Nat) /\ Len(<<>>) = 0
  BY DEF Gemini!Init
<1> QED  BY <1>1 DEF Gemini!Init, GeminiInv

\* What was answered stays a part of the trades as they go on.
LEMMA TradeStep == GeminiInv /\ Gemini!Trade => GeminiInv'
<1> SUFFICES ASSUME GeminiInv, Gemini!Trade PROVE GeminiInv'
  OBVIOUS
<1> DEFINE len == Len(trades)
<1>1. /\ clock \in Nat /\ trades \in Seq(Nat) /\ len \in Nat
      /\ \A j, k \in 1 .. len : j <= k => trades[j] <= trades[k]
      /\ \A k \in 1 .. len : trades[k] <= clock /\ trades[k] \in Nat
  BY DEF GeminiInv
<1>2. trades' = Append(trades, clock) /\ UNCHANGED <<clock, answer, failed, askedAt, returned>>
  BY DEF Gemini!Trade
<1>3. /\ trades' \in Seq(Nat) /\ Len(trades') = len + 1
      /\ \A k \in 1 .. len : trades'[k] = trades[k]
      /\ trades'[len + 1] = clock
  BY <1>1, <1>2, AppendProperties
<1> HIDE DEF len
<1>4. \A k \in 1 .. len + 1 : k \in 1 .. len \/ k = len + 1
  BY <1>1
<1>5. \A k \in 1 .. len + 1 : trades'[k] <= clock
  BY <1>1, <1>3, <1>4
<1>6. ASSUME NEW j \in 1 .. len + 1, NEW k \in 1 .. len + 1, j <= k
      PROVE  trades'[j] <= trades'[k]
  <2>1. CASE k = len + 1
    BY <1>3, <1>5, <2>1
  <2>2. CASE k \in 1 .. len
    <3>1. j \in 1 .. len
      BY <1>1, <1>6, <2>2
    <3> QED  BY <1>1, <1>3, <1>6, <2>2, <3>1
  <2> QED  BY <1>4, <2>1, <2>2
<1>7. ASSUME NEW i \in Gemini!Requests, answer[i] # None
      PROVE  answer'[i] \in Seq(Nat) /\ \E begin \in 1 .. Len(trades') + 1 : Slice(i, begin)'
  <2>1. answer[i] \in Seq(Nat) /\ \E begin \in 1 .. len + 1 : Slice(i, begin)
    BY <1>7 DEF GeminiInv, len
  <2>2. PICK begin \in 1 .. len + 1 : Slice(i, begin)
    BY <2>1
  <2> DEFINE own == Len(answer[i])
  <2>3. own \in Nat /\ askedAt[i] \in Nat /\ askedAt[i] <= clock
    BY <2>1 DEF GeminiInv
  <2>4. /\ begin \in Nat \ {0} /\ begin + own <= len + 1
        /\ \A k \in 1 .. own : answer[i][k] = trades[begin + k - 1]
        /\ \A k \in 1 .. own : answer[i][k] >= Gemini!From(i)
        /\ \A k \in 1 .. begin - 1 : trades[k] < Gemini!From(i)
        /\ \/ Gemini!Full(i)
           \/ \A k \in begin + own .. len : trades[k] >= askedAt[i]
    BY <2>2 DEF Slice, len
  <2> HIDE DEF own
  <2>5. \A k \in 1 .. own : begin + k - 1 \in 1 .. len
    BY <1>1, <2>3, <2>4
  <2>6. \A k \in 1 .. begin - 1 : k \in 1 .. len
    BY <1>1, <2>3, <2>4
  <2>7. \A k \in 1 .. own : answer[i][k] = trades'[begin + k - 1]
    BY <1>3, <2>4, <2>5
  <2>8. \A k \in 1 .. begin - 1 : trades'[k] < Gemini!From(i)
    BY <1>3, <2>4, <2>6
  <2>9. Gemini!Full(i) \/ \A k \in begin + own .. len + 1 : trades'[k] >= askedAt[i]
    <3> SUFFICES ASSUME \A k \in begin + own .. len : trades[k] >= askedAt[i],
                        NEW k \in begin + own .. len + 1
                 PROVE  trades'[k] >= askedAt[i]
      BY <2>4
    <3>1. CASE k = len + 1
      BY <1>1, <1>3, <2>3, <3>1
    <3>2. CASE k # len + 1
      <4>1. k \in begin + own .. len /\ k \in 1 .. len
        BY <1>1, <2>3, <2>4, <3>2
      <4> QED  BY <1>3, <4>1
    <3> QED  BY <3>1, <3>2
  <2>10. Gemini!Full(i)' = Gemini!Full(i) /\ Gemini!From(i)' = Gemini!From(i)
    BY <1>2 DEF Gemini!Full, Gemini!From
  <2>11. begin + own <= (len + 1) + 1 /\ begin \in 1 .. (len + 1) + 1
    BY <1>1, <2>3, <2>4
  <2>12. Slice(i, begin)'
    BY <1>2, <1>3, <2>4, <2>7, <2>8, <2>9, <2>10, <2>11 DEF Slice, own
  <2> QED  BY <1>2, <1>3, <2>1, <2>11, <2>12
<1>8. returned' # None =>
        /\ \A i \in Gemini!Requests : answer'[i] # None
        /\ returned' = Together(answer')
  BY <1>2 DEF GeminiInv
<1>9. /\ clock' \in Nat /\ askedAt' \in [Gemini!Requests -> Nat] /\ answer' \in [Gemini!Requests -> {None} \cup Seq(Nat)]
      /\ \A i \in Gemini!Requests : askedAt'[i] <= clock'
  BY <1>2 DEF GeminiInv
<1> QED  BY <1>2, <1>3, <1>5, <1>6, <1>7, <1>8, <1>9 DEF GeminiInv

\* An answer is a part of the trades.
LEMMA AnswerStep ==
  ASSUME GeminiInv, NEW i \in Gemini!Requests, Gemini!Answer(i)
  PROVE  GeminiInv'
<1> DEFINE len == Len(trades)
<1>1. /\ clock \in Nat /\ trades \in Seq(Nat) /\ len \in Nat /\ Limit \in Nat \ {0}
      /\ \A k \in 1 .. len : trades[k] \in Nat
      /\ Gemini!From(i) \in Int
  <2>1. i \in Nat /\ Limit \in Nat \ {0} /\ Gemini!From(i) \in Int
    BY GeminiNumbers
  <2>2. clock \in Nat /\ trades \in Seq(Nat)
    BY DEF GeminiInv
  <2> QED  BY <2>1, <2>2
<1>2. /\ answer[i] = None
      /\ answer' = [answer EXCEPT ![i] = Gemini!FirstTrades(i)]
      /\ askedAt' = [askedAt EXCEPT ![i] = clock]
      /\ UNCHANGED <<clock, trades, failed, returned>>
  BY DEF Gemini!Answer, Gemini!Waiting
<1>3. PICK n \in 0 .. len :
        /\ Gemini!Cardinality({k \in DOMAIN trades : trades[k] < Gemini!From(i)}) = n
        /\ \A k \in 1 .. n : trades[k] < Gemini!From(i)
        /\ \A k \in n + 1 .. len : trades[k] >= Gemini!From(i)
  BY TradesBefore
<1> DEFINE end == IF len < n + Limit THEN len ELSE n + Limit
           ans == SubSeq(trades, n + 1, end)
<1>4. Gemini!FirstTrades(i) = ans
  BY <1>3 DEF Gemini!FirstTrades
<1> HIDE DEF len
<1>5. end \in Nat /\ n <= end /\ end <= len /\ n \in Nat /\ (end = len \/ end = n + Limit)
  BY <1>1, <1>3
<1> HIDE DEF end
<1>6. /\ ans \in Seq(Nat) /\ Len(ans) = end - n
      /\ \A k \in 1 .. end - n : ans[k] = trades[n + k]
  <2>1. \A k \in n + 1 .. end : trades[k] \in Nat
    BY <1>1, <1>5
  <2>2. /\ ans \in Seq(Nat) /\ Len(ans) = IF n + 1 <= end THEN end - (n + 1) + 1 ELSE 0
        /\ \A k \in 1 .. end - (n + 1) + 1 : ans[k] = trades[(n + 1) + k - 1]
    BY <1>5, <2>1, SubSeqProperties
  <2> HIDE DEF ans
  <2>3. Len(ans) = end - n /\ end - (n + 1) + 1 = end - n
    BY <1>5, <2>2
  <2>4. \A k \in 1 .. end - n : (n + 1) + k - 1 = n + k
    BY <1>5
  <2> QED  BY <2>2, <2>3, <2>4
<1> HIDE DEF ans
<1>7. answer'[i] = ans /\ askedAt'[i] = clock
  BY <1>2, <1>4 DEF GeminiInv
<1>8. Slice(i, n + 1)'
  <2>1. Len(answer'[i]) = end - n
    BY <1>6, <1>7
  <2>2. n + 1 \in Nat \ {0} /\ (n + 1) + (end - n) <= len + 1 /\ (n + 1) - 1 = n
        /\ (n + 1) + (end - n) = end + 1
    BY <1>1, <1>5
  <2>3. \A k \in 1 .. end - n : /\ (n + 1) + k - 1 = n + k /\ n + k \in n + 1 .. len
    BY <1>1, <1>5
  <2>4. \A k \in 1 .. end - n : answer'[i][k] = trades[(n + 1) + k - 1]
    BY <1>6, <1>7, <2>3
  <2>5. \A k \in 1 .. end - n : answer'[i][k] >= Gemini!From(i)
    BY <1>3, <2>3, <2>4
  <2>6. \A k \in 1 .. (n + 1) - 1 : trades[k] < Gemini!From(i)
    BY <1>3, <2>2
  <2>7. Len(answer'[i]) = Limit \/ \A k \in end + 1 .. len : trades[k] >= askedAt'[i]
    BY <1>1, <1>5, <2>1
  <2>8. Gemini!Full(i)' <=> Len(answer'[i]) = Limit
    BY DEF Gemini!Full
  <2>9. Gemini!From(i)' = Gemini!From(i)
    BY DEF Gemini!From
  <2> QED  BY <1>2, <2>1, <2>2, <2>4, <2>5, <2>6, <2>7, <2>8, <2>9 DEF Slice, len
<1>9. ASSUME NEW j \in Gemini!Requests, answer'[j] # None
      PROVE  answer'[j] \in Seq(Nat) /\ \E begin \in 1 .. len + 1 : Slice(j, begin)'
  <2>1. CASE j = i
    <3>1. n + 1 \in 1 .. len + 1
      BY <1>1, <1>5
    <3> QED  BY <1>6, <1>7, <1>8, <2>1, <3>1
  <2>2. CASE j # i
    <3>1. answer'[j] = answer[j] /\ askedAt'[j] = askedAt[j] /\ answer[j] # None
      BY <1>2, <1>9, <2>2 DEF GeminiInv
    <3>2. answer[j] \in Seq(Nat) /\ \E begin \in 1 .. len + 1 : Slice(j, begin)
      BY <3>1 DEF GeminiInv, len
    <3>3. PICK begin \in 1 .. len + 1 : Slice(j, begin)
      BY <3>2
    <3>4. Gemini!Full(j)' = Gemini!Full(j) /\ Gemini!From(j)' = Gemini!From(j)
      BY <3>1 DEF Gemini!Full, Gemini!From
    <3>5. Slice(j, begin)'
      BY <1>2, <3>1, <3>3, <3>4 DEF Slice
    <3> QED  BY <3>1, <3>2, <3>5
  <2> QED  BY <2>1, <2>2
<1>10. returned' = None
  BY <1>2 DEF GeminiInv
<1>11. /\ askedAt' \in [Gemini!Requests -> Nat] /\ answer' \in [Gemini!Requests -> {None} \cup Seq(Nat)]
       /\ \A j \in Gemini!Requests : askedAt'[j] <= clock'
  BY <1>1, <1>2, <1>4, <1>6 DEF GeminiInv
<1>12. /\ clock' \in Nat /\ trades' \in Seq(Nat)
       /\ \A j, k \in 1 .. Len(trades') : j <= k => trades'[j] <= trades'[k]
       /\ \A k \in 1 .. Len(trades') : trades'[k] <= clock'
  BY <1>2 DEF GeminiInv
<1>13. \A j \in Gemini!Requests :
         answer'[j] # None => answer'[j] \in Seq(Nat)
                              /\ \E begin \in 1 .. Len(trades') + 1 : Slice(j, begin)'
  BY <1>2, <1>9 DEF len
<1> QED  BY <1>10, <1>11, <1>12, <1>13 DEF GeminiInv

LEMMA GeminiStep == GeminiInv /\ [Gemini!Next]_(Gemini!vars) => GeminiInv'
<1> SUFFICES ASSUME GeminiInv, [Gemini!Next]_(Gemini!vars) PROVE GeminiInv'
  OBVIOUS
<1> DEFINE Same == UNCHANGED <<trades, answer, askedAt, returned>>
<1>1. ASSUME Same, clock' = clock \/ clock' = clock + 1 PROVE GeminiInv'
  <2>1. clock \in Nat /\ clock' \in Nat /\ clock <= clock'
    BY <1>1 DEF GeminiInv
  <2>2. /\ \A k \in 1 .. Len(trades') : trades'[k] <= clock'
        /\ \A i \in Gemini!Requests : askedAt'[i] <= clock'
    <3>1. \A k \in 1 .. Len(trades) : trades[k] \in Nat /\ trades[k] <= clock
      BY DEF GeminiInv
    <3>2. \A i \in Gemini!Requests : askedAt[i] \in Nat /\ askedAt[i] <= clock
      BY DEF GeminiInv
    <3> QED  BY <1>1, <2>1, <3>1, <3>2
  <2>3. \A i \in Gemini!Requests : \A begin : Slice(i, begin)' = Slice(i, begin)
    BY <1>1 DEF Slice, Gemini!Full, Gemini!From
  <2> QED  BY <1>1, <2>1, <2>2, <2>3 DEF GeminiInv
<1>2. CASE Gemini!Tick
  BY <1>1, <1>2 DEF Gemini!Tick
<1>3. CASE Gemini!Trade
  BY <1>3, TradeStep
<1>4. CASE Gemini!Gather
  <2>1. /\ \A i \in Gemini!Requests : answer[i] # None
        /\ returned' = Together(answer)
        /\ UNCHANGED <<clock, trades, answer, failed, askedAt>>
    BY <1>4 DEF Gemini!Gather, Together
  <2>2. \A i \in Gemini!Requests : \A begin : Slice(i, begin)' = Slice(i, begin)
    BY <2>1 DEF Slice, Gemini!Full, Gemini!From
  <2> QED  BY <2>1, <2>2 DEF GeminiInv
<1>5. ASSUME NEW i \in Gemini!Requests, Gemini!Answer(i) PROVE GeminiInv'
  BY <1>5, AnswerStep
<1>6. ASSUME NEW i \in Gemini!Requests, Gemini!AnswerError(i) PROVE GeminiInv'
  BY <1>1, <1>6 DEF Gemini!AnswerError
<1>7. CASE UNCHANGED Gemini!vars
  BY <1>1, <1>7 DEF Gemini!vars
<1> QED  BY <1>2, <1>3, <1>4, <1>5, <1>6, <1>7 DEF Gemini!Next

\* All requests are answered, each with a part of the trades.
Answered ==
  /\ GeminiInv
  /\ \A i \in Gemini!Requests : answer[i] \in Seq(Nat) /\ \E begin \in Nat : Slice(i, begin)

\* A trade of an answer is one of the trades.
LEMMA AnswerIsOfTrades ==
  ASSUME Answered, NEW i \in Gemini!Requests, NEW begin \in Nat, Slice(i, begin),
         NEW k \in 1 .. Len(answer[i])
  PROVE  /\ begin + k - 1 \in 1 .. Len(trades) /\ answer[i][k] = trades[begin + k - 1]
         /\ answer[i][k] \in Nat /\ answer[i][k] <= clock
<1>1. begin \in Nat \ {0} /\ begin + Len(answer[i]) <= Len(trades) + 1
  BY DEF Slice
<1>2. Len(answer[i]) \in Nat /\ Len(trades) \in Nat
  BY DEF Answered, GeminiInv
<1>3. begin + k - 1 \in 1 .. Len(trades)
  BY <1>1, <1>2
<1>4. answer[i][k] = trades[begin + k - 1]
  BY DEF Slice
<1>5. trades[begin + k - 1] \in Nat /\ trades[begin + k - 1] <= clock
  <2>1. trades \in Seq(Nat) /\ \A x \in 1 .. Len(trades) : trades[x] <= clock
    BY DEF Answered, GeminiInv
  <2> QED  BY <1>3, <2>1
<1> QED  BY <1>3, <1>4, <1>5

\* An answer has each trade from its first place to its last one.
LEMMA TradeIsInAnswer ==
  ASSUME Answered, NEW i \in Gemini!Requests, NEW begin \in Nat, Slice(i, begin),
         NEW x \in 1 .. Len(trades), begin <= x, x < begin + Len(answer[i])
  PROVE  x - begin + 1 \in 1 .. Len(answer[i]) /\ answer[i][x - begin + 1] = trades[x]
<1>1. begin \in Nat \ {0} /\ Len(answer[i]) \in Nat
  BY DEF Answered, Slice
<1>2. x - begin + 1 \in 1 .. Len(answer[i]) /\ begin + (x - begin + 1) - 1 = x
  BY <1>1
<1>3. answer[i][x - begin + 1] = trades[begin + (x - begin + 1) - 1]
  BY <1>2 DEF Slice
<1> QED  BY <1>2, <1>3

\* Trades that are not before a request's time are not before its answer.
LEMMA AnswerBegins ==
  ASSUME Answered, NEW i \in Gemini!Requests, NEW begin \in Nat, Slice(i, begin),
         NEW x \in 1 .. Len(trades), trades[x] >= Gemini!From(i)
  PROVE  begin <= x
<1>1. begin \in Nat \ {0} /\ \A k \in 1 .. begin - 1 : trades[k] < Gemini!From(i)
  BY DEF Slice
<1>2. trades[x] \in Int /\ Gemini!From(i) \in Int
  <2>1. i \in Nat
    BY GeminiNumbers
  <2>2. trades[x] \in Nat
    BY DEF Answered, GeminiInv
  <2>3. \A j \in Nat : Gemini!From(j) \in Int
    BY GeminiNumbers
  <2> QED  BY <2>1, <2>2, <2>3
<1>3. x \notin 1 .. begin - 1
  BY <1>1, <1>2
<1> QED  BY <1>1, <1>3

\* Trades are in the order of their minutes.
LEMMA OrderOfTrades ==
  ASSUME GeminiInv
  PROVE  /\ Len(trades) \in Nat /\ DOMAIN trades = 1 .. Len(trades)
         /\ \A x \in 1 .. Len(trades) : trades[x] \in Nat /\ Gemini!Minute(trades[x]) \in Nat
         /\ \A x, y \in 1 .. Len(trades) :
              x <= y => /\ trades[x] <= trades[y]
                        /\ Gemini!Minute(trades[x]) <= Gemini!Minute(trades[y])
<1>1. trades \in Seq(Nat) /\ \A j, k \in 1 .. Len(trades) : j <= k => trades[j] <= trades[k]
  BY DEF GeminiInv
<1>2. \A x \in 1 .. Len(trades) : trades[x] \in Nat
  BY <1>1
<1>3. ASSUME NEW x \in 1 .. Len(trades), NEW y \in 1 .. Len(trades), x <= y
      PROVE  /\ trades[x] <= trades[y]
             /\ Gemini!Minute(trades[x]) <= Gemini!Minute(trades[y])
  <2>1. trades[x] <= trades[y] /\ trades[x] \in Nat /\ trades[y] \in Nat
    BY <1>1, <1>2, <1>3
  <2> QED  BY <2>1, GeminiMinutes
<1>4. \A x \in 1 .. Len(trades) : Gemini!Minute(trades[x]) \in Nat
  BY <1>2, GeminiMinutes
<1> QED  BY <1>1, <1>2, <1>3, <1>4

LEMMA AnswersAreConsecutive ==
  ASSUME Answered
  PROVE  Consecutive(answer)
<1> SUFFICES ASSUME NEW j \in DOMAIN answer, NEW i \in 1 .. j - 1, NEW m \in Nat, NEW p \in Nat,
                    HasMinute(answer[j], m), HasMinute(answer[i], p), m < p
             PROVE  HasMinute(answer[i], m)
  BY DEF Consecutive
<1>1. /\ j \in Gemini!Requests /\ i \in Gemini!Requests /\ i \in Nat /\ j \in Nat /\ i <= j
  <2>1. j \in Gemini!Requests
    BY DEF Answered, GeminiInv
  <2>2. \A x \in Gemini!Requests : x \in Nat /\ \A y \in 1 .. x : y \in Gemini!Requests
    BY GeminiNumbers
  <2>3. j \in Nat /\ i \in 1 .. j
    BY <2>1, <2>2
  <2> QED  BY <2>1, <2>2, <2>3
<1>2. PICK a \in Nat : Slice(i, a)
  BY <1>1 DEF Answered
<1>3. PICK b \in Nat : Slice(j, b)
  BY <1>1 DEF Answered
<1>4. PICK s \in 1 .. Len(answer[j]) : Gemini!Minute(answer[j][s]) = m
  BY DEF HasMinute
<1>5. PICK r \in 1 .. Len(answer[i]) : Gemini!Minute(answer[i][r]) = p
  BY DEF HasMinute
<1> DEFINE x == b + s - 1
           y == a + r - 1
<1>6. x \in 1 .. Len(trades) /\ answer[j][s] = trades[x]
  BY <1>1, <1>3, AnswerIsOfTrades
<1>7. y \in 1 .. Len(trades) /\ answer[i][r] = trades[y]
  BY <1>1, <1>2, AnswerIsOfTrades
<1> HIDE DEF x, y
<1>8. x < y
  <2>1. ~(y <= x)
    BY <1>4, <1>5, <1>6, <1>7, OrderOfTrades DEF Answered
  <2> QED  BY <1>6, <1>7, <2>1
<1>9. a <= x
  <2>1. answer[j][s] >= Gemini!From(j)
    BY <1>3 DEF Slice
  <2>2. /\ Gemini!From(j) \in Int /\ Gemini!From(i) \in Int /\ trades[x] \in Nat
        /\ Gemini!From(i) <= Gemini!From(j)
    BY <1>1, <1>6, GeminiNumbers, OrderOfTrades DEF Answered
  <2>3. trades[x] >= Gemini!From(i)
    BY <1>6, <2>1, <2>2
  <2> QED  BY <1>1, <1>2, <1>6, <2>3, AnswerBegins
<1>10. x < a + Len(answer[i])
  <2>1. Len(answer[i]) \in Nat
    BY <1>1 DEF Answered
  <2> QED  BY <1>6, <1>7, <1>8, <2>1 DEF y
<1>11. x - a + 1 \in 1 .. Len(answer[i]) /\ answer[i][x - a + 1] = trades[x]
  BY <1>1, <1>2, <1>6, <1>9, <1>10, TradeIsInAnswer
<1> QED  BY <1>4, <1>6, <1>11 DEF HasMinute

\* If an answer begins before a minute's trades and has one of a later minute,
\* or ends after them, it has all of them.
HasAllOf(i, begin, m) ==
  \A x \in 1 .. Len(trades) :
    Gemini!Minute(trades[x]) = m => begin <= x /\ x < begin + Len(answer[i])

\* The volume of the minute in the answer is that of the trades.
LEMMA WholeVolume ==
  ASSUME Answered, NEW i \in Gemini!Requests, NEW begin \in Nat, Slice(i, begin),
         NEW m \in Nat, HasAllOf(i, begin, m)
  PROVE  Gemini!Volume(answer[i], m) = Gemini!Volume(trades, m)
<1> DEFINE S == {k \in DOMAIN answer[i] : Gemini!Minute(answer[i][k]) = m}
           T == {k \in DOMAIN trades : Gemini!Minute(trades[k]) = m}
           f == [k \in S |-> begin + k - 1]
<1>1. /\ begin \in Nat \ {0} /\ Len(answer[i]) \in Nat
      /\ DOMAIN answer[i] = 1 .. Len(answer[i]) /\ DOMAIN trades = 1 .. Len(trades)
      /\ Len(trades) \in Nat
  <2>1. answer[i] \in Seq(Nat) /\ trades \in Seq(Nat)
    BY DEF Answered, GeminiInv
  <2> QED  BY <2>1 DEF Slice
<1>2. \A k \in S : /\ k \in 1 .. Len(answer[i]) /\ begin + k - 1 \in T
  <2> SUFFICES ASSUME NEW k \in S PROVE k \in 1 .. Len(answer[i]) /\ begin + k - 1 \in T
    OBVIOUS
  <2>1. k \in 1 .. Len(answer[i]) /\ Gemini!Minute(answer[i][k]) = m
    BY <1>1
  <2>2. begin + k - 1 \in 1 .. Len(trades) /\ answer[i][k] = trades[begin + k - 1]
    BY <2>1, AnswerIsOfTrades
  <2> QED  BY <1>1, <2>1, <2>2
<1>3. \A x \in T : x - begin + 1 \in S /\ begin + (x - begin + 1) - 1 = x
  <2> SUFFICES ASSUME NEW x \in T
               PROVE  x - begin + 1 \in S /\ begin + (x - begin + 1) - 1 = x
    OBVIOUS
  <2>1. x \in 1 .. Len(trades) /\ Gemini!Minute(trades[x]) = m
    BY <1>1
  <2>2. begin <= x /\ x < begin + Len(answer[i])
    BY <2>1 DEF HasAllOf
  <2>3. x - begin + 1 \in 1 .. Len(answer[i]) /\ answer[i][x - begin + 1] = trades[x]
    BY <2>1, <2>2, TradeIsInAnswer
  <2> QED  BY <1>1, <2>1, <2>3
<1>4. S \in SUBSET (1 .. Len(answer[i]))
  BY <1>1
<1>5. Gemini!Volume(answer[i], m) = Cardinality(S) /\ Gemini!Volume(trades, m) = Cardinality(T)
  BY DEF Gemini!Volume, Gemini!Cardinality, Cardinality
<1> HIDE DEF S, T
<1>6. f \in Bijection(S, T)
  <2>1. f \in [S -> T]
    BY <1>2
  <2>2. \A j, k \in S : f[j] = f[k] => j = k
    BY <1>1, <1>2
  <2>3. \A x \in T : \E k \in S : f[k] = x
    BY <1>3
  <2> HIDE DEF f
  <2> QED  BY <2>1, <2>2, <2>3 DEF Bijection, Injection, IsInjective, Surjection
<1>7. IsFiniteSet(S)
  <2>1. IsFiniteSet(1 .. Len(answer[i]))
    <3>1. \A n \in Nat : IsFiniteSet(1 .. n)
      BY FS_Interval
    <3> QED  BY <1>1, <3>1
  <2> QED  BY <1>4, <2>1, FS_Subset
<1>8. ExistsBijection(S, T)
  BY <1>6 DEF ExistsBijection
<1>9. Cardinality(T) = Cardinality(S)
  BY <1>7, <1>8, FS_Bijection
<1> QED  BY <1>5, <1>9

\* An answer has all of a minute if it begins before it, and was cut off in a
\* later one or given in one.
LEMMA HasAll ==
  ASSUME Answered, NEW i \in Gemini!Requests, NEW begin \in Nat, Slice(i, begin),
         NEW m \in Nat, NEW first \in 1 .. Len(trades),
         \A x \in 1 .. Len(trades) : Gemini!Minute(trades[x]) = m => first <= x,
         trades[first] >= Gemini!From(i),
         Gemini!Full(i) => Gemini!Minute(answer[i][Limit]) > m,
         ~Gemini!Full(i) => Gemini!Minute(askedAt[i]) > m
  PROVE  HasAllOf(i, begin, m)
<1> SUFFICES ASSUME NEW x \in 1 .. Len(trades), Gemini!Minute(trades[x]) = m
             PROVE  begin <= x /\ x < begin + Len(answer[i])
  BY DEF HasAllOf
<1>1. begin <= first /\ first <= x
  BY AnswerBegins
<1>2. begin <= x
  BY <1>1
<1>3. /\ Len(trades) \in Nat /\ trades[x] \in Nat
      /\ begin \in Nat \ {0} /\ Len(answer[i]) \in Nat /\ Limit \in Nat \ {0}
  <2>1. begin \in Nat \ {0} /\ Len(answer[i]) \in Nat /\ GeminiInv
    BY DEF Answered, Slice
  <2> QED  BY <2>1, OrderOfTrades, GeminiNumbers
<1>4. CASE Gemini!Full(i)
  <2>1. Len(answer[i]) = Limit /\ Limit \in 1 .. Len(answer[i])
    BY <1>3, <1>4 DEF Gemini!Full
  <2> DEFINE e == begin + Limit - 1
  <2>2. e \in 1 .. Len(trades) /\ answer[i][Limit] = trades[e]
    BY <2>1, AnswerIsOfTrades
  <2>3. Gemini!Minute(trades[e]) \in Nat /\ Gemini!Minute(trades[e]) > m
    BY <1>4, <2>2, OrderOfTrades DEF Answered
  <2> HIDE DEF e
  <2>4. ~(e <= x)
    <3> SUFFICES ASSUME e <= x PROVE FALSE
      OBVIOUS
    <3>1. Gemini!Minute(trades[e]) <= Gemini!Minute(trades[x])
      BY <2>2, OrderOfTrades DEF Answered
    <3> QED  BY <2>3, <3>1
  <2>5. x < begin + Limit - 1
    BY <1>3, <2>2, <2>4 DEF e
  <2> QED  BY <1>2, <1>3, <2>1, <2>5
<1>5. CASE ~Gemini!Full(i)
  <2>1. \A k \in begin + Len(answer[i]) .. Len(trades) : trades[k] >= askedAt[i]
    BY <1>5 DEF Slice
  <2>2. askedAt[i] \in Nat
    BY DEF Answered, GeminiInv
  <2>3. ~(x >= begin + Len(answer[i]))
    <3> SUFFICES ASSUME x >= begin + Len(answer[i]) PROVE FALSE
      OBVIOUS
    <3>1. x \in begin + Len(answer[i]) .. Len(trades)
      BY <1>3
    <3>2. askedAt[i] <= trades[x]
      BY <1>3, <2>1, <2>2, <3>1
    <3>3. Gemini!Minute(askedAt[i]) <= Gemini!Minute(trades[x]) /\ Gemini!Minute(askedAt[i]) \in Nat
      BY <1>3, <2>2, <3>2, GeminiMinutes
    <3> QED  BY <1>5, <3>3
  <2> QED  BY <1>2, <1>3, <2>3
<1> QED  BY <1>4, <1>5

\* The last request whose time is not after a trade.
LEMMA LastRequest ==
  ASSUME NEW t \in Nat
  PROVE  \E i \in Gemini!Requests :
           /\ Gemini!From(i) <= t
           /\ i + 1 \in Gemini!Requests => Gemini!From(i + 1) > t
<1> DEFINE n == Gemini!Periods - 1
           S == {i \in 1 .. n : i = n \/ Gemini!From(i + 1) > t}
<1>1. n \in Nat \ {0} /\ Gemini!Requests = 1 .. n
  BY GeminiNumbers
<1>2. Gemini!From(1) = 0 /\ \A i \in Nat : Gemini!From(i) \in Int
  BY GeminiNumbers
<1> HIDE DEF n
<1>3. S \in SUBSET Nat /\ n \in S
  BY <1>1
<1> HIDE DEF S
<1>4. PICK i \in S : \A j \in S : i <= j
  BY <1>3, Least
<1> USE DEF S
<1>5. i \in 1 .. n /\ (i = n \/ Gemini!From(i + 1) > t)
  BY <1>4
<1>6. Gemini!From(i) <= t
  <2>1. CASE i = 1
    BY <1>2, <2>1
  <2>2. CASE i # 1
    <3>1. i - 1 \in 1 .. n /\ i - 1 # n /\ (i - 1) + 1 = i /\ ~(i <= i - 1)
      BY <1>1, <1>5, <2>2
    <3>2. i - 1 \notin S
      <4> HIDE DEF S
      <4> QED  BY <1>4, <3>1
    <3>3. ~(Gemini!From(i) > t)
      BY <3>1, <3>2
    <3>4. Gemini!From(i) \in Int
      BY <1>2, <1>5
    <3> QED  BY <3>3, <3>4
  <2> QED  BY <2>1, <2>2
<1>7. i + 1 \in 1 .. n => i # n
  BY <1>1, <1>5
<1> QED  BY <1>1, <1>5, <1>6, <1>7

LEMMA HistoryIsWholeHolds ==
  ASSUME GeminiInv
  PROVE  Gemini!HistoryIsWhole
<1> SUFFICES ASSUME returned # None PROVE Gemini!HistoryIsWhole
  BY DEF Gemini!HistoryIsWhole
<1> DEFINE n == Gemini!Periods - 1
<1>1. n \in Nat \ {0} /\ Gemini!Requests = 1 .. n /\ Limit \in Nat \ {0}
  BY GeminiNumbers
<1> HIDE DEF n
<1>2. Answered
  <2> SUFFICES ASSUME NEW i \in Gemini!Requests
               PROVE  answer[i] \in Seq(Nat) /\ \E begin \in Nat : Slice(i, begin)
    BY DEF Answered
  <2>1. answer[i] \in Seq(Nat) /\ \E begin \in 1 .. Len(trades) + 1 : Slice(i, begin)
    BY DEF GeminiInv
  <2> QED  BY <2>1
<1>3. /\ answer \in [1 .. n -> Seq(Nat)] /\ returned = Together(answer) /\ clock \in Nat
  <2>1. answer \in [1 .. n -> {None} \cup Seq(Nat)] /\ \A i \in 1 .. n : answer[i] \in Seq(Nat)
    BY <1>1, <1>2 DEF Answered, GeminiInv
  <2> QED
    BY <2>1 DEF GeminiInv
<1>4. \A i \in 1 .. n : \A k \in 1 .. Len(answer[i]) : answer[i][k] <= clock
  <2> SUFFICES ASSUME NEW i \in 1 .. n, NEW k \in 1 .. Len(answer[i])
               PROVE  answer[i][k] <= clock
    OBVIOUS
  <2>1. PICK begin \in Nat : Slice(i, begin)
    BY <1>1, <1>2 DEF Answered
  <2> QED  BY <1>1, <1>2, <2>1, AnswerIsOfTrades
<1>5. BarsOf(returned, n, answer)
  BY <1>1, <1>2, <1>3, <1>4, AnswersAreConsecutive, TogetherIs
<1>6. returned \in Seq(Bar) /\ Sorted(returned) /\ DOMAIN returned = 1 .. Len(returned)
  BY <1>5 DEF BarsOf
<1>7. \A j, k \in DOMAIN returned : j < k => returned[j].minute < returned[k].minute
  BY <1>6 DEF Sorted
<1>8. ASSUME \A i \in Gemini!Requests : Gemini!Reached(i),
             NEW z \in DOMAIN trades, NEW m, m = Gemini!Minute(trades[z]),
             \A i \in Gemini!Requests : Gemini!Full(i) => Gemini!Minute(Gemini!Last(answer[i])) # m,
             \A i \in Gemini!Requests : ~(Gemini!Minute(askedAt[i]) <= m)
      PROVE  \E k \in DOMAIN returned :
               returned[k].minute = m /\ returned[k].volume = Gemini!Volume(trades, m)
  <2>1. z \in 1 .. Len(trades) /\ m \in Nat
    BY <1>8, OrderOfTrades
  <2> DEFINE S == {x \in 1 .. Len(trades) : Gemini!Minute(trades[x]) = m}
  <2>2. PICK first \in S : \A x \in S : first <= x
    <3>1. S \in SUBSET Nat /\ z \in S
      BY <1>8, <2>1
    <3> HIDE DEF S
    <3> QED  BY <3>1, Least
  <2>3. /\ first \in 1 .. Len(trades) /\ Gemini!Minute(trades[first]) = m
        /\ trades[first] \in Nat
        /\ \A x \in 1 .. Len(trades) : Gemini!Minute(trades[x]) = m => first <= x
    BY <2>2, OrderOfTrades
  <2> HIDE DEF S
  <2>4. \A i \in Gemini!Requests : ~Gemini!Full(i) => Gemini!Minute(askedAt[i]) > m
    <3> SUFFICES ASSUME NEW i \in Gemini!Requests PROVE Gemini!Minute(askedAt[i]) > m
      OBVIOUS
    <3>1. askedAt[i] \in Nat
      BY DEF GeminiInv
    <3>2. Gemini!Minute(askedAt[i]) \in Nat /\ ~(Gemini!Minute(askedAt[i]) <= m)
      BY <1>8, <3>1, GeminiMinutes
    <3> QED  BY <2>1, <3>2
  <2>5. ASSUME NEW i \in Gemini!Requests, Gemini!Full(i)
        PROVE  /\ Limit \in 1 .. Len(answer[i]) /\ Gemini!Last(answer[i]) = answer[i][Limit]
               /\ answer[i][Limit] \in Nat
               /\ Gemini!Minute(answer[i][Limit]) \in Nat
               /\ Gemini!Minute(answer[i][Limit]) # m
    <3>1. answer[i] \in Seq(Nat) /\ Len(answer[i]) = Limit /\ Limit \in 1 .. Len(answer[i])
      BY <1>1, <1>2, <2>5 DEF Answered, Gemini!Full
    <3>2. Gemini!Last(answer[i]) = answer[i][Limit] /\ answer[i][Limit] \in Nat
      BY <3>1 DEF Gemini!Last
    <3>3. Gemini!Minute(answer[i][Limit]) # m
      BY <1>8, <2>5, <3>2
    <3> QED  BY <3>1, <3>2, <3>3, GeminiMinutes
  <2>6. PICK i \in Gemini!Requests :
          /\ Gemini!From(i) <= trades[first]
          /\ i + 1 \in Gemini!Requests => Gemini!From(i + 1) > trades[first]
    BY <2>3, LastRequest
  <2>7. i \in Nat /\ i + 1 \in Nat /\ Gemini!From(i) \in Int /\ Gemini!From(i + 1) \in Int
    BY <1>1, GeminiNumbers
  <2>8. PICK a \in Nat : Slice(i, a)
    BY <1>2 DEF Answered
  <2>9. Gemini!Full(i) => Gemini!Minute(answer[i][Limit]) > m
    <3> SUFFICES ASSUME Gemini!Full(i) PROVE Gemini!Minute(answer[i][Limit]) > m
      OBVIOUS
    <3>1. i + 1 \in Gemini!Requests /\ answer[i][Limit] >= Gemini!From(i + 1)
      BY <1>8, <2>5 DEF Gemini!Reached
    <3>2. trades[first] <= answer[i][Limit]
      <4>1. /\ Gemini!From(i + 1) > trades[first] /\ Gemini!From(i + 1) \in Int
            /\ trades[first] \in Int /\ answer[i][Limit] \in Int
        BY <2>3, <2>5, <2>6, <2>7, <3>1
      <4> QED  BY <3>1, <4>1
    <3>3. m <= Gemini!Minute(answer[i][Limit])
      BY <2>3, <2>5, <3>2, GeminiMinutes
    <3> QED  BY <2>1, <2>5, <3>3
  <2>10. HasAllOf(i, a, m)
    <3>1. trades[first] >= Gemini!From(i)
      BY <2>3, <2>6, <2>7
    <3> QED  BY <1>2, <2>1, <2>3, <2>4, <2>8, <2>9, <3>1, HasAll
  <2>11. HasMinute(answer[i], m)
    <3>1. /\ first - a + 1 \in 1 .. Len(answer[i])
          /\ answer[i][first - a + 1] = trades[first]
      BY <1>2, <2>3, <2>8, <2>10, TradeIsInAnswer DEF HasAllOf
    <3> QED  BY <2>3, <3>1 DEF HasMinute
  <2>12. PICK k \in 1 .. Len(returned) : returned[k].minute = m
    BY <1>1, <1>5, <2>11 DEF BarsOf, HasBar
  <2>13. PICK j \in 1 .. n :
           FirstIn(answer, j, m) /\ returned[k].volume = Gemini!Volume(answer[j], m)
    BY <1>5, <2>12 DEF BarsOf
  <2>14. j \in Gemini!Requests /\ j \in Nat /\ j <= i
    <3>1. j \in Nat /\ i \in Nat /\ i \in 1 .. n
      BY <1>1
    <3>2. i \notin 1 .. j - 1
      BY <2>11, <2>13 DEF FirstIn
    <3> QED  BY <1>1, <3>1, <3>2
  <2>15. PICK b \in Nat : Slice(j, b)
    BY <1>2, <2>14 DEF Answered
  <2>16. trades[first] >= Gemini!From(j)
    <3>1. Gemini!From(j) \in Int /\ Gemini!From(j) <= Gemini!From(i)
      BY <2>7, <2>14, GeminiNumbers
    <3> QED  BY <2>3, <2>6, <2>7, <3>1
  <2>17. Gemini!Full(j) => Gemini!Minute(answer[j][Limit]) > m
    <3> SUFFICES ASSUME Gemini!Full(j) PROVE Gemini!Minute(answer[j][Limit]) > m
      OBVIOUS
    <3>1. PICK y \in 1 .. Len(answer[j]) : Gemini!Minute(answer[j][y]) = m
      BY <2>13 DEF FirstIn, HasMinute
    <3>2. /\ b + y - 1 \in 1 .. Len(trades) /\ answer[j][y] = trades[b + y - 1]
      BY <1>2, <2>14, <2>15, AnswerIsOfTrades
    <3>3. Limit \in 1 .. Len(answer[j]) /\ Gemini!Minute(answer[j][Limit]) \in Nat
          /\ Gemini!Minute(answer[j][Limit]) # m
      BY <2>5, <2>14
    <3>4. b + Limit - 1 \in 1 .. Len(trades) /\ answer[j][Limit] = trades[b + Limit - 1]
      BY <1>2, <2>14, <2>15, <3>3, AnswerIsOfTrades
    <3>5. b + y - 1 <= b + Limit - 1
      <4>1. Len(answer[j]) = Limit
        BY DEF Gemini!Full
      <4> QED  BY <1>1, <4>1
    <3>6. m <= Gemini!Minute(answer[j][Limit])
      BY <3>1, <3>2, <3>4, <3>5, OrderOfTrades
    <3> QED  BY <2>1, <3>3, <3>6
  <2>18. HasAllOf(j, b, m)
    BY <1>2, <2>1, <2>3, <2>4, <2>14, <2>15, <2>16, <2>17, HasAll
  <2>19. Gemini!Volume(answer[j], m) = Gemini!Volume(trades, m)
    BY <1>2, <2>1, <2>14, <2>15, <2>18, WholeVolume
  <2> QED  BY <1>6, <2>12, <2>13, <2>19
<1> QED  BY <1>7, <1>8 DEF Gemini!HistoryIsWhole

\* Gemini's bars are in order, a minute each, and a minute before all requests
\* were answered has the volume of its trades, unless an answer was cut off in it
\* or fell short of the next request's time: for any trades between the requests,
\* any limit of an answer, and any order of the answers.
THEOREM HistoryIsWholeAlways == Gemini!Spec => []Gemini!HistoryIsWhole
<1>1. GeminiInv => Gemini!HistoryIsWhole
  BY HistoryIsWholeHolds
<1> QED  BY <1>1, GeminiInitially, GeminiStep, PTL DEF Gemini!Spec

\* What Gemini gives a consumer, at once or as a stream, is what was traded but for
\* the gaps the code leaves.
THEOREM GeminiBarsAlways == MCSpec => []GeminiBars
<1> DEFINE Inv == /\ part = "gemini" => GeminiInv
                  /\ part = "stream" => StreamInv
<1>1. MCInit => Inv
  BY GeminiInitially, StreamInitially DEF MCInit
<1>2. Inv /\ [MCNext]_<<part, vars, gemini, calendar, miner, momentum, stream>> => Inv'
  <2> SUFFICES ASSUME Inv, [MCNext]_<<part, vars, gemini, calendar, miner, momentum, stream>>
               PROVE  Inv'
    OBVIOUS
  <2>1. UNCHANGED part
    BY DEF MCNext
  <2>2. ASSUME part = "gemini" PROVE GeminiInv'
    <3>1. [Gemini!Next]_(Gemini!vars)
      BY <2>2 DEF MCNext, gemini, Gemini!vars
    <3> QED  BY <2>2, <3>1, GeminiStep
  <2>3. ASSUME part = "stream" PROVE StreamInv'
    <3>1. [Streaming!Next]_(Streaming!vars)
      BY <2>3 DEF MCNext, stream, Streaming!vars
    <3> QED  BY <2>3, <3>1, StreamStep
  <2> QED  BY <2>1, <2>2, <2>3
<1>3. Inv => GeminiBars
  BY HistoryIsWholeHolds, RowsAreOfTrades DEF GeminiBars
<1> HIDE DEF Inv
<1> QED  BY <1>1, <1>2, <1>3, PTL DEF MCSpec

=============================================================================
