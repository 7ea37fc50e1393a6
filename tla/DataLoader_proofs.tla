-------------------------- MODULE DataLoader_proofs --------------------------
(***************************************************************************)
(* Proofs about the table of bars (DataLoader), for every calendar, every   *)
(* market, any number of reads and messages, with and without concurrency.  *)
(***************************************************************************)
EXTENDS DataLoader, FiniteSetTheorems, SequenceTheorems, WellFoundedInduction, TLAPS

(***************************************************************************)
(* Arithmetic of minutes and days.                                          *)
(***************************************************************************)

\* A quotient is where it should be.
LEMMA Quotient ==
  ASSUME NEW n \in Int, NEW len \in Nat \ {0}
  PROVE  /\ n \div len \in Int
         /\ len * (n \div len) <= n /\ n < len * (n \div len) + len
OBVIOUS

LEMMA Division ==
  ASSUME NEW n \in Nat, NEW len \in Nat \ {0}
  PROVE  /\ n = len * (n \div len) + (n % len)
         /\ n % len \in Int /\ 0 <= n % len /\ n % len < len
OBVIOUS

LEMMA QuotientGrows ==
  ASSUME NEW a \in Int, NEW b \in Int, NEW len \in Nat \ {0}, a <= b
  PROVE  a \div len <= b \div len
<1> DEFINE p == a \div len
           q == b \div len
<1>1. /\ p \in Int /\ q \in Int
      /\ len * p <= a /\ b < len * q + len
  BY Quotient
<1> HIDE DEF p, q
<1> SUFFICES ASSUME q + 1 <= p PROVE FALSE
  BY <1>1 DEF p, q
<1>2. len * (q + 1) <= len * p
  BY <1>1
<1>3. len * (q + 1) = len * q + len
  BY <1>1
<1> QED  BY <1>1, <1>2, <1>3

\* The quotient of a multiple, and of what is between two multiples.
LEMMA QuotientOfMultiple ==
  ASSUME NEW k \in Int, NEW len \in Nat \ {0}
  PROVE  (len * k) \div len = k
<1> DEFINE q == (len * k) \div len
<1>1. len * k \in Int
  OBVIOUS
<1>2. q \in Int /\ len * q <= len * k /\ len * k < len * q + len
  BY <1>1, Quotient
<1> HIDE DEF q
<1>3. ~(k < q)
  <2> SUFFICES ASSUME k + 1 <= q PROVE FALSE
    BY <1>2
  <2>1. len * (k + 1) <= len * q /\ len * (k + 1) = len * k + len
    BY <1>2
  <2> QED  BY <1>1, <1>2, <2>1
<1>4. ~(q < k)
  <2> SUFFICES ASSUME q + 1 <= k PROVE FALSE
    BY <1>2
  <2>1. len * (q + 1) <= len * k /\ len * (q + 1) = len * q + len
    BY <1>2
  <2> QED  BY <1>1, <1>2, <2>1
<1> QED  BY <1>2, <1>3, <1>4 DEF q

LEMMA DaysGrow ==
  ASSUME NEW a \in Int, NEW b \in Int
  PROVE  /\ Day(a) \in Int
         /\ a <= b => Day(a) <= Day(b)
         /\ Day(a) < Day(b) => a < b
<1>1. Day(a) \in Int /\ Day(b) \in Int
  BY SizesAssumption DEF Day
<1>2. a <= b => Day(a) <= Day(b)
  BY QuotientGrows, SizesAssumption DEF Day
<1>3. b <= a => Day(b) <= Day(a)
  BY QuotientGrows, SizesAssumption DEF Day
<1> QED  BY <1>1, <1>2, <1>3

LEMMA MinutesAreNumbers ==
  /\ Days * PerDay \in Nat \ {0} /\ Minutes \subseteq Nat
  /\ Minutes = 0 .. (Days * PerDay - 1) /\ IsFiniteSet(Minutes)
  /\ \A t \in Minutes : Day(t) \in Int
<1>1. Days * PerDay \in Nat \ {0}
  BY SizesAssumption
<1>2. Minutes \subseteq Nat /\ Minutes = 0 .. (Days * PerDay - 1)
  BY <1>1 DEF Minutes
<1>3. IsFiniteSet(Minutes)
  BY <1>1, <1>2, FS_Interval
<1> QED  BY <1>1, <1>2, <1>3, DaysGrow

(***************************************************************************)
(* The least and the greatest row, the nearest one, the n-th from the end.  *)
(***************************************************************************)
LEMMA Least ==
  ASSUME NEW S \in SUBSET Nat, S # {}
  PROVE  \E x \in S : \A y \in S : x <= y
<1>1. PICK x \in S : \A y \in S : ~(<<y, x>> \in OpToRel(<, Nat))
  BY NatLessThanWellFounded, WFMin, Zenon
<1>2. ASSUME NEW y \in S PROVE x <= y
  <2>1. ~(y < x)
    BY <1>1 DEF OpToRel
  <2> QED  BY <2>1
<1> QED  BY <1>2

LEMMA Greatest ==
  ASSUME NEW n \in Nat, NEW S \in SUBSET (0 .. n), S # {}
  PROVE  \E x \in S : \A y \in S : y <= x
<1> DEFINE T == {n - x : x \in S}
<1>1. T \in SUBSET Nat /\ T # {}
  <2>1. \A x \in S : n - x \in Nat
    OBVIOUS
  <2> QED  BY <2>1
<1>2. PICK z \in T : \A y \in T : z <= y
  BY <1>1, Least
<1>3. PICK x \in S : z = n - x
  BY <1>2
<1>4. ASSUME NEW y \in S PROVE y <= x
  BY <1>2, <1>3
<1> QED  BY <1>4

LEMMA EndsOfRows ==
  ASSUME NEW S \in SUBSET Minutes, S # {}
  PROVE  /\ Min(S) \in S /\ \A t \in S : Min(S) <= t
         /\ Max(S) \in S /\ \A t \in S : t <= Max(S)
<1>1. \E x \in S : \A y \in S : x <= y
  BY Least, MinutesAreNumbers
<1>2. \E x \in S : \A y \in S : y <= x
  <2>1. Days * PerDay - 1 \in Nat /\ S \in SUBSET (0 .. (Days * PerDay - 1))
    BY MinutesAreNumbers
  <2> QED  BY <2>1, Greatest
<1>3. \E x \in S : \A y \in S : x >= y
  BY <1>2, MinutesAreNumbers
<1>4. Min(S) \in S /\ \A t \in S : Min(S) <= t
  BY <1>1 DEF Min
<1>5. Max(S) \in S /\ \A t \in S : Max(S) >= t
  BY <1>3 DEF Max
<1> QED  BY <1>4, <1>5, MinutesAreNumbers

\* No row is nearer than the nearest, so that it is not beyond any row on its
\* side of the time asked for.
LEMMA NearestIsBetween ==
  ASSUME NEW tbl, Rows(tbl) \subseteq Minutes, NEW t \in Minutes, NEW r \in Rows(tbl)
  PROVE  /\ t <= r => Nearest(t, tbl) <= r
         /\ r <= t => r <= Nearest(t, tbl)
<1> DEFINE distance(x) == IF x < t THEN t - x ELSE x - t
           closer(x, o) == \/ distance(x) < distance(o)
                           \/ distance(x) = distance(o) /\ x > o
           D == {distance(x) : x \in Rows(tbl)}
<1>1. \A x \in Rows(tbl) : x \in Nat /\ distance(x) \in Nat
  BY MinutesAreNumbers
<1>2. D \in SUBSET Nat /\ D # {}
  BY <1>1
<1>3. PICK d \in D : \A e \in D : d <= e
  BY <1>2, Least
<1> DEFINE T == {x \in Rows(tbl) : distance(x) = d}
<1>4. T \in SUBSET Minutes /\ T # {}
  BY <1>3
<1>5. PICK x \in T : \A y \in T : y <= x
  BY <1>4, EndsOfRows
<1>6. ASSUME NEW o \in Rows(tbl) \ {x} PROVE closer(x, o)
  <2>1. distance(x) = d /\ d <= distance(o) /\ (distance(o) = d => o <= x)
    BY <1>3, <1>5
  <2>2. x \in Nat /\ o \in Nat /\ o # x /\ distance(x) \in Nat /\ distance(o) \in Nat
    BY <1>1, <1>5
  <2> HIDE DEF distance
  <2> QED  BY <2>1, <2>2
<1>7. \E y \in Rows(tbl) : \A o \in Rows(tbl) \ {y} : closer(y, o)
  BY <1>5, <1>6
<1> DEFINE near == Nearest(t, tbl)
<1>8. near \in Rows(tbl) /\ \A o \in Rows(tbl) \ {near} : closer(near, o)
  BY <1>7, Zenon DEF Nearest
<1> HIDE DEF near
<1>9. near = r \/ closer(near, r)
  BY <1>8
<1>10. near \in Nat /\ r \in Nat /\ t \in Nat
  BY <1>1, <1>8, MinutesAreNumbers
<1> QED  BY <1>9, <1>10 DEF near

\* The n-th row from the end is a row.
LEMMA RowFromEndIsRow ==
  ASSUME NEW tbl, Rows(tbl) \subseteq Minutes, NEW n \in 1 .. Cardinality(Rows(tbl))
  PROVE  RowFromEnd(n, tbl) \in Rows(tbl)
<1>1. IsFiniteSet(Rows(tbl)) /\ Cardinality(Rows(tbl)) \in Nat
  BY MinutesAreNumbers, FS_Subset, FS_CardinalityType
<1>2. ASSUME NEW r \in Rows(tbl)
      PROVE  From(r, tbl) \in Nat
  BY <1>1, FS_Subset, FS_CardinalityType DEF From
<1> DEFINE T == {r \in Rows(tbl) : n <= From(r, tbl)}
<1>3. T # {}
  <2>1. Rows(tbl) # {}
    BY <1>1, FS_EmptySet
  <2> DEFINE low == Min(Rows(tbl))
  <2>2. low \in Rows(tbl) /\ \A t \in Rows(tbl) : low <= t
    BY <2>1, EndsOfRows
  <2>3. {o \in Rows(tbl) : low <= o} = Rows(tbl)
    BY <2>2
  <2>4. low \in T
    BY <2>2, <2>3 DEF From
  <2> QED  BY <2>4
<1>4. PICK r \in T : \A y \in T : y <= r
  BY <1>3, EndsOfRows
<1> DEFINE later == {o \in Rows(tbl) : r <= o}
           rest == later \ {r}
<1>5. ~(n < From(r, tbl))
  <2> SUFFICES ASSUME n + 1 <= From(r, tbl) PROVE FALSE
    BY <1>2
  <2>1. IsFiniteSet(later) /\ r \in later /\ rest \in SUBSET Minutes
    BY <1>1, FS_Subset, MinutesAreNumbers
  <2>2. Cardinality(rest) = From(r, tbl) - 1 /\ IsFiniteSet(rest)
    BY <2>1, FS_RemoveElement DEF From
  <2>3. rest # {}
    BY <1>2, <2>2, FS_EmptySet
  <2>4. PICK next \in rest : \A y \in rest : next <= y
    <3>1. rest \in SUBSET Nat
      BY <2>1, MinutesAreNumbers
    <3> HIDE DEF rest
    <3> QED  BY <2>3, <3>1, Least
  <2>5. {o \in Rows(tbl) : next <= o} = rest
    BY <2>4, MinutesAreNumbers
  <2>6. next \in T
    BY <1>2, <2>2, <2>4, <2>5 DEF From
  <2> QED  BY <1>4, <2>4, <2>6, MinutesAreNumbers
<1>6. r \in Rows(tbl) /\ From(r, tbl) = n
  BY <1>2, <1>4, <1>5
<1> QED  BY <1>6, Zenon DEF RowFromEnd

(***************************************************************************)
(* The pieces of a range.                                                   *)
(***************************************************************************)

\* A piece, and the whole range, lie where their ends are.
Covers(s, t) == Day(s.start) <= Day(t) /\ Day(t) <= Day(s.stop)

LEMMA PointsOfRange ==
  ASSUME NEW len \in Nat, NEW n \in Nat \ {0}, NEW i \in 0 .. n
  PROVE  /\ (i * len) \div n \in 0 .. len
         /\ i = 0 => (i * len) \div n = 0
         /\ i = n => (i * len) \div n = len
         /\ i > 0 => ((i - 1) * len) \div n \in 0 .. ((i * len) \div n)
         /\ i > 0 /\ len > 0 => ((i - 1) * len) \div n < len
<1>1. ASSUME NEW k \in 0 .. n PROVE k * len \in Nat /\ k * len <= n * len
  OBVIOUS
<1>2. (n * len) \div n = len
  BY QuotientOfMultiple
<1>3. 0 \div n = 0
  OBVIOUS
<1>4. ASSUME NEW k \in 0 .. n PROVE (k * len) \div n \in 0 .. len
  <2>1. 0 \div n <= (k * len) \div n /\ (k * len) \div n <= (n * len) \div n
    BY <1>1, QuotientGrows
  <2>2. (k * len) \div n \in Int
    BY <1>1, Quotient
  <2> QED  BY <1>2, <1>3, <2>1, <2>2
<1>5. ASSUME i > 0 PROVE ((i - 1) * len) \div n \in 0 .. ((i * len) \div n)
  <2>1. i - 1 \in 0 .. n /\ (i - 1) * len = i * len - len
    BY <1>5
  <2>2. ((i - 1) * len) \div n <= (i * len) \div n
    BY <1>1, <2>1, QuotientGrows
  <2> QED  BY <1>4, <2>1, <2>2
<1>6. ASSUME i > 0, len > 0 PROVE ((i - 1) * len) \div n < len
  <2> DEFINE q == ((i - 1) * len) \div n
  <2>1. i - 1 \in 0 .. n /\ (i - 1) * len \in Int
    BY <1>6
  <2>2. q \in Int /\ n * q <= (i - 1) * len /\ q \in 0 .. len
    BY <1>4, <2>1, Quotient
  <2>3. (i - 1) * len <= (n - 1) * len /\ (n - 1) * len = n * len - len
    BY <1>6
  <2> HIDE DEF q
  <2>4. q # len
    BY <1>6, <2>1, <2>2, <2>3
  <2> QED  BY <2>2, <2>4 DEF q
<1> QED  BY <1>2, <1>3, <1>4, <1>5, <1>6

LEMMA TradingDaysCounted ==
  ASSUME NEW s
  PROVE  /\ NumTradingDays(s) \in Nat
         /\ \A d \in TradingDays :
              (d * PerDay) + (s.start % PerDay) \in s.start .. s.stop
                => NumTradingDays(s) > 0
<1> DEFINE counted == {d \in TradingDays :
              (d * PerDay) + (s.start % PerDay) \in s.start .. s.stop}
<1>1. IsFiniteSet(0 .. (Days - 1))
  BY SizesAssumption, FS_Interval
<1>2. counted \in SUBSET (0 .. (Days - 1))
  BY TradingDaysAssumption
<1>3. IsFiniteSet(counted)
  BY <1>1, <1>2, FS_Subset, Zenon
<1>4. Cardinality(counted) \in Nat /\ (Cardinality(counted) = 0 <=> counted = {})
  BY <1>3, FS_CardinalityType, FS_EmptySet
<1>5. NumTradingDays(s) = Cardinality(counted)
  BY DEF NumTradingDays
<1>6. ASSUME NEW d \in TradingDays,
             (d * PerDay) + (s.start % PerDay) \in s.start .. s.stop
      PROVE  d \in counted
  BY <1>6
<1> HIDE DEF counted
<1> QED  BY <1>4, <1>5, <1>6

\* A range with an opening day it begins on, or passes, has pieces to load.
LEMMA RangeHasOpening ==
  ASSUME NEW s \in Slices, NEW t \in Minutes, Day(t) \in TradingDays,
         Day(s.start) <= Day(t),
         Day(t) = Day(s.start) \/ Day(t) < Day(s.stop)
  PROVE  NumTradingDays(s) > 0
<1> DEFINE d == Day(t)
           k == Day(s.start)
           e == Day(s.stop)
           time == s.start % PerDay
<1>1. /\ s.start \in Nat /\ s.stop \in Nat /\ s.start <= s.stop
      /\ PerDay \in Nat \ {0}
  BY MinutesAreNumbers, SizesAssumption DEF Slices
<1>2. /\ d \in Int /\ k \in Int /\ e \in Int /\ time \in Int
      /\ s.start = PerDay * k + time
      /\ PerDay * e <= s.stop /\ 0 <= time /\ time < PerDay
  <2>1. d \in Int
    BY MinutesAreNumbers
  <2>2. k \in Int /\ e \in Int /\ PerDay * e <= s.stop
    BY <1>1, Quotient DEF Day
  <2> QED  BY <1>1, <2>1, <2>2, Division DEF Day
<1>3. k <= d /\ (d = k \/ d + 1 <= e)
  BY <1>2
<1> HIDE DEF d, k, e, time
<1>4. d * PerDay + time >= s.start
  <2>1. PerDay * k <= PerDay * d /\ d * PerDay = PerDay * d
    BY <1>1, <1>2, <1>3
  <2> QED  BY <1>1, <1>2, <2>1
<1>5. d * PerDay + time <= s.stop
  <2>1. CASE d = k
    <3>1. d * PerDay = PerDay * k
      BY <1>1, <1>2, <2>1
    <3> QED  BY <1>1, <1>2, <3>1
  <2>2. CASE d + 1 <= e
    <3>1. PerDay * (d + 1) <= PerDay * e /\ PerDay * (d + 1) = d * PerDay + PerDay
      BY <1>1, <1>2, <2>2
    <3>2. d * PerDay \in Int /\ PerDay * e \in Int
      BY <1>1, <1>2
    <3> QED  BY <1>1, <1>2, <3>1, <3>2
  <2> QED  BY <1>3, <2>1, <2>2
<1>6. d * PerDay + time \in s.start .. s.stop
  BY <1>1, <1>2, <1>4, <1>5
<1> QED  BY <1>6, TradingDaysCounted DEF d, time

\* The pieces lie in their range, begin before its end, and leave none of its
\* days out.
LEMMA PiecesOfRange ==
  ASSUME NEW s \in Slices
  PROVE  /\ \A p \in Ranges(s) :
              /\ p \in Slices /\ s.start <= p.start /\ p.stop <= s.stop
              /\ p.start < s.stop \/ p.start = s.start
         /\ NumTradingDays(s) = 0 => Ranges(s) = {}
         /\ NumTradingDays(s) > 0 =>
              \A t \in Int : Covers(s, t) => \E p \in Ranges(s) : Covers(p, t)
<1> DEFINE points == NumTradingDays(s) * PerDay
           n == (points + PointsPerLoad - 1) \div PointsPerLoad
           len == s.stop - s.start
           point(i) == s.start + (i * len) \div n
<1>1. /\ s.start \in Minutes /\ s.stop \in 0 .. Days * PerDay /\ s.start <= s.stop
      /\ len \in Nat /\ s.start \in Nat /\ s.stop \in Nat
      /\ NumTradingDays(s) \in Nat /\ points \in Nat
      /\ PerDay \in Nat \ {0} /\ PointsPerLoad \in Nat \ {0}
  BY MinutesAreNumbers, SizesAssumption, TradingDaysCounted DEF Slices
<1>2. Ranges(s) = {[start |-> point(i - 1), stop |-> point(i)] : i \in 1 .. n}
  BY DEF Ranges
<1>3. n \in Nat /\ (points = 0 => n = 0) /\ (points > 0 => n > 0)
  <2>1. points + PointsPerLoad - 1 \in Nat
    BY <1>1
  <2> HIDE DEF points
  <2>2. /\ n \in Int
        /\ PointsPerLoad * n <= points + PointsPerLoad - 1
        /\ points + PointsPerLoad - 1 < PointsPerLoad * n + PointsPerLoad
    BY <1>1, <2>1, Quotient
  <2> HIDE DEF n
  <2>3. n >= 0
    <3> SUFFICES ASSUME n <= -1 PROVE FALSE
      BY <2>2
    <3>1. PointsPerLoad * n <= PointsPerLoad * (-1)
      BY <1>1, <2>2
    <3> QED  BY <1>1, <2>1, <2>2, <3>1
  <2>4. n >= 1 => PointsPerLoad * n >= PointsPerLoad
    BY <1>1, <2>2
  <2>5. n = 0 => PointsPerLoad * n = 0
    BY <1>1
  <2> QED  BY <1>1, <2>1, <2>2, <2>3, <2>4, <2>5
<1>4. points = 0 <=> NumTradingDays(s) = 0
  BY <1>1
<1> HIDE DEF points, n, len
<1>5. ASSUME NEW i \in 1 .. n
      PROVE  /\ point(i - 1) \in Nat /\ point(i) \in Nat
             /\ s.start <= point(i - 1) /\ point(i - 1) <= point(i)
             /\ point(i) <= s.stop
             /\ point(i - 1) < s.stop \/ point(i - 1) = s.start
  <2>1. n \in Nat \ {0} /\ i \in 0 .. n /\ i > 0
    BY <1>3
  <2>2. /\ (i * len) \div n \in 0 .. len
        /\ ((i - 1) * len) \div n \in 0 .. ((i * len) \div n)
        /\ len > 0 => ((i - 1) * len) \div n < len
    BY <1>1, <2>1, PointsOfRange
  <2>3. s.stop = s.start + len
    BY <1>1 DEF len
  <2> QED  BY <1>1, <2>2, <2>3
<1>6. ASSUME NEW p \in Ranges(s)
      PROVE  /\ p \in Slices /\ s.start <= p.start /\ p.stop <= s.stop
             /\ p.start < s.stop \/ p.start = s.start
  <2>1. PICK i \in 1 .. n : p = [start |-> point(i - 1), stop |-> point(i)]
    BY <1>2
  <2>2. p.start \in Nat /\ p.stop \in Nat /\ p.start <= p.stop
        /\ s.start <= p.start /\ p.stop <= s.stop
        /\ (p.start < s.stop \/ p.start = s.start)
    BY <1>5, <2>1
  <2>3. p.start \in Minutes /\ p.stop \in 0 .. Days * PerDay
    BY <1>1, <2>2, MinutesAreNumbers
  <2> QED  BY <2>1, <2>2, <2>3 DEF Slices
<1>7. NumTradingDays(s) = 0 => Ranges(s) = {}
  BY <1>2, <1>3, <1>4
<1>8. ASSUME NumTradingDays(s) > 0, NEW t \in Int, Covers(s, t)
      PROVE  \E p \in Ranges(s) : Covers(p, t)
  <2>1. n \in Nat \ {0}
    BY <1>1, <1>3, <1>4, <1>8
  <2>2. point(0) = s.start /\ point(n) = s.stop
    <3>1. (0 * len) \div n = 0 /\ (n * len) \div n = len
      <4>1. 0 \in 0 .. n /\ n \in 0 .. n /\ len \in Nat
        BY <1>1, <2>1
      <4> QED  BY <2>1, <4>1, PointsOfRange
    <3> QED  BY <1>1, <3>1 DEF len
  <2> DEFINE after == {i \in 1 .. n : Day(t) <= Day(point(i))}
  <2>3. n \in after /\ after \in SUBSET Nat
    BY <1>8, <2>1, <2>2 DEF Covers
  <2>4. PICK i \in after : \A j \in after : i <= j
    BY <2>3, Least
  <2>5. Day(point(i - 1)) <= Day(t)
    <3>1. CASE i = 1
      BY <1>8, <2>2, <3>1 DEF Covers
    <3>2. CASE i # 1
      <4>1. i - 1 \in 1 .. n /\ i - 1 \notin after
        BY <2>1, <2>4, <3>2
      <4>2. Day(t) \in Int /\ Day(point(i - 1)) \in Int
        BY <1>5, <4>1, DaysGrow
      <4> QED  BY <4>1, <4>2
    <3> QED  BY <3>1, <3>2
  <2> DEFINE p == [start |-> point(i - 1), stop |-> point(i)]
  <2>6. p \in Ranges(s) /\ Covers(p, t)
    BY <1>2, <2>4, <2>5 DEF Covers
  <2> QED  BY <2>6
<1> QED  BY <1>6, <1>7, <1>8

(***************************************************************************)
(* Tables: what is answered, merged and written is one.                     *)
(***************************************************************************)
LEMMA RowsOfTable ==
  ASSUME NEW tbl \in Tables
  PROVE  /\ Rows(tbl) \subseteq Minutes /\ tbl \in [Rows(tbl) -> RowStates]
         /\ tbl = << >> <=> Rows(tbl) = {}
<1>1. PICK rows \in SUBSET Minutes : tbl \in [rows -> RowStates]
  BY DEF Tables
<1>2. Rows(tbl) = rows
  BY <1>1 DEF Rows
<1>3. tbl = << >> => Rows(tbl) = {}
  BY DEF Rows
<1>4. ASSUME Rows(tbl) = {} PROVE tbl = << >>
  <2>1. tbl \in [1 .. 0 -> RowStates]
    BY <1>1, <1>2, <1>4
  <2>2. tbl \in Seq(RowStates) /\ Len(tbl) = 0
    BY <2>1, SeqDef, LenProperties
  <2> QED  BY <2>2, EmptySeq
<1> QED  BY <1>1, <1>2, <1>3, <1>4

LEMMA TableOfRows ==
  ASSUME NEW rows \in SUBSET Minutes, NEW tbl \in [rows -> RowStates]
  PROVE  tbl \in Tables /\ Rows(tbl) = rows
BY DEF Tables, Rows

LEMMA UnionIsTable ==
  ASSUME NEW keep \in Tables, NEW add \in Tables
  PROVE  /\ Union(keep, add) \in Tables
         /\ Rows(Union(keep, add)) = Rows(keep) \cup Rows(add)
         /\ \A t \in Rows(keep) : Union(keep, add)[t] = keep[t]
         /\ \A t \in Rows(add) \ Rows(keep) : Union(keep, add)[t] = add[t]
<1> DEFINE rows == Rows(keep) \cup Rows(add)
<1>1. /\ rows \in SUBSET Minutes
      /\ keep \in [Rows(keep) -> RowStates] /\ add \in [Rows(add) -> RowStates]
  BY RowsOfTable
<1>2. Union(keep, add) \in [rows -> RowStates]
  BY <1>1 DEF Union
<1> QED  BY <1>1, <1>2, TableOfRows DEF Union

LEMMA WriteIsTable ==
  ASSUME NEW tbl \in Tables, NEW t \in Minutes, NEW ev
  PROVE  Write(t, ev, tbl) \in Tables /\ Rows(Write(t, ev, tbl)) = Rows(tbl) \cup {t}
<1> DEFINE rows == Rows(tbl) \cup {t}
<1>1. rows \in SUBSET Minutes /\ tbl \in [Rows(tbl) -> RowStates]
  BY RowsOfTable
<1>2. Write(t, ev, tbl) \in [rows -> RowStates]
  BY <1>1 DEF Write, RowWritten, RowStates
<1> QED  BY <1>1, <1>2, TableOfRows

\* What the provider answers at the minute n.
BarsAt(s, n) ==
  {t \in market :
     /\ t <= n
     /\ Day(t) >= Day(s.start)
     /\ Day(t) <= Day(s.stop) \/ Day(s.stop) + 1 >= Day(n)}
AnswerAt(s, n) == [t \in BarsAt(s, n) |-> IF t = n THEN "part" ELSE "final"]

LEMMA AnswerIsTable ==
  ASSUME market \subseteq Minutes, NEW s, NEW n
  PROVE  AnswerAt(s, n) \in Tables /\ Rows(AnswerAt(s, n)) = BarsAt(s, n)
<1>1. BarsAt(s, n) \in SUBSET Minutes
  BY DEF BarsAt
<1>2. AnswerAt(s, n) \in [BarsAt(s, n) -> RowStates]
  BY DEF AnswerAt, RowStates
<1> QED  BY <1>1, <1>2, TableOfRows

\* An answer leaves out no bar between its first day and any of its bars, and
\* none of the days asked for that was over.
LEMMA AnswerIsWhole ==
  ASSUME market \subseteq Minutes, NEW s \in Slices, NEW n \in Minutes, NEW t \in market,
         Day(s.start) <= Day(t)
  PROVE  /\ \A v \in BarsAt(s, n) : t <= v => t \in BarsAt(s, n)
         /\ Covers(s, t) /\ t <= n => t \in BarsAt(s, n)
<1>1. /\ Day(s.start) \in Int /\ Day(s.stop) \in Int /\ Day(t) \in Int /\ Day(n) \in Int
      /\ t \in Int /\ n \in Int
  BY MinutesAreNumbers, DaysGrow DEF Slices
<1>2. ASSUME NEW v \in BarsAt(s, n), t <= v PROVE t \in BarsAt(s, n)
  <2>1. v \in Int /\ v <= n /\ Day(v) \in Int
        /\ (Day(v) <= Day(s.stop) \/ Day(s.stop) + 1 >= Day(n))
    BY MinutesAreNumbers DEF BarsAt
  <2>2. Day(t) <= Day(v) /\ t <= n
    BY <1>1, <1>2, <2>1, DaysGrow
  <2> QED  BY <1>1, <2>1, <2>2 DEF BarsAt
<1>3. Covers(s, t) /\ t <= n => t \in BarsAt(s, n)
  BY <1>1 DEF Covers, BarsAt
<1> QED  BY <1>2, <1>3

(***************************************************************************)
(* Types, and where rows come from: nothing is in a table that was not      *)
(* traded.                                                                  *)
(***************************************************************************)
RowsTraded(tbl) == Rows(tbl) \subseteq Traded

ReadTyped ==
  read # None =>
    /\ result = None /\ read.began <= now /\ RowsTraded(read.work)
    /\ read.start <= read.stop
    /\ read.then # None => read.then.at \in Traded

\* Each answer is of a minute of the read.
Answered ==
  \A p \in pieces : p.rows # None =>
    \E n \in Minutes :
      /\ read.began <= n /\ n <= now /\ p.rows = AnswerAt(p.slice, n)
      /\ ~concurrent => \A r \in Rows(read.work) : r <= n

TypeInv ==
  /\ TypeOK
  /\ \A t \in market : Day(t) \in TradingDays
  /\ RowsTraded(table) /\ ReadTyped /\ Answered
  /\ ~concurrent => \A p, q \in pieces : p = q

\* What a table, or the read of one, needs of a slice to remain without gaps.
Meets(s, tbl) ==
  /\ \E w \in Rows(tbl) : Day(s.start) <= Day(w)
  /\ \E u \in Rows(tbl) : Day(u) <= Day(s.stop)

Fit(slices) ==
  /\ Rows(table) = {} => slices = << >> \/ Len(slices) = 1
  /\ Rows(table) # {} => \A i \in DOMAIN slices : Meets(slices[i], table)
  /\ concurrent => \A i \in DOMAIN slices : slices[i].start <= now /\ slices[i].stop <= now + 1

LEMMA EndsOfTable ==
  ASSUME TypeInv, Rows(table) # {}
  PROVE  /\ Oldest(table) \in Rows(table) /\ Newest(table) \in Rows(table)
         /\ Oldest(table) \in Minutes /\ Newest(table) \in Minutes
         /\ Newest(table) <= now
         /\ \A r \in Rows(table) : Oldest(table) <= r /\ r <= Newest(table)
<1>1. Rows(table) \in SUBSET Minutes
  BY RowsOfTable DEF TypeInv, TypeOK
<1>2. Rows(table) \subseteq Traded
  BY DEF TypeInv, RowsTraded
<1> QED  BY <1>1, <1>2, EndsOfRows DEF Oldest, Newest, Traded

LEMMA ASlice ==
  ASSUME NEW a \in Minutes, NEW b \in 0 .. Days * PerDay, a <= b
  PROVE  [start |-> a, stop |-> b] \in Slices
BY DEF Slices

LEMMA TwoSlices ==
  ASSUME NEW a \in Slices, NEW b \in Slices
  PROVE  /\ <<a>> \o <<b>> \in Seq(Slices) /\ DOMAIN (<<a>> \o <<b>>) = 1 .. 2
         /\ \A i \in 1 .. 2 : (<<a>> \o <<b>>)[i] = a \/ (<<a>> \o <<b>>)[i] = b
<1>1. /\ <<a>> \in Seq(Slices) /\ <<b>> \in Seq(Slices)
      /\ Len(<<a>>) = 1 /\ Len(<<b>>) = 1
  OBVIOUS
<1>2. /\ <<a>> \o <<b>> \in Seq(Slices)
      /\ Len(<<a>> \o <<b>>) = 2
      /\ \A i \in 1 .. 2 : (<<a>> \o <<b>>)[i]
                             = IF i <= 1 THEN <<a>>[i] ELSE <<b>>[i - 1]
  BY <1>1, ConcatProperties
<1> QED  BY <1>2

LEMMA ToFetchFits ==
  ASSUME TypeInv, NEW s \in Slices, concurrent => s.stop <= now
  PROVE  ToFetch(s, table) \in Seq(Slices) /\ Fit(ToFetch(s, table))
<1>1. /\ s.start \in Minutes /\ s.stop \in 0 .. Days * PerDay /\ s.start <= s.stop
      /\ now \in Minutes /\ now \in Nat /\ s.start \in Nat /\ s.stop \in Nat
  BY MinutesAreNumbers DEF Slices, TypeInv, TypeOK
<1>2. CASE Rows(table) = {}
  <2>1. ToFetch(s, table) = <<s>>
    BY <1>2, RowsOfTable DEF ToFetch, TypeInv, TypeOK
  <2> QED  BY <1>1, <1>2, <2>1 DEF Fit
<1>3. CASE Rows(table) # {}
  <2> DEFINE old == Oldest(table)
             new == Newest(table)
             before == [start |-> s.start, stop |-> old]
             after == [start |-> new, stop |-> s.stop]
             first == IF Day(s.start) < Day(old) THEN <<before>> ELSE << >>
             second == IF s.stop > new THEN <<after>> ELSE << >>
  <2>1. /\ old \in Rows(table) /\ new \in Rows(table)
        /\ old \in Minutes /\ new \in Minutes /\ old \in Nat /\ new \in Nat
        /\ old <= now /\ new <= now
        /\ old \in 0 .. Days * PerDay
    BY <1>1, <1>3, EndsOfTable, MinutesAreNumbers
  <2>2. ToFetch(s, table) = first \o second
    BY <1>3, RowsOfTable DEF ToFetch, TypeInv, TypeOK
  <2> HIDE DEF old, new
  <2>3. ASSUME Day(s.start) < Day(old)
        PROVE  /\ before \in Slices /\ Meets(before, table)
               /\ concurrent => before.start <= now /\ before.stop <= now + 1
    <3>1. s.start < old
      BY <1>1, <2>1, <2>3, DaysGrow
    <3>2. Day(s.start) <= Day(old) /\ Day(old) <= Day(old)
      BY <1>1, <2>1, <3>1, DaysGrow
    <3> QED  BY <1>1, <2>1, <3>1, <3>2, ASlice DEF Meets
  <2>4. ASSUME s.stop > new
        PROVE  /\ after \in Slices /\ Meets(after, table)
               /\ concurrent => after.start <= now /\ after.stop <= now + 1
    <3>1. Day(new) <= Day(new) /\ Day(new) <= Day(s.stop)
      BY <1>1, <2>1, <2>4, DaysGrow
    <3> QED  BY <1>1, <2>1, <2>4, <3>1, ASlice DEF Meets
  <2> DEFINE good(x) == /\ x \in Slices /\ Meets(x, table)
                        /\ concurrent => x.start <= now /\ x.stop <= now + 1
  <2>5. first = << >> \/ (first = <<before>> /\ good(before))
    BY <2>3
  <2>6. second = << >> \/ (second = <<after>> /\ good(after))
    BY <2>4
  <2> HIDE DEF before, after, first, second
  <2> DEFINE all == first \o second
  <2>7. all \in Seq(Slices) /\ \A i \in DOMAIN all : good(all[i])
    <3>1. CASE first = << >> /\ second = << >>
      BY <3>1
    <3>2. CASE first = << >> /\ second = <<after>> /\ good(after)
      <4>1. all = <<after>>
        BY <3>2
      <4> HIDE DEF all, good
      <4> QED  BY <3>2, <4>1 DEF good
    <3>3. CASE first = <<before>> /\ good(before) /\ second = << >>
      <4>1. all = <<before>>
        BY <3>3
      <4> HIDE DEF all, good
      <4> QED  BY <3>3, <4>1 DEF good
    <3>4. CASE first = <<before>> /\ good(before) /\ second = <<after>> /\ good(after)
      <4>1. all \in Seq(Slices) /\ \A i \in 1 .. 2 : all[i] = before \/ all[i] = after
        BY <3>4, TwoSlices DEF all
      <4>2. DOMAIN all = 1 .. 2
        BY <3>4, TwoSlices DEF all
      <4> HIDE DEF all, good
      <4> QED  BY <3>4, <4>1, <4>2
    <3> QED  BY <2>5, <2>6, <3>1, <3>2, <3>3, <3>4
  <2> HIDE DEF all
  <2>8. ToFetch(s, table) = all
    BY <2>2 DEF all
  <2> QED  BY <1>3, <2>7, <2>8 DEF Fit
<1> QED  BY <1>2, <1>3

LEMMA ToReachFits ==
  ASSUME TypeInv, NEW d \in Minutes, d <= now
  PROVE  ToReach(d, table) \in Seq(Slices) /\ Fit(ToReach(d, table))
<1>1. /\ now \in Nat /\ d \in Nat /\ d + 1 \in 0 .. Days * PerDay
  BY MinutesAreNumbers DEF TypeInv, TypeOK
<1>2. ASSUME NEW x \in Slices, ToReach(d, table) = <<x>>,
             Rows(table) # {} => Meets(x, table),
             x.start <= now, x.stop <= now + 1
      PROVE  ToReach(d, table) \in Seq(Slices) /\ Fit(ToReach(d, table))
  BY <1>2 DEF Fit
<1>3. CASE Rows(table) = {}
  <2>1. ToReach(d, table) = <<[start |-> d, stop |-> d + 1]>>
    BY <1>3, RowsOfTable DEF ToReach, TypeInv, TypeOK
  <2> QED  BY <1>1, <1>2, <1>3, <2>1, ASlice
<1>4. CASE Rows(table) # {}
  <2> DEFINE old == Oldest(table)
             new == Newest(table)
  <2>1. /\ old \in Rows(table) /\ new \in Rows(table)
        /\ old \in Minutes /\ new \in Minutes /\ old \in Nat /\ new \in Nat
        /\ old <= now /\ new <= now
        /\ old \in 0 .. Days * PerDay /\ table # << >>
    <3>1. table # << >>
      BY <1>4, RowsOfTable DEF TypeInv, TypeOK
    <3> QED  BY <1>1, <1>4, <3>1, EndsOfTable, MinutesAreNumbers
  <2>2. ToReach(d, table) = IF d < old THEN <<[start |-> d, stop |-> old]>>
                            ELSE IF d > new THEN <<[start |-> new, stop |-> d + 1]>>
                            ELSE <<[start |-> d, stop |-> d + 1]>>
    BY <2>1 DEF ToReach
  <2> HIDE DEF old, new
  <2>3. CASE d < old
    <3>1. Day(d) <= Day(old) /\ Day(old) <= Day(old)
      BY <1>1, <2>1, <2>3, DaysGrow
    <3> QED  BY <1>1, <1>2, <2>1, <2>2, <2>3, <3>1, ASlice DEF Meets
  <2>4. CASE ~(d < old) /\ d > new
    <3>1. Day(new) <= Day(new) /\ Day(new) <= Day(d + 1)
      BY <1>1, <2>1, <2>4, DaysGrow
    <3> QED  BY <1>1, <1>2, <2>1, <2>2, <2>4, <3>1, ASlice DEF Meets
  <2>5. CASE ~(d < old) /\ ~(d > new)
    <3>1. Day(d) <= Day(new) /\ Day(old) <= Day(d + 1)
      BY <1>1, <2>1, <2>5, DaysGrow
    <3> QED  BY <1>1, <1>2, <2>1, <2>2, <2>5, <3>1, ASlice DEF Meets
  <2> QED  BY <2>3, <2>4, <2>5
<1> QED  BY <1>3, <1>4

\* How a read begins, of a caller or of a message of the stream.
Begun ==
  /\ read = None /\ read' \in Readings /\ result' = None
  /\ read'.work = table /\ read'.began = now /\ read'.asked = {}
  /\ read'.start <= read'.stop
  /\ read'.then # None => read'.then.at \in Traded
  /\ todo' \in Seq(Slices) /\ Fit(todo')
  /\ read'.kind \in {"slice", "key"} =>
       todo' = ToFetch([start |-> read'.start, stop |-> read'.stop], table)
  /\ reads' \in 0 .. MaxReads
  /\ UNCHANGED <<market, now, concurrent, table, pieces, skipped>>

LEMMA ReadBegins ==
  ASSUME TypeInv, NEW kind \in {"slice", "key", "last", "offset"},
         NEW start \in Minutes, NEW stop \in Minutes, NEW n \in Nat, NEW slices,
         NEW then \in {None} \cup [at : Minutes, ev : {"T", "AM"}],
         Begin(kind, start, stop, n, slices, then), reads' \in 0 .. MaxReads,
         start <= stop, then # None => then.at \in Traded,
         slices \in Seq(Slices), Fit(slices),
         kind \in {"slice", "key"}
           => slices = ToFetch([start |-> start, stop |-> stop], table)
  PROVE  Begun
<1>1. table \in Tables /\ now \in Minutes
  BY DEF TypeInv, TypeOK
<1> DEFINE r == [kind |-> kind, start |-> start, stop |-> stop, n |-> n,
                 work |-> table, began |-> now, asked |-> {}, then |-> then]
<1>2. r \in Readings
  BY <1>1 DEF Readings
<1>3. /\ read = None /\ read' = r /\ todo' = slices /\ result' = None
      /\ UNCHANGED <<market, now, concurrent, table, pieces, skipped>>
  BY DEF Begin
<1>4. Fit(todo')
  BY <1>3
<1>5. /\ r.work = table /\ r.began = now /\ r.asked = {} /\ r.start = start
      /\ r.stop = stop /\ r.then = then /\ r.kind = kind
  OBVIOUS
<1> HIDE DEF r
<1> QED  BY <1>2, <1>3, <1>4, <1>5 DEF Begun

LEMMA NewestTrade ==
  ASSUME TypeInv, Traded # {}
  PROVE  /\ Max(Traded) \in Traded /\ Max(Traded) \in Minutes
         /\ Max(Traded) \in Nat /\ Max(Traded) <= now
<1>1. Traded \in SUBSET Minutes
  BY DEF Traded, TypeInv, TypeOK
<1>2. Max(Traded) \in Traded
  BY <1>1, EndsOfRows
<1> QED  BY <1>1, <1>2, MinutesAreNumbers DEF Traded

\* A time computed from an offset is not after the one it is computed from.
LEMMA OffsetIsBefore ==
  ASSUME TypeInv, NEW n \in 1 .. Days * PerDay, NEW base \in Minutes,
         \A r \in Rows(table) : r <= base, OffsetTime(n, table, base) >= 0
  PROVE  OffsetTime(n, table, base) \in Minutes /\ OffsetTime(n, table, base) <= base
<1>1. /\ base \in Nat /\ base <= Days * PerDay - 1 /\ Days * PerDay \in Nat
      /\ n \in Int /\ n >= 1
  BY MinutesAreNumbers
<1>2. CASE n <= Cardinality(Rows(table))
  <2>1. Rows(table) \in SUBSET Minutes
    BY RowsOfTable DEF TypeInv, TypeOK
  <2>2. Cardinality(Rows(table)) \in Nat
    BY <2>1, MinutesAreNumbers, FS_Subset, FS_CardinalityType
  <2>3. RowFromEnd(n, table) \in Rows(table)
    BY <1>1, <1>2, <2>1, <2>2, RowFromEndIsRow
  <2> QED  BY <1>2, <2>1, <2>3 DEF OffsetTime
<1>3. CASE ~(n <= Cardinality(Rows(table)))
  <2>1. OffsetTime(n, table, base) = base + 1 - n
    BY <1>3 DEF OffsetTime
  <2> QED  BY <1>1, <2>1, MinutesAreNumbers
<1> QED  BY <1>2, <1>3

LEMMA ReadsBegin ==
  ASSUME TypeInv, Reads
  PROVE  Begun
<1>1. /\ reads \in 0 .. MaxReads /\ now \in Minutes /\ now \in Nat
      /\ MaxReads \in Nat /\ table \in Tables
  BY BoundAssumption, MinutesAreNumbers DEF TypeInv, TypeOK
<1>2. ASSUME NEW kind \in {"slice", "key", "last", "offset"},
             NEW start \in Minutes, NEW stop \in Minutes, NEW n \in Nat, NEW slices,
             BeginRead(kind, start, stop, n, slices), start <= stop,
             slices \in Seq(Slices), Fit(slices),
             kind \in {"slice", "key"}
               => slices = ToFetch([start |-> start, stop |-> stop], table)
      PROVE  Begun
  <2>1. reads' \in 0 .. MaxReads /\ Begin(kind, start, stop, n, slices, None)
    BY <1>1, <1>2 DEF BeginRead
  <2> QED  BY <1>2, <2>1, ReadBegins
\* A range from start to stop, neither in the future with concurrency.
<1>3. ASSUME NEW kind \in {"slice", "key", "last"}, NEW start \in Minutes,
             NEW stop \in Minutes, NEW n \in Nat, start <= stop,
             concurrent => stop <= now,
             BeginRead(kind, start, stop, n,
                       ToFetch([start |-> start, stop |-> stop], table))
      PROVE  Begun
  <2> DEFINE s == [start |-> start, stop |-> stop]
  <2>1. stop \in 0 .. Days * PerDay
    BY MinutesAreNumbers
  <2>2. s \in Slices /\ s.stop = stop
    BY <1>3, <2>1, ASlice
  <2> HIDE DEF s
  <2>3. ToFetch(s, table) \in Seq(Slices) /\ Fit(ToFetch(s, table))
    BY <1>3, <2>2, ToFetchFits
  <2>4. kind \in {"slice", "key", "last", "offset"}
    BY <1>3
  <2> QED  BY <1>2, <1>3, <2>3, <2>4 DEF s
<1>4. ASSUME NEW a \in Minutes, NEW b \in Minutes, a <= b, ReadSlice(a, b)
      PROVE  Begun
  BY <1>3, <1>4 DEF ReadSlice, Asked
<1>5. ASSUME NEW k \in Minutes, ReadKey(k)
      PROVE  Begun
  <2>1. k <= k
    BY MinutesAreNumbers
  <2> QED  BY <1>3, <1>5, <2>1 DEF ReadKey, Asked
<1>6. ASSUME NEW n \in 1 .. Days * PerDay, ReadLast(n)
      PROVE  Begun
  <2> DEFINE stop == IF table # << >> THEN Newest(table) ELSE Max(Traded)
             start == OffsetTime(n, table, stop)
  <2>1. /\ table # << >> \/ Traded # {}
        /\ start >= 0
        /\ BeginRead("last", start, stop, n,
                     ToFetch([start |-> start, stop |-> stop], table))
    BY <1>6 DEF ReadLast
  <2>2. /\ stop \in Minutes /\ stop <= now
        /\ \A r \in Rows(table) : r <= stop
    <3>1. CASE table # << >>
      BY <3>1, EndsOfTable, RowsOfTable DEF TypeInv, TypeOK
    <3>2. CASE table = << >>
      <4>1. Rows(table) = {} /\ stop = Max(Traded)
        BY <3>2, RowsOfTable DEF TypeInv, TypeOK
      <4> QED  BY <2>1, <3>2, <4>1, NewestTrade
    <3> QED  BY <3>1, <3>2
  <2> HIDE DEF stop
  <2>3. start \in Minutes /\ start <= stop /\ n \in Nat
    BY <2>1, <2>2, OffsetIsBefore
  <2> HIDE DEF start
  <2> QED  BY <1>3, <2>1, <2>2, <2>3
<1>7. ASSUME NEW n \in 1 .. Days * PerDay, ReadOffset(n)
      PROVE  Begun
  <2>1. CASE Reachable(n, table)
    <3>1. BeginRead("offset", now, now, n, << >>)
      BY <1>7, <2>1 DEF ReadOffset
    <3>2. << >> \in Seq(Slices) /\ Fit(<< >>) /\ now <= now /\ n \in Nat
      BY <1>1 DEF Fit
    <3> QED  BY <1>1, <1>2, <3>1, <3>2
  <2>2. CASE ~Reachable(n, table)
    <3> DEFINE d == OffsetTime(n, table, Max(Traded))
    <3>1. /\ Traded # {} /\ d >= 0
          /\ BeginRead("offset", d, d, n, ToReach(d, table))
      BY <1>7, <2>2 DEF ReadOffset
    <3>2. /\ Max(Traded) \in Minutes /\ Max(Traded) <= now
          /\ \A r \in Rows(table) : r <= Max(Traded)
      <4>1. \A r \in Rows(table) : r \in Traded
        BY DEF TypeInv, RowsTraded
      <4>2. Traded \in SUBSET Minutes
        BY DEF Traded, TypeInv, TypeOK
      <4> QED  BY <3>1, <4>1, <4>2, NewestTrade, EndsOfRows
    <3>3. d \in Minutes /\ d <= Max(Traded) /\ n \in Nat
      BY <3>1, <3>2, OffsetIsBefore
    <3> HIDE DEF d
    <3>4. d <= now /\ d <= d
      BY <1>1, <3>2, <3>3, MinutesAreNumbers
    <3>5. ToReach(d, table) \in Seq(Slices) /\ Fit(ToReach(d, table))
      BY <3>3, <3>4, ToReachFits
    <3> QED  BY <1>2, <3>1, <3>3, <3>4, <3>5
  <2> QED  BY <2>1, <2>2
<1> QED  BY <1>4, <1>5, <1>6, <1>7 DEF Reads

LEMMA StreamReadBegins ==
  ASSUME TypeInv, NEW t \in Minutes, NEW ev \in {"T", "AM"},
         AggregateBar(t, ev), table = << >>
  PROVE  Begun
<1> DEFINE d == Max(Traded)
           then == [at |-> t, ev |-> ev]
<1>1. /\ t \in Traded /\ reads' = reads
      /\ Begin("offset", d, d, 1, ToReach(d, table), then)
  BY DEF AggregateBar, Deliverable, Traded
<1>2. d \in Minutes /\ d <= now /\ d <= d
  BY <1>1, NewestTrade
<1> HIDE DEF d
<1>3. ToReach(d, table) \in Seq(Slices) /\ Fit(ToReach(d, table))
  BY <1>2, ToReachFits
<1>4. then \in [at : Minutes, ev : {"T", "AM"}] /\ then.at = t
  OBVIOUS
<1> HIDE DEF then
<1>5. reads' \in 0 .. MaxReads
  BY <1>1 DEF TypeInv, TypeOK
<1> QED  BY <1>1, <1>2, <1>3, <1>4, <1>5, ReadBegins

(***************************************************************************)
(* The steps of a load.                                                     *)
(***************************************************************************)
Loads(s) == concurrent => NumTradingDays(s) > 0

\* A range is asked for in requests that lie in it and leave none of its days
\* out, unless the calendar has no opening to count.
Requested(s, requests) ==
  /\ requests \subseteq Slices
  /\ \A r \in requests : /\ s.start <= r.start /\ r.stop <= s.stop
                         /\ r.start < s.stop \/ r.start = s.start
  /\ ~Loads(s) => requests = {}
  /\ Loads(s) => \A t \in Minutes : Covers(s, t) => \E r \in requests : Covers(r, t)
  /\ ~concurrent => requests = {s}

Fetched(s, requests) ==
  /\ read # None /\ read \in Readings /\ pieces = {} /\ todo # << >>
  /\ s = Head(todo) /\ s \in Slices /\ todo' = Tail(todo) /\ todo' \in Seq(Slices)
  /\ Requested(s, requests)
  /\ pieces' = {Request(r) : r \in requests}
  /\ read' = [read EXCEPT !.asked = read.asked \cup DaysOf(s.start, s.stop)]
  /\ UNCHANGED <<market, now, concurrent, table, result, skipped, reads>>

LEMMA RangeFetched ==
  ASSUME TypeInv, FetchRange
  PROVE  \E s \in Slices, requests \in SUBSET Slices : Fetched(s, requests)
<1> DEFINE s == Head(todo)
           requests == IF concurrent THEN Ranges(s) ELSE {s}
<1>1. /\ read # None /\ read \in Readings /\ pieces = {} /\ todo # << >>
      /\ todo \in Seq(Slices) /\ todo' = Tail(todo)
      /\ read' = [read EXCEPT !.asked = read.asked \cup DaysOf(s.start, s.stop)]
      /\ UNCHANGED <<market, now, concurrent, table, result, skipped, reads>>
  BY DEF FetchRange, TypeInv, TypeOK
<1>2. s \in Slices /\ Tail(todo) \in Seq(Slices)
  BY <1>1, HeadTailProperties
<1>3. pieces' = {Request(r) : r \in requests}
  BY DEF FetchRange
<1> HIDE DEF s
<1>4. Requested(s, requests)
  <2>1. CASE concurrent
    <3>1. NumTradingDays(s) \in Nat
      BY TradingDaysCounted
    <3>2. \A t \in Minutes : t \in Int
      BY MinutesAreNumbers
    <3> QED  BY <1>2, <2>1, <3>1, <3>2, PiecesOfRange DEF Requested, Loads
  <2>2. CASE ~concurrent
    <3>1. s.start <= s.start /\ s.stop <= s.stop
      BY <1>2, MinutesAreNumbers DEF Slices
    <3> QED  BY <1>2, <2>2, <3>1 DEF Requested, Loads
  <2> QED  BY <2>1, <2>2
<1>5. requests \in SUBSET Slices
  BY <1>4 DEF Requested
<1> HIDE DEF requests
<1> QED  BY <1>1, <1>2, <1>3, <1>4, <1>5 DEF Fetched, s

\* The answer of the minute n is put together with the rows there are.
Merged(p, n) ==
  /\ p \in pieces /\ pieces' = pieces \ {p}
  /\ read # None /\ read \in Readings
  /\ n \in Minutes /\ read.began <= n /\ n <= now
  /\ p.slice \in Slices /\ BarsAt(p.slice, n) # {}
  /\ ~concurrent => pieces = {p} /\ \A r \in Rows(read.work) : r <= n
  /\ \E work \in Tables :
       /\ read' = [read EXCEPT !.work = work]
       /\ Rows(work) = Rows(read.work) \cup BarsAt(p.slice, n)
       /\ ~concurrent =>
            \A r \in Rows(work) :
              work[r] = IF r \in BarsAt(p.slice, n)
                          THEN IF r = n THEN "part" ELSE "final"
                          ELSE read.work[r]
  /\ UNCHANGED <<market, now, concurrent, table, todo, result, skipped, reads>>

LEMMA AnswerMerged ==
  ASSUME TypeInv, NEW p \in pieces, Merge(p)
  PROVE  \E n \in Minutes : Merged(p, n)
<1>1. /\ p.rows \notin {None, << >>} /\ pieces' = pieces \ {p}
      /\ UNCHANGED <<market, now, concurrent, table, todo, result, skipped, reads>>
  BY DEF Merge
<1>2. /\ read # None /\ read \in Readings /\ read.work \in Tables
      /\ p.slice \in Slices /\ market \subseteq Minutes
  BY DEF TypeInv, TypeOK, Readings
<1>3. PICK n \in Minutes :
        /\ read.began <= n /\ n <= now /\ p.rows = AnswerAt(p.slice, n)
        /\ ~concurrent => \A r \in Rows(read.work) : r <= n
  BY <1>1 DEF TypeInv, Answered
<1> DEFINE bars == BarsAt(p.slice, n)
           work == IF concurrent THEN Union(read.work, p.rows)
                                 ELSE Union(p.rows, read.work)
<1>4. p.rows \in Tables /\ Rows(p.rows) = bars /\ bars # {}
  <2>1. p.rows \in Tables /\ Rows(p.rows) = bars
    BY <1>2, <1>3, AnswerIsTable
  <2> QED  BY <1>1, <2>1, RowsOfTable
<1>5. \A r \in bars : p.rows[r] = IF r = n THEN "part" ELSE "final"
  BY <1>3 DEF AnswerAt
<1>6. work \in Tables /\ Rows(work) = Rows(read.work) \cup bars
  BY <1>2, <1>4, UnionIsTable
<1>7. ~concurrent => \A r \in Rows(work) :
        work[r] = IF r \in bars THEN IF r = n THEN "part" ELSE "final"
                  ELSE read.work[r]
  <2> SUFFICES ASSUME ~concurrent, NEW r \in Rows(work)
               PROVE  work[r] = IF r \in bars THEN IF r = n THEN "part" ELSE "final"
                                ELSE read.work[r]
    OBVIOUS
  <2>1. work = Union(p.rows, read.work) /\ r \in Rows(read.work) \cup bars
    BY <1>6
  <2>2. /\ r \in bars => work[r] = p.rows[r]
        /\ r \notin bars => work[r] = read.work[r]
    BY <1>2, <1>4, <2>1, UnionIsTable
  <2> QED  BY <1>5, <2>2
<1>8. read' = [read EXCEPT !.work = work]
  BY DEF Merge
<1>9. ~concurrent => pieces = {p}
  BY DEF TypeInv
<1> HIDE DEF work, bars
<1>10. Merged(p, n)
  BY <1>1, <1>2, <1>3, <1>4, <1>6, <1>7, <1>8, <1>9 DEF Merged, bars
<1> QED  BY <1>10

\* What a read that was under way leaves behind.
LEMMA ReadEnds ==
  ASSUME TypeInv, EndRead
  PROVE  /\ read \in Readings /\ read # None /\ pieces = {} /\ todo = << >>
         /\ read' = None /\ result = None
         /\ UNCHANGED <<market, now, concurrent, todo, pieces, reads>>
         /\ \/ UNCHANGED <<table, result, skipped>>
            \/ /\ read.work # << >> /\ read.then = None
               /\ table' = read.work /\ skipped' = skipped \ Rows(table')
               /\ result' = [kind |-> read.kind, start |-> read.start,
                             stop |-> read.stop, n |-> read.n,
                             began |-> read.began, asked |-> read.asked,
                             rows |-> Returned(read)]
            \/ /\ read.work # << >> /\ read.then # None
               /\ read.then.at \in Traded /\ result' = None
               /\ table' = Write(read.then.at, read.then.ev, read.work)
               /\ skipped' = (skipped \cup Jumped(read.then.at, read.work))
                               \ Rows(table')
<1>1. read \in Readings /\ read # None /\ pieces = {} /\ todo = << >> /\ read' = None
  BY DEF EndRead, TypeInv, TypeOK
<1>2. result = None /\ (read.then # None => read.then.at \in Traded)
  BY <1>1 DEF TypeInv, ReadTyped
<1>3. UNCHANGED <<market, now, concurrent, todo, pieces, reads>>
  BY DEF EndRead
<1>4. CASE ~Readable
  BY <1>1, <1>2, <1>3, <1>4 DEF EndRead
<1>5. CASE Readable /\ read.then = None
  BY <1>1, <1>2, <1>3, <1>5 DEF EndRead, Readable
<1>6. CASE Readable /\ read.then # None
  BY <1>1, <1>2, <1>3, <1>6 DEF EndRead, Readable
<1> QED  BY <1>4, <1>5, <1>6

\* A message that is written at once.
LEMMA StreamWrites ==
  ASSUME TypeInv, NEW t \in Minutes, NEW ev \in {"T", "AM"},
         AggregateBar(t, ev), table # << >>
  PROVE  /\ t \in Traded /\ read = None
         /\ table' = Write(t, ev, table)
         /\ skipped' = (skipped \cup Jumped(t, table)) \ Rows(table')
         /\ result' = None
         /\ UNCHANGED <<market, now, concurrent, read, todo, pieces, reads>>
BY DEF AggregateBar, Deliverable, Traded

(***************************************************************************)
(* Types are kept.                                                          *)
(***************************************************************************)
LEMMA TypeInit ==
  ASSUME Init PROVE TypeInv
<1>1. market \subseteq Minutes /\ \A t \in market : Day(t) \in TradingDays
  BY DEF Init
<1>2. now \in Minutes
  BY MinutesAreNumbers DEF Init
<1>3. << >> \in Tables /\ Rows(<< >>) = {}
  <2>1. << >> \in [{} -> RowStates]
    OBVIOUS
  <2> QED  BY <2>1, TableOfRows
<1>4. << >> \in Seq(Slices) /\ reads \in 0 .. MaxReads
  BY BoundAssumption DEF Init
<1>5. TypeOK
  BY <1>1, <1>2, <1>3, <1>4 DEF Init, TypeOK
<1>6. RowsTraded(table) /\ ReadTyped /\ Answered
  BY <1>3 DEF Init, RowsTraded, ReadTyped, Answered
<1> QED  BY <1>1, <1>5, <1>6 DEF TypeInv, Init

LEMMA TypeBegun ==
  ASSUME TypeInv, Begun
  PROVE  TypeInv'
<1>1. /\ TypeOK /\ read = None /\ pieces = {} /\ pieces' = {}
      /\ read' \in Readings /\ read' # None
  BY NoneAssumption DEF TypeInv, TypeOK, Begun
<1>2. UNCHANGED <<market, now, concurrent, table, skipped>>
  BY DEF Begun
<1>3. TypeOK'
  BY <1>1, <1>2 DEF TypeOK, Begun
<1>4. Traded' = Traded
  BY <1>2 DEF Traded
<1>5. RowsTraded(table)' /\ RowsTraded(read'.work)
  BY <1>2, <1>4 DEF TypeInv, RowsTraded, Begun
<1>6. now \in Nat
  BY <1>1, MinutesAreNumbers DEF TypeOK
<1>7. ReadTyped'
  BY <1>1, <1>2, <1>4, <1>5, <1>6 DEF ReadTyped, Begun, RowsTraded
<1>8. Answered' /\ (~concurrent => \A p, q \in pieces : p = q)'
  BY <1>1 DEF Answered
<1> QED  BY <1>2, <1>3, <1>5, <1>7, <1>8 DEF TypeInv

LEMMA TypeFetched ==
  ASSUME TypeInv, NEW s \in Slices, NEW requests \in SUBSET Slices, Fetched(s, requests)
  PROVE  TypeInv'
<1>1. /\ TypeOK /\ read # None /\ read \in Readings
      /\ UNCHANGED <<market, now, concurrent, table, result, skipped, reads>>
      /\ read' = [read EXCEPT !.asked = read.asked \cup DaysOf(s.start, s.stop)]
      /\ todo' \in Seq(Slices)
  BY DEF TypeInv, Fetched
<1>2. read' \in Readings /\ read' # None
  <2>1. read.asked \cup DaysOf(s.start, s.stop) \in SUBSET Minutes
    BY <1>1 DEF Readings, DaysOf
  <2>2. read' \in Readings
    BY <1>1, <2>1 DEF Readings
  <2> QED  BY <2>2, NoneAssumption
<1>3. /\ read'.began = read.began /\ read'.work = read.work /\ read'.start = read.start
      /\ read'.stop = read.stop /\ read'.then = read.then
  BY <1>1 DEF Readings
<1>4. pieces' = {Request(r) : r \in requests}
  BY DEF Fetched
<1>5. \A p \in pieces' : p \in [slice : Slices, rows : {None} \cup Tables] /\ p.rows = None
  BY <1>4 DEF Request
<1>6. TypeOK'
  BY <1>1, <1>2, <1>5 DEF TypeOK
<1>7. Traded' = Traded
  BY <1>1 DEF Traded
<1>8. ReadTyped' /\ RowsTraded(table)'
  BY <1>1, <1>2, <1>3, <1>7 DEF TypeInv, ReadTyped, RowsTraded
<1>9. Answered'
  BY <1>5 DEF Answered
<1>10. (~concurrent => \A p, q \in pieces : p = q)'
  BY <1>1, <1>4 DEF Fetched, Requested
<1> QED  BY <1>1, <1>6, <1>8, <1>9, <1>10 DEF TypeInv

LEMMA TypeAnswers ==
  ASSUME TypeInv, NEW p \in pieces, ProviderAnswers(p)
  PROVE  TypeInv'
<1> DEFINE a == [p EXCEPT !.rows = Answer(p.slice)]
<1>1. /\ TypeOK /\ read # None /\ read \in Readings /\ now \in Minutes
      /\ UNCHANGED <<market, now, concurrent, table, read, todo, result, skipped, reads>>
      /\ pieces' = (pieces \ {p}) \cup {a}
      /\ p \in [slice : Slices, rows : {None} \cup Tables]
  BY DEF TypeInv, TypeOK, ProviderAnswers
<1>2. Answer(p.slice) = AnswerAt(p.slice, now) /\ Answer(p.slice) \in Tables
  <2>1. Answer(p.slice) = AnswerAt(p.slice, now)
    BY DEF Answer, AnswerAt, Bars, BarsAt
  <2>2. market \subseteq Minutes
    BY <1>1 DEF TypeOK
  <2> QED  BY <2>1, <2>2, AnswerIsTable
<1>3. /\ a \in [slice : Slices, rows : {None} \cup Tables]
      /\ a.slice = p.slice /\ a.rows = AnswerAt(p.slice, now)
  BY <1>1, <1>2
<1> HIDE DEF a
<1>4. TypeOK'
  BY <1>1, <1>3 DEF TypeOK
<1>5. Traded' = Traded
  BY <1>1 DEF Traded
<1>6. ReadTyped' /\ RowsTraded(table)'
  BY <1>1, <1>5 DEF TypeInv, ReadTyped, RowsTraded
<1>7. Answered'
  <2> SUFFICES ASSUME NEW q \in pieces', q.rows # None
               PROVE  \E n \in Minutes :
                        /\ read.began <= n /\ n <= now
                        /\ q.rows = AnswerAt(q.slice, n)'
                        /\ ~concurrent => \A r \in Rows(read.work) : r <= n
    BY <1>1, Zenon DEF Answered
  <2>1. \A n \in Minutes : AnswerAt(q.slice, n)' = AnswerAt(q.slice, n)
    BY <1>1 DEF AnswerAt, BarsAt
  <2>2. CASE q = a
    <3>1. read.began <= now /\ now <= now /\ \A r \in Rows(read.work) : r <= now
      BY <1>1, MinutesAreNumbers DEF TypeInv, ReadTyped, RowsTraded, Traded
    <3> QED  BY <1>1, <1>3, <2>1, <2>2, <3>1
  <2>3. CASE q \in pieces
    BY <2>1, <2>3 DEF TypeInv, Answered
  <2> QED  BY <1>1, <2>2, <2>3
<1>8. (~concurrent => \A x, y \in pieces : x = y)'
  BY <1>1 DEF TypeInv
<1> QED  BY <1>1, <1>4, <1>6, <1>7, <1>8 DEF TypeInv

LEMMA TypeMerged ==
  ASSUME TypeInv, NEW p \in pieces, NEW n \in Minutes, Merged(p, n)
  PROVE  TypeInv'
<1>1. /\ TypeOK /\ read # None /\ read \in Readings
      /\ UNCHANGED <<market, now, concurrent, table, todo, result, skipped, reads>>
      /\ pieces' = pieces \ {p} /\ n <= now
  BY DEF TypeInv, Merged
<1>2. PICK work \in Tables :
        /\ read' = [read EXCEPT !.work = work]
        /\ Rows(work) = Rows(read.work) \cup BarsAt(p.slice, n)
  BY DEF Merged
<1>3. read' \in Readings /\ read' # None
  <2>1. read' \in Readings
    BY <1>1, <1>2 DEF Readings
  <2> QED  BY <2>1, NoneAssumption
<1>4. /\ read'.began = read.began /\ read'.work = work /\ read'.start = read.start
      /\ read'.stop = read.stop /\ read'.then = read.then
  BY <1>1, <1>2 DEF Readings
<1>5. TypeOK'
  BY <1>1, <1>3 DEF TypeOK
<1>6. Traded' = Traded /\ BarsAt(p.slice, n) \subseteq Traded
  <2>1. \A t \in BarsAt(p.slice, n) : t \in market /\ t <= n
    BY DEF BarsAt
  <2>2. \A t \in market : t \in Nat
    BY <1>1, MinutesAreNumbers DEF TypeOK
  <2>3. n \in Nat /\ now \in Nat
    BY <1>1, MinutesAreNumbers DEF TypeOK
  <2> QED  BY <1>1, <2>1, <2>2, <2>3 DEF Traded
<1>7. ReadTyped' /\ RowsTraded(table)'
  BY <1>1, <1>2, <1>3, <1>4, <1>6 DEF TypeInv, ReadTyped, RowsTraded
<1>8. (~concurrent => \A x, y \in pieces : x = y)'
  BY <1>1 DEF TypeInv
<1>9. Answered'
  <2> SUFFICES ASSUME NEW q \in pieces', q.rows # None
               PROVE  \E m \in Minutes :
                        /\ read'.began <= m /\ m <= now
                        /\ q.rows = AnswerAt(q.slice, m)'
                        /\ ~concurrent => \A r \in Rows(read'.work) : r <= m
    BY <1>1, Zenon DEF Answered
  <2>1. concurrent /\ q \in pieces
    BY <1>1 DEF Merged
  <2>2. PICK m \in Minutes :
          read.began <= m /\ m <= now /\ q.rows = AnswerAt(q.slice, m)
    BY <2>1 DEF TypeInv, Answered
  <2>3. AnswerAt(q.slice, m)' = AnswerAt(q.slice, m)
    BY <1>1 DEF AnswerAt, BarsAt
  <2> QED  BY <1>4, <2>1, <2>2, <2>3
<1> QED  BY <1>1, <1>5, <1>7, <1>8, <1>9 DEF TypeInv

LEMMA TypeWritten ==
  ASSUME TypeInv, NEW tbl \in Tables, RowsTraded(tbl), NEW t \in Traded, NEW ev
  PROVE  /\ Write(t, ev, tbl) \in Tables /\ RowsTraded(Write(t, ev, tbl))
         /\ (skipped \cup Jumped(t, tbl)) \subseteq market
<1>1. t \in Minutes
  BY DEF Traded, TypeInv, TypeOK
<1>2. Write(t, ev, tbl) \in Tables /\ Rows(Write(t, ev, tbl)) = Rows(tbl) \cup {t}
  BY <1>1, WriteIsTable
<1>3. Jumped(t, tbl) \subseteq market
  BY DEF Jumped
<1> QED  BY <1>2, <1>3 DEF RowsTraded, TypeInv, TypeOK

LEMMA TypeEnds ==
  ASSUME TypeInv, EndRead
  PROVE  TypeInv'
<1>1. /\ TypeOK /\ read \in Readings /\ read # None /\ read.work \in Tables
      /\ read' = None /\ pieces' = {} /\ todo' = << >>
      /\ UNCHANGED <<market, now, concurrent, reads>>
  <2>1. /\ read \in Readings /\ read # None /\ read' = None /\ pieces' = {}
        /\ todo' = << >> /\ UNCHANGED <<market, now, concurrent, reads>>
    BY ReadEnds
  <2> QED  BY <2>1 DEF TypeInv, Readings
<1>2. Traded' = Traded
  BY <1>1 DEF Traded
<1>3. RowsTraded(read.work)
  BY <1>1 DEF TypeInv, ReadTyped
<1>4. table' \in Tables /\ RowsTraded(table') /\ skipped' \subseteq market
  <2>1. CASE UNCHANGED <<table, result, skipped>>
    BY <1>1, <2>1 DEF TypeInv, TypeOK
  <2>2. CASE table' = read.work /\ skipped' = skipped \ Rows(table')
    BY <1>1, <1>3, <2>2 DEF TypeOK
  <2>3. CASE /\ read.then.at \in Traded
             /\ table' = Write(read.then.at, read.then.ev, read.work)
             /\ skipped' = (skipped \cup Jumped(read.then.at, read.work)) \ Rows(table')
    BY <1>1, <1>3, <2>3, TypeWritten
  <2> QED  BY <2>1, <2>2, <2>3, ReadEnds
<1>5. TypeOK'
  BY <1>1, <1>4 DEF TypeOK
<1>6. RowsTraded(table)' /\ ReadTyped' /\ Answered'
  BY <1>1, <1>2, <1>4 DEF RowsTraded, ReadTyped, Answered
<1> QED  BY <1>1, <1>5, <1>6 DEF TypeInv

LEMMA TypeStreamed ==
  ASSUME TypeInv, NEW t \in Minutes, NEW ev \in {"T", "AM"}, AggregateBar(t, ev)
  PROVE  TypeInv'
<1>1. CASE table = << >>
  BY <1>1, StreamReadBegins, TypeBegun
<1>2. CASE table # << >>
  <2>1. /\ TypeOK /\ t \in Traded /\ read = None
        /\ table' = Write(t, ev, table)
        /\ skipped' = (skipped \cup Jumped(t, table)) \ Rows(table')
        /\ UNCHANGED <<market, now, concurrent, read, todo, pieces, reads>>
    BY <1>2, StreamWrites DEF TypeInv
  <2>2. Traded' = Traded
    BY <2>1 DEF Traded
  <2>3. table \in Tables /\ RowsTraded(table)
    BY DEF TypeInv, TypeOK
  <2>4. table' \in Tables /\ RowsTraded(table') /\ skipped' \subseteq market
    BY <2>1, <2>3, TypeWritten
  <2>5. TypeOK'
    BY <2>1, <2>4 DEF TypeOK
  <2>6. pieces' = {}
    BY <2>1 DEF TypeOK
  <2>7. RowsTraded(table)' /\ ReadTyped' /\ Answered'
    BY <2>1, <2>2, <2>4, <2>6 DEF RowsTraded, ReadTyped, Answered
  <2> QED  BY <2>1, <2>5, <2>6, <2>7 DEF TypeInv
<1> QED  BY <1>1, <1>2

LEMMA TypeFails ==
  ASSUME TypeInv, NEW p \in pieces, FetchFails(p)
  PROVE  TypeInv'
<1>1. /\ TypeOK /\ read' = None /\ todo' = << >> /\ pieces' = {}
      /\ UNCHANGED <<market, now, concurrent, table, result, skipped, reads>>
  BY DEF FetchFails, TypeInv
<1>2. TypeOK'
  BY <1>1 DEF TypeOK
<1>3. Traded' = Traded
  BY <1>1 DEF Traded
<1>4. RowsTraded(table)' /\ ReadTyped' /\ Answered'
  BY <1>1, <1>3 DEF TypeInv, RowsTraded, ReadTyped, Answered
<1> QED  BY <1>1, <1>2, <1>4 DEF TypeInv

LEMMA TypeTicks ==
  ASSUME TypeInv, Tick
  PROVE  TypeInv'
<1>1. /\ TypeOK /\ now' = now + 1 /\ now' \in Minutes /\ now \in Nat
      /\ UNCHANGED <<market, concurrent, table, read, todo, pieces, result, skipped, reads>>
  BY MinutesAreNumbers DEF Tick, TypeInv, TypeOK
<1>2. TypeOK'
  BY <1>1 DEF TypeOK
<1>3. \A m \in Int : m <= now => m <= now'
  BY <1>1
<1>4. Traded \subseteq Traded'
  <2>1. \A m \in market : m \in Int
    BY <1>1, MinutesAreNumbers DEF TypeOK
  <2> QED  BY <1>1, <1>3, <2>1 DEF Traded
<1>5. RowsTraded(table)'
  BY <1>1, <1>4 DEF TypeInv, RowsTraded
<1>6. ReadTyped'
  <2> SUFFICES ASSUME read # None PROVE ReadTyped'
    BY <1>1 DEF ReadTyped
  <2>1. read.began \in Int
    BY <1>1, MinutesAreNumbers DEF TypeOK, Readings
  <2>2. ReadTyped
    BY DEF TypeInv
  <2> QED  BY <1>1, <1>3, <1>4, <2>1, <2>2 DEF ReadTyped, RowsTraded
<1>7. Answered'
  <2> SUFFICES ASSUME NEW q \in pieces, q.rows # None
               PROVE  \E m \in Minutes :
                        /\ read.began <= m /\ m <= now'
                        /\ q.rows = AnswerAt(q.slice, m)'
                        /\ ~concurrent => \A r \in Rows(read.work) : r <= m
    BY <1>1, Zenon DEF Answered
  <2>1. PICK m \in Minutes :
          /\ read.began <= m /\ m <= now /\ q.rows = AnswerAt(q.slice, m)
          /\ ~concurrent => \A r \in Rows(read.work) : r <= m
    BY DEF TypeInv, Answered
  <2>2. AnswerAt(q.slice, m)' = AnswerAt(q.slice, m)
    BY <1>1 DEF AnswerAt, BarsAt
  <2> QED  BY <1>3, <2>1, <2>2, MinutesAreNumbers
<1> QED  BY <1>1, <1>2, <1>5, <1>6, <1>7 DEF TypeInv

\* Every step, by what it does to a read.
LEMMA TypeStep ==
  ASSUME TypeInv, [Next]_vars
  PROVE  TypeInv'
<1>1. CASE Reads
  BY <1>1, ReadsBegin, TypeBegun
<1>2. CASE FetchRange
  BY <1>2, RangeFetched, TypeFetched
<1>3. ASSUME NEW p \in pieces, ProviderAnswers(p) PROVE TypeInv'
  BY <1>3, TypeAnswers
<1>4. ASSUME NEW p \in pieces, Merge(p) PROVE TypeInv'
  BY <1>4, AnswerMerged, TypeMerged
<1>5. ASSUME NEW p \in pieces, FetchFails(p) PROVE TypeInv'
  BY <1>5, TypeFails
<1>6. CASE EndRead
  BY <1>6, TypeEnds
<1>7. CASE Stream
  BY <1>7, TypeStreamed DEF Stream
<1>8. CASE Tick
  BY <1>8, TypeTicks
<1>9. CASE UNCHANGED vars
  BY <1>9 DEF vars, TypeInv, TypeOK, RowsTraded, ReadTyped, Traded, Answered, AnswerAt, BarsAt
<1> QED  BY <1>1, <1>2, <1>3, <1>4, <1>5, <1>6, <1>7, <1>8, <1>9 DEF Next, Loading

\* The variables keep their types, whatever the calendar and the reads.
THEOREM LoaderTypeCorrect == Spec => []TypeOK
<1>1. Init => TypeInv
  BY TypeInit
<1>2. TypeInv /\ [Next]_vars => TypeInv'
  BY TypeStep
<1>3. TypeInv => TypeOK
  BY DEF TypeInv
<1> QED  BY <1>1, <1>2, <1>3, PTL DEF Spec

(***************************************************************************)
(* What a step does, in the terms of the invariants that follow.            *)
(***************************************************************************)
Replied(p) ==
  /\ p \in pieces /\ read # None
  /\ \E a : a.slice = p.slice /\ pieces' = (pieces \ {p}) \cup {a}
  /\ UNCHANGED <<market, concurrent, table, read, todo, result, skipped>>

Given(t, ev) ==
  /\ t \in Traded /\ table # << >> /\ read = None /\ read' = None /\ result' = None
  /\ table' = Write(t, ev, table)
  /\ skipped' = (skipped \cup Jumped(t, table)) \ Rows(table')
  /\ UNCHANGED <<market, concurrent>>

Dropped == read' = None /\ UNCHANGED <<market, concurrent, table, result, skipped>>

Elapsed == UNCHANGED <<market, concurrent, table, read, todo, pieces, result, skipped>>

LEMMA Steps ==
  ASSUME TypeInv, [Next]_vars
  PROVE  \/ Begun
         \/ \E s \in Slices, requests \in SUBSET Slices : Fetched(s, requests)
         \/ \E p \in pieces : Replied(p)
         \/ \E p \in pieces, n \in Minutes : Merged(p, n)
         \/ EndRead
         \/ \E t \in Minutes, ev \in {"T", "AM"} : Given(t, ev)
         \/ Dropped
         \/ Elapsed
<1>1. CASE Reads
  BY <1>1, ReadsBegin
<1>2. CASE FetchRange
  BY <1>2, RangeFetched
<1>3. ASSUME NEW p \in pieces, ProviderAnswers(p) PROVE Replied(p)
  <2> DEFINE a == [p EXCEPT !.rows = Answer(p.slice)]
  <2>1. p \in [slice : Slices, rows : {None} \cup Tables] /\ read # None
    BY DEF TypeInv, TypeOK
  <2>2. a.slice = p.slice
    BY <2>1
  <2>3. pieces' = (pieces \ {p}) \cup {a}
    BY <1>3 DEF ProviderAnswers
  <2>4. UNCHANGED <<market, concurrent, table, read, todo, result, skipped>>
    BY <1>3 DEF ProviderAnswers
  <2> HIDE DEF a
  <2> QED  BY <2>1, <2>2, <2>3, <2>4 DEF Replied
<1>4. ASSUME NEW p \in pieces, Merge(p) PROVE \E n \in Minutes : Merged(p, n)
  BY <1>4, AnswerMerged
<1>5. ASSUME NEW p \in pieces, FetchFails(p) PROVE Dropped
  BY <1>5 DEF FetchFails, Dropped
<1>6. ASSUME NEW t \in Minutes, NEW ev \in {"T", "AM"}, AggregateBar(t, ev)
      PROVE  Begun \/ Given(t, ev)
  <2>1. CASE table = << >>
    BY <1>6, <2>1, StreamReadBegins
  <2>2. CASE table # << >>
    BY <1>6, <2>2, StreamWrites DEF Given
  <2> QED  BY <2>1, <2>2
<1>7. CASE Tick
  BY <1>7 DEF Tick, Elapsed
<1>8. CASE UNCHANGED vars
  BY <1>8 DEF vars, Elapsed
<1> QED  BY <1>1, <1>2, <1>3, <1>4, <1>5, <1>6, <1>7, <1>8 DEF Next, Loading, Stream

\* The read goes on where it was but for what a step of it changes.
LEMMA ReadFetched ==
  ASSUME NEW s \in Slices, NEW requests \in SUBSET Slices, Fetched(s, requests)
  PROVE  /\ read # None /\ read \in Readings /\ result' = result
         /\ UNCHANGED <<market, concurrent, table, skipped>>
         /\ read'.kind = read.kind /\ read'.start = read.start /\ read'.stop = read.stop
         /\ read'.began = read.began /\ read'.work = read.work
         /\ read'.asked = read.asked \cup DaysOf(s.start, s.stop)
BY DEF Fetched, Readings

LEMMA ReadMerged ==
  ASSUME NEW p, NEW n, Merged(p, n)
  PROVE  /\ read # None /\ read \in Readings /\ result' = result
         /\ UNCHANGED <<market, concurrent, table, todo, skipped>>
         /\ read'.kind = read.kind /\ read'.start = read.start /\ read'.stop = read.stop
         /\ read'.began = read.began /\ read'.asked = read.asked
         /\ read'.work \in Tables
         /\ Rows(read'.work) = Rows(read.work) \cup BarsAt(p.slice, n)
         /\ ~concurrent =>
              \A r \in Rows(read'.work) :
                read'.work[r] = IF r \in BarsAt(p.slice, n)
                                  THEN IF r = n THEN "part" ELSE "final"
                                  ELSE read.work[r]
<1>1. /\ read # None /\ read \in Readings /\ result' = result
      /\ UNCHANGED <<market, concurrent, table, todo, skipped>>
  BY DEF Merged
<1>2. PICK work \in Tables :
       /\ read' = [read EXCEPT !.work = work]
       /\ Rows(work) = Rows(read.work) \cup BarsAt(p.slice, n)
       /\ ~concurrent =>
            \A r \in Rows(work) :
              work[r] = IF r \in BarsAt(p.slice, n)
                          THEN IF r = n THEN "part" ELSE "final"
                          ELSE read.work[r]
  BY DEF Merged
<1>3. /\ read'.kind = read.kind /\ read'.start = read.start /\ read'.stop = read.stop
      /\ read'.began = read.began /\ read'.asked = read.asked /\ read'.work = work
  BY <1>1, <1>2 DEF Readings
<1> QED  BY <1>1, <1>2, <1>3

(***************************************************************************)
(* Without concurrency every row of a day that was asked for again, before  *)
(* the read began, is final or comes with the request under way.            *)
(***************************************************************************)
HealsUnderWay ==
  read # None /\ ~concurrent =>
    \A r \in read.asked \cap Rows(read.work) : r < read.began =>
      read.work[r] = "final" \/ \E p \in pieces : Covers(p.slice, r)

HealsInv == TypeInv /\ HealsUnderWay /\ LoadingHeals

LEMMA HealsFetched ==
  ASSUME HealsInv, NEW s \in Slices, NEW requests \in SUBSET Slices, Fetched(s, requests)
  PROVE  HealsUnderWay'
<1>1. /\ read # None /\ concurrent' = concurrent /\ read'.began = read.began
      /\ read'.work = read.work
      /\ read'.asked = read.asked \cup DaysOf(s.start, s.stop)
  BY ReadFetched
<1> SUFFICES ASSUME ~concurrent, NEW r \in read'.asked \cap Rows(read.work),
                    r < read.began
             PROVE  read.work[r] = "final" \/ \E p \in pieces' : Covers(p.slice, r)
  BY <1>1 DEF HealsUnderWay
<1>2. pieces = {} /\ pieces' = {Request(s)}
  BY DEF Fetched, Requested
<1>3. CASE r \in read.asked
  BY <1>1, <1>2, <1>3 DEF HealsInv, HealsUnderWay
<1>4. CASE r \in DaysOf(s.start, s.stop)
  <2>1. Day(s.start) \in Int /\ Day(s.stop) \in Int /\ Day(r) \in Day(s.start) .. Day(s.stop)
    BY <1>4, MinutesAreNumbers, DaysGrow DEF DaysOf, Slices
  <2>2. Covers(Request(s).slice, r)
    BY <2>1 DEF Covers, Request
  <2> QED  BY <1>2, <2>2
<1> QED  BY <1>1, <1>3, <1>4

LEMMA HealsMerged ==
  ASSUME HealsInv, NEW p \in pieces, NEW n \in Minutes, Merged(p, n)
  PROVE  HealsUnderWay'
<1>1. /\ read # None /\ read \in Readings /\ concurrent' = concurrent
      /\ read'.began = read.began /\ read'.asked = read.asked
      /\ Rows(read'.work) = Rows(read.work) \cup BarsAt(p.slice, n)
  BY ReadMerged
<1>2. pieces' = {} \/ concurrent
  BY DEF Merged
<1> SUFFICES ASSUME ~concurrent, NEW r \in read.asked \cap Rows(read'.work),
                    r < read.began
             PROVE  read'.work[r] = "final"
  BY <1>1 DEF HealsUnderWay
<1>3. read'.work[r] = IF r \in BarsAt(p.slice, n) THEN IF r = n THEN "part" ELSE "final"
                      ELSE read.work[r]
  BY ReadMerged
<1>4. r \in Nat /\ n \in Nat /\ read.began \in Nat /\ read.began <= n /\ r < n
  <2>1. read.asked \subseteq Minutes /\ read.began \in Minutes
    BY <1>1 DEF Readings
  <2> QED  BY <2>1, MinutesAreNumbers DEF Merged
<1>5. CASE r \in BarsAt(p.slice, n)
  BY <1>3, <1>4, <1>5
<1>6. CASE r \notin BarsAt(p.slice, n)
  <2>1. r \in Rows(read.work) /\ pieces = {p}
    BY <1>1, <1>6 DEF Merged
  <2>2. r \in market /\ market \subseteq Minutes
    BY <1>1, <2>1 DEF HealsInv, TypeInv, TypeOK, ReadTyped, RowsTraded, Traded
  <2>3. ~Covers(p.slice, r)
    <3>1. p.slice \in Slices
      BY DEF Merged
    <3>2. Covers(p.slice, r) /\ r <= n => r \in BarsAt(p.slice, n)
      BY <2>2, <3>1, AnswerIsWhole DEF Covers
    <3> QED  BY <1>4, <1>6, <3>2
  <2>4. read.work[r] = "final"
    BY <1>1, <2>1, <2>3 DEF HealsInv, HealsUnderWay
  <2> QED  BY <1>3, <1>6, <2>4
<1> QED  BY <1>5, <1>6

LEMMA HealsEnds ==
  ASSUME HealsInv, EndRead
  PROVE  LoadingHeals'
<1>1. TypeInv
  BY DEF HealsInv
<1>2. read # None /\ pieces = {} /\ result = None /\ concurrent' = concurrent
  BY <1>1, ReadEnds
<1>3. CASE result' = None
  BY <1>3 DEF LoadingHeals
<1>4. CASE /\ table' = read.work
           /\ result' = [kind |-> read.kind, start |-> read.start,
                         stop |-> read.stop, n |-> read.n,
                         began |-> read.began, asked |-> read.asked,
                         rows |-> Returned(read)]
  <2>1. result'.asked = read.asked /\ result'.began = read.began
    BY <1>4
  <2>2. ~concurrent => \A r \in read.asked \cap Rows(read.work) :
                         r < read.began => read.work[r] = "final"
    BY <1>2 DEF HealsInv, HealsUnderWay
  <2> QED  BY <1>2, <1>4, <2>1, <2>2 DEF LoadingHeals
<1> QED  BY <1>1, <1>2, <1>3, <1>4, ReadEnds

LEMMA HealsStep ==
  ASSUME HealsInv, [Next]_vars
  PROVE  HealsInv'
<1>1. TypeInv /\ TypeInv' /\ HealsUnderWay /\ LoadingHeals
  BY TypeStep DEF HealsInv
<1>2. CASE Begun
  <2>1. HealsUnderWay'
    BY <1>2 DEF HealsUnderWay, Begun
  <2>2. LoadingHeals'
    BY <1>2 DEF LoadingHeals, Begun
  <2> QED  BY <1>1, <2>1, <2>2 DEF HealsInv
<1>3. ASSUME NEW s \in Slices, NEW requests \in SUBSET Slices, Fetched(s, requests)
      PROVE  HealsInv'
  <2>1. LoadingHeals'
    BY <1>1, <1>3, ReadFetched DEF LoadingHeals
  <2> QED  BY <1>1, <1>3, <2>1, HealsFetched DEF HealsInv
<1>4. ASSUME NEW p \in pieces, Replied(p) PROVE HealsInv'
  <2>1. LoadingHeals'
    BY <1>1, <1>4 DEF LoadingHeals, Replied
  <2>2. HealsUnderWay'
    BY <1>1, <1>4 DEF HealsUnderWay, Replied
  <2> QED  BY <1>1, <2>1, <2>2 DEF HealsInv
<1>5. ASSUME NEW p \in pieces, NEW n \in Minutes, Merged(p, n) PROVE HealsInv'
  <2>1. LoadingHeals'
    BY <1>1, <1>5, ReadMerged DEF LoadingHeals
  <2> QED  BY <1>1, <1>5, <2>1, HealsMerged DEF HealsInv
<1>6. CASE EndRead
  <2>1. HealsUnderWay'
    BY <1>1, <1>6, ReadEnds DEF HealsUnderWay
  <2> QED  BY <1>1, <1>6, <2>1, HealsEnds DEF HealsInv
<1>7. ASSUME NEW t \in Minutes, NEW ev, Given(t, ev) PROVE HealsInv'
  BY <1>1, <1>7 DEF HealsInv, HealsUnderWay, LoadingHeals, Given
<1>8. CASE Dropped
  BY <1>1, <1>8 DEF HealsInv, HealsUnderWay, LoadingHeals, Dropped
<1>9. CASE Elapsed
  BY <1>1, <1>9 DEF HealsInv, HealsUnderWay, LoadingHeals, Elapsed
<1> QED  BY <1>1, <1>2, <1>3, <1>4, <1>5, <1>6, <1>7, <1>8, <1>9, Steps

\* LoadingHeals, the rows of a day loaded again being final without
\* concurrency, holds for every market and every order of reads and messages.
THEOREM LoadingHealsAlways == Spec => []LoadingHeals
<1>1. Init => HealsInv
  BY TypeInit DEF Init, HealsInv, HealsUnderWay, LoadingHeals
<1>2. HealsInv /\ [Next]_vars => HealsInv'
  BY HealsStep
<1>3. HealsInv => LoadingHeals
  BY DEF HealsInv
<1> QED  BY <1>1, <1>2, <1>3, PTL DEF Spec

(***************************************************************************)
(* No gaps: every bar between a row's day and a row is a row, or was jumped *)
(* over by the stream.  During a read the requests under way count with the *)
(* rows, and what is still to be loaded meets them.                         *)
(***************************************************************************)
Gapless(tbl, but) ==
  \A t \in market, u, v \in Rows(tbl) :
    Day(u) <= Day(t) /\ t <= v => t \in Rows(tbl) \cup but

Left(t) == \/ \E u \in Rows(read.work) : Day(u) <= Day(t)
           \/ \E p \in pieces : Day(p.slice.start) <= Day(t)
Right(t) == \/ \E u \in Rows(read.work) : t <= u
            \/ \E p \in pieces : t <= p.slice.stop
Filled(t) == \/ t \in Rows(read.work) \cup skipped
             \/ \E p \in pieces : Covers(p.slice, t)
GapsUnderWay == \A t \in market : Left(t) /\ Right(t) => Filled(t)

TodoMeets ==
  IF Rows(read.work) = {} THEN todo = << >> \/ (Len(todo) = 1 /\ pieces = {})
  ELSE \A i \in DOMAIN todo : Meets(todo[i], read.work)

\* With concurrency pieces are answered at several moments: nothing is asked
\* for beyond the one at which the read began.
PastOnly ==
  concurrent =>
    /\ \A p \in pieces : p.slice.start <= read.began
    /\ \A i \in DOMAIN todo : todo[i].start <= read.began /\ todo[i].stop <= read.began + 1
    /\ \A t \in market, v \in Rows(read.work) :
         read.began <= t /\ t <= v => t \in Rows(read.work)

GaplessInv ==
  /\ TypeInv
  /\ Gapless(table, skipped)
  /\ read # None => GapsUnderWay /\ TodoMeets /\ PastOnly

LEMMA MarketDays ==
  ASSUME TypeInv, NEW t \in market
  PROVE  t \in Minutes /\ t \in Nat /\ Day(t) \in Int /\ Day(t) \in TradingDays
BY MinutesAreNumbers DEF TypeInv, TypeOK

LEMMA WorkDays ==
  ASSUME TypeInv, read # None
  PROVE  /\ read \in Readings /\ read.work \in Tables /\ Rows(read.work) \subseteq market
         /\ Rows(read.work) \subseteq Minutes
         /\ \A u \in Rows(read.work) : u \in Nat /\ Day(u) \in Int /\ u <= now
         /\ read.began \in Nat /\ now \in Nat /\ read.began <= now
<1>1. read \in Readings /\ now \in Minutes
  BY DEF TypeInv, TypeOK
<1>2. read.work \in Tables /\ read.began \in Minutes
  BY <1>1 DEF Readings
<1>3. Rows(read.work) \subseteq Minutes
  BY <1>2, RowsOfTable
<1>4. Rows(read.work) \subseteq Traded /\ read.began <= now
  BY DEF TypeInv, ReadTyped, RowsTraded
<1> QED  BY <1>1, <1>2, <1>3, <1>4, MinutesAreNumbers DEF Traded

LEMMA SliceDays ==
  ASSUME NEW s \in Slices
  PROVE  /\ s.start \in Minutes /\ s.start \in Nat /\ s.stop \in Nat /\ s.start <= s.stop
         /\ Day(s.start) \in Int /\ Day(s.stop) \in Int
BY MinutesAreNumbers, DaysGrow DEF Slices

\* A row written by the stream leaves the gaps it is said to.
LEMMA WriteJumps ==
  ASSUME TypeInv, NEW tbl \in Tables, tbl # << >>, Gapless(tbl, skipped),
         NEW t \in Traded, NEW ev
  PROVE  Gapless(Write(t, ev, tbl),
                 (skipped \cup Jumped(t, tbl)) \ Rows(Write(t, ev, tbl)))
<1> DEFINE new == Newest(tbl)
           old == Oldest(tbl)
<1>1. /\ t \in Minutes /\ t \in Nat /\ Day(t) \in Int
      /\ Rows(Write(t, ev, tbl)) = Rows(tbl) \cup {t}
      /\ Rows(tbl) \subseteq Minutes
  BY WriteIsTable, RowsOfTable, MarketDays DEF Traded
<1>2. /\ new \in Rows(tbl) /\ old \in Rows(tbl) /\ new \in Nat /\ old \in Nat
      /\ \A r \in Rows(tbl) : old <= r /\ r <= new
      /\ Day(old) \in Int
  <2>1. Rows(tbl) # {}
    BY RowsOfTable
  <2>2. /\ new \in Rows(tbl) /\ old \in Rows(tbl)
        /\ \A r \in Rows(tbl) : old <= r /\ r <= new
    BY <1>1, <2>1, EndsOfRows DEF Newest, Oldest
  <2> QED  BY <1>1, <2>2, MinutesAreNumbers
<1> HIDE DEF new, old
<1> SUFFICES ASSUME NEW m \in market, NEW u \in Rows(tbl) \cup {t},
                    NEW v \in Rows(tbl) \cup {t}, Day(u) <= Day(m), m <= v
             PROVE  m \in Rows(tbl) \cup {t} \cup skipped \cup Jumped(t, tbl)
  BY <1>1 DEF Gapless
<1>3. /\ m \in Nat /\ Day(m) \in Int
      /\ u \in Nat /\ v \in Nat
  BY <1>1, MarketDays, MinutesAreNumbers
<1>4. CASE new < m
  <2>1. v = t
    BY <1>2, <1>3, <1>4
  <2>2. m = t \/ m < t
    BY <1>1, <1>3, <2>1
  <2> QED  BY <1>4, <2>2 DEF Jumped, new
<1>5. CASE m <= new /\ Day(old) <= Day(m)
  BY <1>2, <1>5 DEF Gapless
<1>6. CASE m <= new /\ Day(m) < Day(old)
  <2>1. m < old /\ \A r \in Rows(tbl) : ~(Day(r) <= Day(m))
    <3>1. m < old
      BY <1>2, <1>3, <1>6, DaysGrow
    <3>2. ASSUME NEW r \in Rows(tbl) PROVE ~(Day(r) <= Day(m))
      <4>1. r \in Nat /\ Day(r) \in Int /\ old <= r
        BY <1>1, <1>2, MinutesAreNumbers
      <4>2. Day(old) <= Day(r)
        BY <1>2, <4>1, DaysGrow
      <4> QED  BY <1>2, <1>3, <1>6, <4>1, <4>2
    <3> QED  BY <3>1, <3>2
  <2>2. u = t
    BY <2>1
  <2>3. t < old
    <3>1. Day(t) < Day(old)
      BY <1>1, <1>2, <1>3, <1>6, <2>2
    <3> QED  BY <1>1, <1>2, <3>1, DaysGrow
  <2> QED  BY <2>1, <2>2, <2>3 DEF Jumped, old
<1>7. m <= new \/ new < m
  BY <1>2, <1>3
<1>8. Day(old) <= Day(m) \/ Day(m) < Day(old)
  BY <1>2, <1>3
<1> QED  BY <1>4, <1>5, <1>6, <1>7, <1>8

LEMMA GaplessBegun ==
  ASSUME GaplessInv, Begun
  PROVE  GapsUnderWay' /\ TodoMeets' /\ PastOnly'
<1>1. /\ TypeInv /\ Gapless(table, skipped) /\ pieces' = {} /\ Fit(todo')
      /\ read'.work = table /\ read'.began = now
      /\ UNCHANGED <<market, now, concurrent, table, skipped>>
  BY DEF GaplessInv, TypeInv, TypeOK, Begun
<1>2. GapsUnderWay'
  BY <1>1 DEF GapsUnderWay, Left, Right, Filled, Gapless
<1>3. TodoMeets'
  <2>1. todo' \in Seq(Slices)
    BY DEF Begun
  <2> QED  BY <1>1, <2>1 DEF TodoMeets, Fit
<1>4. PastOnly'
  <2> SUFFICES ASSUME concurrent, NEW t \in market, NEW v \in Rows(table), now <= t, t <= v
               PROVE  t \in Rows(table)
    BY <1>1 DEF PastOnly, Fit
  <2>1. v <= now /\ v \in Nat /\ t \in Nat /\ now \in Nat
    <3>1. v \in Traded
      BY DEF GaplessInv, TypeInv, RowsTraded
    <3>2. v <= now /\ v \in market /\ now \in Minutes
      BY <1>1, <3>1 DEF Traded, TypeInv, TypeOK
    <3> QED  BY <1>1, <3>2, MarketDays, MinutesAreNumbers
  <2>2. t = v
    BY <2>1
  <2> QED  BY <2>2
<1> QED  BY <1>2, <1>3, <1>4

LEMMA GaplessFetched ==
  ASSUME GaplessInv, NEW s \in Slices, NEW requests \in SUBSET Slices, Fetched(s, requests)
  PROVE  GapsUnderWay' /\ TodoMeets' /\ PastOnly'
<1>1. /\ TypeInv /\ read # None /\ pieces = {} /\ todo \in Seq(Slices) /\ todo # << >>
      /\ s = Head(todo) /\ todo' = Tail(todo)
      /\ GapsUnderWay /\ TodoMeets /\ PastOnly
      /\ Requested(s, requests) /\ pieces' = {Request(r) : r \in requests}
      /\ UNCHANGED <<market, concurrent, skipped>>
      /\ read'.began = read.began /\ read'.work = read.work
  <2>1. TypeInv /\ GapsUnderWay /\ TodoMeets /\ PastOnly
    BY ReadFetched DEF GaplessInv
  <2> QED  BY <2>1, ReadFetched DEF Fetched, TypeInv, TypeOK
<1>2. /\ s = todo[1] /\ 1 \in DOMAIN todo
      /\ DOMAIN todo' = 1 .. (Len(todo) - 1)
      /\ \A i \in DOMAIN todo' : i + 1 \in DOMAIN todo /\ todo'[i] = todo[i + 1]
  BY <1>1, HeadTailProperties
<1>3. \A p \in pieces' : p.slice \in requests
  BY <1>1 DEF Request
<1>4. \A r \in requests : \E p \in pieces' : p.slice = r
  <2>1. \A r \in requests : Request(r) \in pieces' /\ Request(r).slice = r
    BY <1>1 DEF Request
  <2> QED  BY <2>1
<1>5. /\ \A r \in requests : r \in Slices /\ s.start <= r.start /\ r.stop <= s.stop
                             /\ (r.start < s.stop \/ r.start = s.start)
      /\ requests = {} \/ \A t \in Minutes : Covers(s, t) => \E r \in requests : Covers(r, t)
  BY <1>1 DEF Requested
<1>6. GapsUnderWay'
  <2> SUFFICES ASSUME NEW t \in market, Left(t)', Right(t)'
               PROVE  Filled(t)'
    BY <1>1 DEF GapsUnderWay
  <2> DEFINE before == \E u \in Rows(read.work) : Day(u) <= Day(t)
             behind == \E u \in Rows(read.work) : t <= u
  <2>1. t \in Minutes /\ t \in Nat /\ Day(t) \in Int
    BY <1>1, MarketDays
  <2>2. before /\ behind => t \in Rows(read.work) \cup skipped
    BY <1>1 DEF GapsUnderWay, Left, Right, Filled
  <2>3. before \/ (requests # {} /\ Day(s.start) <= Day(t))
    <3> SUFFICES ASSUME NEW p \in pieces', Day(p.slice.start) <= Day(t)
                 PROVE  requests # {} /\ Day(s.start) <= Day(t)
      BY <1>1 DEF Left
    <3>1. p.slice \in requests /\ p.slice \in Slices /\ s.start <= p.slice.start
      BY <1>3, <1>5
    <3>2. Day(s.start) <= Day(p.slice.start) /\ Day(s.start) \in Int
          /\ Day(p.slice.start) \in Int
      BY <3>1, SliceDays, DaysGrow
    <3> QED  BY <2>1, <3>1, <3>2
  <2>4. behind \/ (requests # {} /\ t <= s.stop /\ Day(t) <= Day(s.stop))
    <3> SUFFICES ASSUME NEW p \in pieces', t <= p.slice.stop
                 PROVE  requests # {} /\ t <= s.stop /\ Day(t) <= Day(s.stop)
      BY <1>1 DEF Right
    <3>1. p.slice \in requests /\ p.slice \in Slices /\ p.slice.stop <= s.stop
      BY <1>3, <1>5
    <3>2. t <= s.stop
      BY <2>1, <3>1, SliceDays
    <3> QED  BY <2>1, <3>1, <3>2, SliceDays, DaysGrow
  <2>5. requests # {} /\ Covers(s, t) => Filled(t)'
    BY <1>4, <1>5, <2>1 DEF Filled
  <2>6. before /\ behind => Filled(t)'
    BY <1>1, <2>2 DEF Filled
  <2>7. Rows(read.work) # {} =>
          /\ \E w \in Rows(read.work) : Day(s.start) <= Day(w)
          /\ \E u \in Rows(read.work) : Day(u) <= Day(s.stop)
    BY <1>1, <1>2 DEF TodoMeets, Meets
  <2>8. CASE before /\ ~behind
    <3>1. requests # {} /\ t <= s.stop /\ Day(t) <= Day(s.stop)
      BY <2>4, <2>8
    <3>2. PICK w \in Rows(read.work) : Day(s.start) <= Day(w)
      BY <2>7, <2>8
    <3>3. w \in Nat /\ Day(w) \in Int /\ Day(s.start) \in Int
      BY <1>1, WorkDays, SliceDays
    <3>4. Day(s.start) <= Day(t)
      <4>1. w < t
        BY <2>1, <2>8, <3>3
      <4>2. Day(w) <= Day(t)
        BY <2>1, <3>3, <4>1, DaysGrow
      <4> QED  BY <2>1, <3>2, <3>3, <4>2
    <3> QED  BY <2>5, <3>1, <3>4 DEF Covers
  <2>9. CASE ~before /\ behind
    <3>1. requests # {} /\ Day(s.start) <= Day(t)
      BY <2>3, <2>9
    <3>2. PICK u \in Rows(read.work) : Day(u) <= Day(s.stop)
      BY <2>7, <2>9
    <3>3. Day(u) \in Int /\ Day(s.stop) \in Int
      BY <1>1, WorkDays, SliceDays
    <3>4. Day(t) <= Day(s.stop)
      BY <2>1, <2>9, <3>2, <3>3
    <3> QED  BY <2>5, <3>1, <3>4 DEF Covers
  <2>10. CASE ~before /\ ~behind
    BY <2>3, <2>4, <2>5, <2>10 DEF Covers
  <2> QED  BY <2>6, <2>8, <2>9, <2>10
<1>7. TodoMeets'
  <2>1. CASE Rows(read.work) = {}
    <3>1. todo' = << >>
      BY <1>1, <2>1 DEF TodoMeets
    <3> QED  BY <1>1, <2>1, <3>1 DEF TodoMeets
  <2>2. CASE Rows(read.work) # {}
    <3>1. \A i \in DOMAIN todo' : Meets(todo'[i], read.work)
      BY <1>1, <1>2, <2>2 DEF TodoMeets
    <3> QED  BY <1>1, <2>2, <3>1 DEF TodoMeets, Meets
  <2> QED  BY <2>1, <2>2
<1>8. PastOnly'
  <2> SUFFICES ASSUME concurrent PROVE PastOnly'
    BY <1>1 DEF PastOnly
  <2>1. s.start <= read.began /\ s.stop <= read.began + 1
    BY <1>1, <1>2 DEF PastOnly
  <2>2. \A p \in pieces' : p.slice.start <= read.began
    <3> SUFFICES ASSUME NEW p \in pieces' PROVE p.slice.start <= read.began
      OBVIOUS
    <3>1. /\ p.slice \in Slices
          /\ p.slice.start < s.stop \/ p.slice.start = s.start
      BY <1>3, <1>5
    <3>2. /\ p.slice.start \in Nat /\ s.start \in Nat /\ s.stop \in Nat
          /\ read.began \in Nat
      BY <1>1, <3>1, SliceDays, WorkDays
    <3> QED  BY <2>1, <3>1, <3>2
  <2>3. \A i \in DOMAIN todo' : todo'[i].start <= read.began /\ todo'[i].stop <= read.began + 1
    BY <1>1, <1>2 DEF PastOnly
  <2> QED  BY <1>1, <2>2, <2>3 DEF PastOnly
<1> QED  BY <1>6, <1>7, <1>8

LEMMA GaplessMerged ==
  ASSUME GaplessInv, NEW p \in pieces, NEW n \in Minutes, Merged(p, n)
  PROVE  GapsUnderWay' /\ TodoMeets' /\ PastOnly'
<1> DEFINE bars == BarsAt(p.slice, n)
<1>1. /\ TypeInv /\ read # None /\ pieces' = pieces \ {p}
      /\ GapsUnderWay /\ TodoMeets /\ PastOnly
      /\ UNCHANGED <<market, concurrent, todo, skipped>>
      /\ read'.began = read.began
      /\ Rows(read'.work) = Rows(read.work) \cup bars
      /\ p.slice \in Slices /\ bars # {}
      /\ n \in Nat /\ read.began <= n
      /\ ~concurrent => pieces' = {} /\ \A r \in Rows(read.work) : r <= n
  <2>1. TypeInv /\ GapsUnderWay /\ TodoMeets /\ PastOnly
    BY ReadMerged DEF GaplessInv
  <2> QED  BY <2>1, ReadMerged, MinutesAreNumbers DEF Merged
<1>2. \A t \in bars : t \in market /\ t <= n /\ Day(p.slice.start) <= Day(t)
  <2>1. \A t \in bars : t \in market /\ t <= n /\ Day(t) >= Day(p.slice.start)
    BY DEF BarsAt
  <2> QED  BY <1>1, <2>1, MarketDays, SliceDays
<1>3. ASSUME NEW t \in market, Day(p.slice.start) <= Day(t)
      PROVE  /\ \A v \in bars : t <= v => t \in bars
             /\ Covers(p.slice, t) /\ t <= n => t \in bars
  <2>1. market \subseteq Minutes
    BY <1>1 DEF TypeInv, TypeOK
  <2> QED  BY <1>1, <1>3, <2>1, AnswerIsWhole
<1> HIDE DEF bars
<1>4. GapsUnderWay'
  <2> SUFFICES ASSUME NEW t \in market, Left(t)', Right(t)'
               PROVE  Filled(t)'
    BY <1>1 DEF GapsUnderWay
  <2>1. t \in Minutes /\ t \in Nat /\ Day(t) \in Int
    BY <1>1, MarketDays
  <2>2. Left(t)
    <3>1. CASE \E u \in bars : Day(u) <= Day(t)
      <4>1. PICK u \in bars : Day(u) <= Day(t)
        BY <3>1
      <4>2. Day(p.slice.start) <= Day(u) /\ Day(u) \in Int /\ Day(p.slice.start) \in Int
        BY <1>1, <1>2, MarketDays, SliceDays
      <4>3. Day(p.slice.start) <= Day(t)
        BY <2>1, <4>1, <4>2
      <4> QED  BY <4>3 DEF Left
    <3>2. CASE \E u \in Rows(read.work) : Day(u) <= Day(t)
      BY <3>2 DEF Left
    <3>3. CASE \E q \in pieces' : Day(q.slice.start) <= Day(t)
      BY <1>1, <3>3 DEF Left
    <3> QED  BY <1>1, <3>1, <3>2, <3>3 DEF Left
  <2>3. Right(t) \/ (t \in bars)
    <3>1. CASE \E v \in bars : t <= v
      <4>1. CASE Day(p.slice.start) <= Day(t)
        BY <1>3, <3>1, <4>1
      <4>2. CASE Day(t) < Day(p.slice.start)
        <5>1. t <= p.slice.stop
          BY <1>1, <2>1, <4>2, SliceDays, DaysGrow
        <5> QED  BY <5>1 DEF Right
      <4>3. Day(p.slice.start) \in Int
        BY <1>1, SliceDays
      <4> QED  BY <2>1, <4>1, <4>2, <4>3
    <3>2. CASE \E u \in Rows(read.work) : t <= u
      BY <3>2 DEF Right
    <3>3. CASE \E q \in pieces' : t <= q.slice.stop
      BY <1>1, <3>3 DEF Right
    <3> QED  BY <1>1, <3>1, <3>2, <3>3 DEF Right
  <2>4. t \in Rows(read.work) \cup bars \cup skipped => Filled(t)'
    BY <1>1 DEF Filled
  <2>5. (\E q \in pieces' : Covers(q.slice, t)) => Filled(t)'
    BY <1>1 DEF Filled
  <2>6. t \in bars \/ Filled(t)
    BY <1>1, <2>2, <2>3 DEF GapsUnderWay
  <2>7. CASE Covers(p.slice, t) /\ t \notin bars
    <3>1. n < t
      BY <1>1, <1>3, <2>1, <2>7 DEF Covers
    <3>2. \A v \in bars : ~(t <= v)
      BY <1>3, <2>7 DEF Covers
    <3>3. CASE ~concurrent
      <4>1. \A v \in Rows(read.work) : ~(t <= v)
        BY <1>1, <2>1, <3>1, <3>3, WorkDays
      <4> QED  BY <1>1, <3>2, <3>3, <4>1 DEF Right
    <3>4. CASE concurrent
      <4>1. read.began <= t /\ read.began \in Nat
        BY <1>1, <2>1, <3>1, WorkDays
      <4>2. CASE \E v \in Rows(read.work) : t <= v
        BY <1>1, <2>4, <3>4, <4>1, <4>2 DEF PastOnly
      <4>3. CASE \E q \in pieces' : t <= q.slice.stop
        <5>1. PICK q \in pieces' : t <= q.slice.stop
          BY <4>3
        <5>2. q.slice.start <= read.began /\ q.slice \in Slices
          BY <1>1, <3>4, <5>1 DEF PastOnly, TypeInv, TypeOK
        <5>3. q.slice.start <= t
          BY <2>1, <4>1, <5>2, SliceDays
        <5>4. Covers(q.slice, t)
          BY <2>1, <5>1, <5>2, <5>3, SliceDays, DaysGrow DEF Covers
        <5> QED  BY <2>5, <5>4
      <4> QED  BY <1>1, <3>2, <4>2, <4>3 DEF Right
    <3> QED  BY <3>3, <3>4
  <2> QED  BY <1>1, <2>4, <2>5, <2>6, <2>7 DEF Filled
<1>5. TodoMeets'
  <2>1. Rows(read'.work) # {}
    BY <1>1
  <2>2. CASE Rows(read.work) = {}
    <3>1. todo = << >>
      BY <2>2, <1>1 DEF TodoMeets
    <3> QED  BY <1>1, <2>1, <3>1 DEF TodoMeets
  <2>3. CASE Rows(read.work) # {}
    <3>1. \A i \in DOMAIN todo : Meets(todo[i], read.work)
      BY <1>1, <2>3 DEF TodoMeets
    <3>2. \A i \in DOMAIN todo : Meets(todo[i], read'.work)
      BY <1>1, <3>1 DEF Meets
    <3> QED  BY <1>1, <2>1, <3>2 DEF TodoMeets, Meets
  <2> QED  BY <2>2, <2>3
<1>6. PastOnly'
  <2> SUFFICES ASSUME concurrent, NEW t \in market, NEW v \in bars, read.began <= t, t <= v
               PROVE  t \in Rows(read.work) \cup bars
    BY <1>1 DEF PastOnly
  <2>1. /\ p.slice.start <= read.began /\ p.slice.start \in Nat
        /\ read.began \in Nat /\ t \in Nat
    BY <1>1, MarketDays, SliceDays, WorkDays DEF PastOnly
  <2>2. Day(p.slice.start) <= Day(t)
    BY <2>1, DaysGrow
  <2> QED  BY <1>3, <2>2
<1> QED  BY <1>4, <1>5, <1>6

LEMMA GaplessEnds ==
  ASSUME GaplessInv, EndRead
  PROVE  Gapless(table, skipped)'
<1>1. TypeInv /\ read # None /\ pieces = {} /\ market' = market
  BY ReadEnds DEF GaplessInv
<1>2. Gapless(table, skipped) /\ Gapless(read.work, skipped)
  <2>1. GapsUnderWay
    BY <1>1 DEF GaplessInv
  <2> QED  BY <1>1, <2>1 DEF GaplessInv, GapsUnderWay, Left, Right, Filled, Gapless
<1>3. CASE UNCHANGED <<table, result, skipped>>
  BY <1>1, <1>2, <1>3 DEF Gapless
<1>4. CASE table' = read.work /\ skipped' = skipped \ Rows(table')
  <2>1. Rows(read.work) \cup skipped = Rows(table') \cup skipped'
    BY <1>4
  <2> QED  BY <1>1, <1>2, <1>4, <2>1 DEF Gapless
<1>5. CASE /\ read.work # << >> /\ read.then.at \in Traded
           /\ table' = Write(read.then.at, read.then.ev, read.work)
           /\ skipped' = (skipped \cup Jumped(read.then.at, read.work)) \ Rows(table')
  <2>1. read.work \in Tables
    BY <1>1, WorkDays
  <2>2. Gapless(table', skipped')
    BY <1>1, <1>2, <1>5, <2>1, WriteJumps
  <2> QED  BY <1>1, <2>2 DEF Gapless
<1> QED  BY <1>1, <1>3, <1>4, <1>5, ReadEnds

LEMMA GaplessStep ==
  ASSUME GaplessInv, [Next]_vars
  PROVE  GaplessInv'
<1>1. TypeInv /\ TypeInv' /\ Gapless(table, skipped)
  BY TypeStep DEF GaplessInv
<1>2. CASE Begun
  <2>1. Gapless(table, skipped)'
    BY <1>1, <1>2 DEF Gapless, Begun
  <2> QED  BY <1>1, <1>2, <2>1, GaplessBegun DEF GaplessInv
<1>3. ASSUME NEW s \in Slices, NEW requests \in SUBSET Slices, Fetched(s, requests)
      PROVE  GaplessInv'
  <2>1. Gapless(table, skipped)'
    BY <1>1, <1>3, ReadFetched DEF Gapless
  <2> QED  BY <1>1, <1>3, <2>1, GaplessFetched DEF GaplessInv
<1>4. ASSUME NEW p \in pieces, Replied(p) PROVE GaplessInv'
  <2>1. /\ read # None /\ UNCHANGED <<market, concurrent, table, read, todo, skipped>>
    BY <1>4 DEF Replied
  <2>2. GapsUnderWay /\ TodoMeets /\ PastOnly
    BY <2>1 DEF GaplessInv
  <2>3. PICK a : a.slice = p.slice /\ pieces' = (pieces \ {p}) \cup {a}
    BY <1>4 DEF Replied
  <2>4. Gapless(table, skipped)'
    BY <1>1, <2>1 DEF Gapless
  <2>5. GapsUnderWay'
    <3> SUFFICES ASSUME NEW t \in market, Left(t)', Right(t)' PROVE Filled(t)'
      BY <2>1 DEF GapsUnderWay
    <3>1. Left(t) /\ Right(t)
      BY <2>1, <2>3 DEF Left, Right
    <3>2. Filled(t)
      BY <2>2, <3>1 DEF GapsUnderWay
    <3> QED  BY <2>1, <2>3, <3>2 DEF Filled
  <2>6. TodoMeets'
    BY <2>1, <2>2, <2>3 DEF TodoMeets, Meets
  <2>7. PastOnly'
    BY <2>1, <2>2, <2>3 DEF PastOnly
  <2> QED  BY <1>1, <2>4, <2>5, <2>6, <2>7 DEF GaplessInv
<1>5. ASSUME NEW p \in pieces, NEW n \in Minutes, Merged(p, n) PROVE GaplessInv'
  <2>1. Gapless(table, skipped)'
    BY <1>1, <1>5, ReadMerged DEF Gapless
  <2> QED  BY <1>1, <1>5, <2>1, GaplessMerged DEF GaplessInv
<1>6. CASE EndRead
  <2>1. read' = None
    BY <1>1, <1>6, ReadEnds
  <2> QED  BY <1>1, <1>6, <2>1, GaplessEnds DEF GaplessInv
<1>7. ASSUME NEW t \in Minutes, NEW ev, Given(t, ev) PROVE GaplessInv'
  <2>1. Gapless(table', skipped')
    <3>1. table \in Tables
      BY <1>1 DEF TypeInv, TypeOK
    <3> QED  BY <1>1, <1>7, <3>1, WriteJumps DEF Given
  <2>2. Gapless(table, skipped)'
    BY <1>7, <2>1 DEF Gapless, Given
  <2>3. read' = None
    BY <1>7 DEF Given
  <2> QED  BY <1>1, <2>2, <2>3 DEF GaplessInv
<1>8. CASE Dropped
  BY <1>1, <1>8 DEF GaplessInv, Gapless, Dropped
<1>9. CASE Elapsed
  BY <1>1, <1>9 DEF GaplessInv, Gapless, GapsUnderWay, Left, Right, Filled, TodoMeets,
                    Meets, PastOnly, Elapsed
<1> QED  BY <1>1, <1>2, <1>3, <1>4, <1>5, <1>6, <1>7, <1>8, <1>9, Steps

(***************************************************************************)
(* What a slice or a price needs of the table comes: a bar before the read  *)
(* began, up to the end of what is asked for and not before both its start  *)
(* and the rows, is a row, was jumped over, or is still to be loaded, unless *)
(* nothing is to come at all.                                               *)
(***************************************************************************)
ForTimes == read # None /\ read.kind \in {"slice", "key"}

Near(d) == Day(read.start) <= d \/ \E u \in Rows(read.work) : Day(u) <= d

Hopeless ==
  Rows(read.work) = {} /\ pieces = {} /\ \A i \in DOMAIN todo : ~Loads(todo[i])

Anchored ==
  /\ \A p \in pieces : Near(Day(p.slice.start))
  /\ \A i \in DOMAIN todo : Near(Day(todo[i].start))

WantedComes ==
  \A t \in market : t < read.began /\ t <= read.stop /\ Near(Day(t)) =>
    \/ Filled(t) \/ Hopeless
    \/ \E i \in DOMAIN todo : Covers(todo[i], t) /\ Loads(todo[i])

WantedInv ==
  /\ GaplessInv
  /\ ForTimes => Anchored /\ WantedComes
  /\ SliceComplete /\ KeyIsNewest

LEMMA NearGrows ==
  ASSUME TypeInv, read # None, NEW d \in Int, NEW e \in Int, d <= e, Near(d)
  PROVE  Near(e)
<1>1. /\ Day(read.start) \in Int
      /\ \A u \in Rows(read.work) : Day(u) \in Int
  BY WorkDays, MinutesAreNumbers DEF Readings
<1>2. CASE Day(read.start) <= d
  BY <1>1, <1>2 DEF Near
<1>3. CASE \E u \in Rows(read.work) : Day(u) <= d
  <2>1. PICK u \in Rows(read.work) : Day(u) <= d
    BY <1>3
  <2>2. Day(u) <= e
    BY <1>1, <2>1
  <2> QED  BY <2>2 DEF Near
<1> QED  BY <1>2, <1>3 DEF Near

\* _calc_data_to_fetch leaves nothing out of a table without gaps.
LEMMA ToFetchReaches ==
  ASSUME GaplessInv, NEW s \in Slices, Rows(table) # {}
  PROVE  /\ \A i \in DOMAIN ToFetch(s, table) :
              LET x == ToFetch(s, table)[i]
              IN x.start = s.start \/ x.start \in Rows(table)
         /\ \A t \in market :
              t <= s.stop /\ (Day(s.start) <= Day(t)
                              \/ \E u \in Rows(table) : Day(u) <= Day(t)) =>
                \/ t \in Rows(table) \cup skipped
                \/ \E i \in DOMAIN ToFetch(s, table) :
                     Covers(ToFetch(s, table)[i], t) /\ Loads(ToFetch(s, table)[i])
<1> DEFINE old == Oldest(table)
           new == Newest(table)
           before == [start |-> s.start, stop |-> old]
           after == [start |-> new, stop |-> s.stop]
           first == IF Day(s.start) < Day(old) THEN <<before>> ELSE << >>
           second == IF s.stop > new THEN <<after>> ELSE << >>
           all == first \o second
<1>1. /\ TypeInv /\ Gapless(table, skipped) /\ table \in Tables /\ table # << >>
      /\ Rows(table) \subseteq market
      /\ s.start \in Minutes /\ s.start \in Nat /\ s.stop \in Nat /\ s.start <= s.stop
      /\ s.stop \in 0 .. Days * PerDay
      /\ Day(s.start) \in Int /\ Day(s.stop) \in Int
  <2>1. TypeInv /\ Gapless(table, skipped) /\ table \in Tables /\ RowsTraded(table)
    BY DEF GaplessInv, TypeInv, TypeOK
  <2>2. table # << >> /\ Rows(table) \subseteq market
    BY <2>1, RowsOfTable DEF RowsTraded, Traded
  <2> QED  BY <2>1, <2>2, SliceDays DEF Slices
<1>2. /\ old \in Rows(table) /\ new \in Rows(table)
      /\ old \in Minutes /\ new \in Minutes /\ old \in Nat /\ new \in Nat
      /\ Day(old) \in Int /\ Day(new) \in Int
      /\ old \in 0 .. Days * PerDay
      /\ \A r \in Rows(table) : old <= r /\ r <= new
  BY <1>1, EndsOfTable, MinutesAreNumbers
<1>3. ToFetch(s, table) = all
  BY <1>1 DEF ToFetch
<1> HIDE DEF old, new
<1>4. Day(s.start) < Day(old) => before \in Slices
  <2>1. s.start \in Int /\ old \in Int
    BY <1>1, <1>2
  <2>2. Day(s.start) < Day(old) => s.start < old
    BY <2>1, DaysGrow
  <2> QED  BY <1>1, <1>2, <2>2, ASlice
<1>5. s.stop > new => after \in Slices
  BY <1>1, <1>2, ASlice
<1>6. before.start = s.start /\ before.stop = old /\ after.start = new /\ after.stop = s.stop
  OBVIOUS
<1> HIDE DEF before, after
<1>7. /\ Day(s.start) < Day(old) => \E i \in DOMAIN all : all[i] = before
      /\ s.stop > new => \E i \in DOMAIN all : all[i] = after
      /\ \A i \in DOMAIN all : all[i] = before \/ all[i] = after
  <2>1. CASE Day(s.start) < Day(old) /\ s.stop > new
    <3>1. all = <<before>> \o <<after>>
      BY <2>1
    <3>2. DOMAIN all = 1 .. 2 /\ all[1] = before /\ all[2] = after
      BY <1>4, <1>5, <2>1, <3>1, TwoSlices
    <3> HIDE DEF all
    <3> QED  BY <3>2
  <2>2. CASE Day(s.start) < Day(old) /\ ~(s.stop > new)
    <3>1. all = <<before>> \o << >>
      BY <2>2
    <3>2. <<before>> \in Seq({before})
      OBVIOUS
    <3>3. all = <<before>>
      BY <3>1, <3>2, ConcatEmptySeq
    <3> HIDE DEF all
    <3> QED  BY <2>2, <3>3
  <2>3. CASE ~(Day(s.start) < Day(old)) /\ s.stop > new
    <3>1. all = <<after>>
      BY <2>3
    <3> HIDE DEF all
    <3> QED  BY <2>3, <3>1
  <2>4. CASE ~(Day(s.start) < Day(old)) /\ ~(s.stop > new)
    <3>1. all = << >>
      BY <2>4
    <3> HIDE DEF all
    <3> QED  BY <2>4, <3>1
  <2> QED  BY <2>1, <2>2, <2>3, <2>4
<1> HIDE DEF all
<1>8. \A i \in DOMAIN all : all[i].start = s.start \/ all[i].start \in Rows(table)
  BY <1>2, <1>6, <1>7
<1>9. ASSUME NEW t \in market, t <= s.stop,
             Day(s.start) <= Day(t) \/ \E u \in Rows(table) : Day(u) <= Day(t)
      PROVE  \/ t \in Rows(table) \cup skipped
             \/ \E i \in DOMAIN all : Covers(all[i], t) /\ Loads(all[i])
  <2>1. t \in Minutes /\ t \in Nat /\ Day(t) \in Int /\ Day(t) \in TradingDays
    BY <1>1, MarketDays
  <2>2. CASE Day(t) < Day(old)
    <3>1. Day(s.start) <= Day(t)
      <4> SUFFICES ASSUME NEW u \in Rows(table), Day(u) <= Day(t) PROVE FALSE
        BY <1>9
      <4>1. u \in Nat /\ Day(u) \in Int /\ Day(old) <= Day(u)
        BY <1>1, <1>2, MarketDays, DaysGrow
      <4> QED  BY <1>2, <2>1, <2>2, <4>1
    <3>2. Day(s.start) < Day(old)
      BY <1>1, <1>2, <2>1, <2>2, <3>1
    <3>3. Covers(before, t) /\ before \in Slices
      BY <1>2, <1>4, <1>6, <2>1, <2>2, <3>1, <3>2 DEF Covers
    <3>4. NumTradingDays(before) > 0
      BY <1>6, <2>1, <2>2, <3>1, <3>3, RangeHasOpening
    <3> QED  BY <1>7, <3>2, <3>3, <3>4 DEF Loads
  <2>3. CASE ~(Day(t) < Day(old)) /\ t <= new
    <3>1. Day(old) <= Day(t)
      BY <1>2, <2>1, <2>3
    <3> QED  BY <1>1, <1>2, <2>3, <3>1 DEF Gapless
  <2>4. CASE ~(t <= new)
    <3>1. s.stop > new
      BY <1>1, <1>2, <1>9, <2>1, <2>4
    <3>2. Covers(after, t) /\ after \in Slices
      <4>1. new \in Int /\ t \in Int /\ s.stop \in Int /\ new <= t /\ t <= s.stop
        BY <1>1, <1>2, <1>9, <2>1, <2>4
      <4>2. Day(new) <= Day(t) /\ Day(t) <= Day(s.stop)
        BY <4>1, DaysGrow
      <4> QED  BY <1>5, <1>6, <3>1, <4>2 DEF Covers
    <3>3. Day(new) \in TradingDays
      BY <1>1, <1>2, MarketDays
    <3>4. NumTradingDays(after) > 0
      <4>1. Day(after.start) <= Day(new) /\ Day(new) = Day(after.start)
        BY <1>2, <1>6
      <4> QED  BY <1>2, <3>2, <3>3, <4>1, RangeHasOpening
    <3> QED  BY <1>7, <3>1, <3>2, <3>4 DEF Loads
  <2> QED  BY <2>2, <2>3, <2>4
<1> QED  BY <1>3, <1>8, <1>9

LEMMA WantedBegun ==
  ASSUME WantedInv, Begun, read'.kind \in {"slice", "key"}
  PROVE  Anchored' /\ WantedComes'
<1> DEFINE s == [start |-> read'.start, stop |-> read'.stop]
<1>1. /\ GaplessInv /\ TypeInv /\ pieces' = {} /\ read' \in Readings
      /\ read'.work = table /\ todo' = ToFetch(s, table)
      /\ UNCHANGED <<market, concurrent, table, skipped>>
  BY DEF WantedInv, GaplessInv, TypeInv, TypeOK, Begun
<1>2. s \in Slices /\ s.start = read'.start /\ s.stop = read'.stop
  <2>1. read'.start \in Minutes /\ read'.stop \in Minutes /\ read'.start <= read'.stop
    BY <1>1 DEF Readings, Begun
  <2> QED  BY <2>1, MinutesAreNumbers, ASlice
<1> HIDE DEF s
<1>3. CASE Rows(table) = {}
  <2>1. todo' = <<s>>
    <3>1. table = << >>
      BY <1>1, <1>3, RowsOfTable DEF TypeInv, TypeOK
    <3> QED  BY <1>1, <3>1 DEF ToFetch
  <2>2. DOMAIN todo' = {1} /\ todo'[1] = s
    BY <2>1
  <2>3. Day(s.start) \in Int /\ Day(s.stop) \in Int /\ s.stop \in Nat
    BY <1>2, SliceDays
  <2>4. Anchored'
    BY <1>1, <1>2, <2>2, <2>3 DEF Anchored, Near
  <2>5. WantedComes'
    <3> SUFFICES ASSUME NEW t \in market, t <= s.stop, Day(s.start) <= Day(t)
                 PROVE  Hopeless' \/ (Covers(s, t) /\ Loads(s))
      BY <1>1, <1>2, <1>3, <2>2 DEF WantedComes, Near, Loads
    <3>1. t \in Nat /\ Day(t) \in Int
      BY <1>1, MarketDays
    <3>2. Covers(s, t)
      BY <1>2, <2>3, <3>1, DaysGrow DEF Covers
    <3>3. CASE Loads(s)
      BY <3>2, <3>3
    <3>4. CASE ~Loads(s)
      <4>1. Rows(read'.work) = {} /\ \A i \in DOMAIN todo' : todo'[i] = s
        BY <1>1, <1>3, <2>2
      <4> QED  BY <1>1, <3>4, <4>1 DEF Hopeless, Loads
    <3> QED  BY <3>3, <3>4
  <2> QED  BY <2>4, <2>5
<1>4. CASE Rows(table) # {}
  <2>1. /\ \A i \in DOMAIN todo' : todo'[i].start = s.start \/ todo'[i].start \in Rows(table)
        /\ \A t \in market :
              t <= s.stop /\ (Day(s.start) <= Day(t)
                              \/ \E u \in Rows(table) : Day(u) <= Day(t)) =>
                \/ t \in Rows(table) \cup skipped
                \/ \E i \in DOMAIN todo' : Covers(todo'[i], t) /\ Loads(todo'[i])
    BY <1>1, <1>2, <1>4, ToFetchReaches
  <2>2. Anchored'
    <3> SUFFICES ASSUME NEW i \in DOMAIN todo'
                 PROVE  \/ Day(read'.start) <= Day(todo'[i].start)
                        \/ \E u \in Rows(table) : Day(u) <= Day(todo'[i].start)
      BY <1>1 DEF Anchored, Near
    <3>1. CASE todo'[i].start = s.start
      <4>1. Day(s.start) <= Day(s.start)
        BY <1>2, SliceDays
      <4> QED  BY <1>2, <3>1, <4>1
    <3>2. CASE todo'[i].start \in Rows(table)
      <4>1. Rows(table) \subseteq Minutes
        BY <1>1, RowsOfTable DEF TypeInv, TypeOK
      <4>2. Day(todo'[i].start) <= Day(todo'[i].start)
        BY <3>2, <4>1, MinutesAreNumbers
      <4> QED  BY <3>2, <4>2
    <3> QED  BY <2>1, <3>1, <3>2
  <2>3. WantedComes'
    <3> SUFFICES ASSUME NEW t \in market, t <= s.stop,
                        Day(s.start) <= Day(t) \/ \E u \in Rows(table) : Day(u) <= Day(t)
                 PROVE  Filled(t)' \/ \E i \in DOMAIN todo' :
                                        Covers(todo'[i], t) /\ Loads(todo'[i])
      BY <1>1, <1>2 DEF WantedComes, Near, Loads
    <3>1. CASE t \in Rows(table) \cup skipped
      BY <1>1, <3>1 DEF Filled
    <3>2. CASE \E i \in DOMAIN todo' : Covers(todo'[i], t) /\ Loads(todo'[i])
      BY <3>2
    <3> QED  BY <2>1, <3>1, <3>2
  <2> QED  BY <2>2, <2>3
<1> QED  BY <1>3, <1>4

LEMMA WantedFetched ==
  ASSUME WantedInv, ForTimes,
         NEW s \in Slices, NEW requests \in SUBSET Slices, Fetched(s, requests)
  PROVE  Anchored' /\ WantedComes'
<1>1. /\ TypeInv /\ read # None /\ pieces = {} /\ todo \in Seq(Slices) /\ todo # << >>
      /\ s = Head(todo) /\ todo' = Tail(todo)
      /\ Anchored /\ WantedComes
      /\ Requested(s, requests) /\ pieces' = {Request(r) : r \in requests}
      /\ UNCHANGED <<market, concurrent, skipped>>
      /\ read'.began = read.began /\ read'.work = read.work
      /\ read'.start = read.start /\ read'.stop = read.stop
  <2>1. TypeInv /\ Anchored /\ WantedComes
    BY DEF WantedInv, GaplessInv
  <2> QED  BY <2>1, ReadFetched DEF Fetched, TypeInv, TypeOK
<1>2. /\ s = todo[1] /\ 1 \in DOMAIN todo
      /\ DOMAIN todo' = 1 .. (Len(todo) - 1)
      /\ \A i \in DOMAIN todo' : i + 1 \in DOMAIN todo /\ todo'[i] = todo[i + 1]
      /\ \A i \in DOMAIN todo : i = 1 \/ (i - 1 \in DOMAIN todo' /\ todo'[i - 1] = todo[i])
  BY <1>1, HeadTailProperties
<1>3. \A p \in pieces' : p.slice \in requests
  BY <1>1 DEF Request
<1>4. \A r \in requests : \E p \in pieces' : p.slice = r
  <2>1. \A r \in requests : Request(r) \in pieces' /\ Request(r).slice = r
    BY <1>1 DEF Request
  <2> QED  BY <2>1
<1>5. \A d : Near(d)' <=> Near(d)
  BY <1>1 DEF Near
<1>6. Anchored'
  <2>1. ASSUME NEW p \in pieces' PROVE Near(Day(p.slice.start))
    <3>1. p.slice \in Slices /\ s.start <= p.slice.start
      BY <1>1, <1>3 DEF Requested
    <3>2. Near(Day(s.start))
      BY <1>1, <1>2 DEF Anchored
    <3>3. /\ Day(s.start) \in Int /\ Day(p.slice.start) \in Int
          /\ Day(s.start) <= Day(p.slice.start)
      BY <3>1, SliceDays, DaysGrow
    <3> QED  BY <1>1, <3>2, <3>3, NearGrows
  <2>2. ASSUME NEW i \in DOMAIN todo' PROVE Near(Day(todo'[i].start))
    BY <1>1, <1>2 DEF Anchored
  <2> QED  BY <1>5, <2>1, <2>2 DEF Anchored
<1>7. WantedComes'
  <2> SUFFICES ASSUME NEW t \in market, t < read.began, t <= read.stop, Near(Day(t))
               PROVE  \/ Filled(t)' \/ Hopeless'
                      \/ \E i \in DOMAIN todo' : Covers(todo'[i], t) /\ Loads(todo'[i])
    BY <1>1, <1>5 DEF WantedComes, Loads
  <2>2. \/ Filled(t) \/ Hopeless
        \/ \E i \in DOMAIN todo : Covers(todo[i], t) /\ Loads(todo[i])
    BY <1>1 DEF WantedComes
  <2>3. CASE Filled(t)
    BY <1>1, <2>3 DEF Filled
  <2>4. CASE Hopeless
    <3>1. requests = {}
      BY <1>1, <1>2, <2>4 DEF Hopeless, Requested
    <3>2. \A i \in DOMAIN todo' : ~Loads(todo'[i])
      BY <1>2, <2>4 DEF Hopeless
    <3>3. Rows(read'.work) = {} /\ pieces' = {}
      BY <1>1, <2>4, <3>1 DEF Hopeless
    <3> QED  BY <1>1, <3>2, <3>3 DEF Hopeless, Loads
  <2>5. ASSUME NEW i \in DOMAIN todo, Covers(todo[i], t), Loads(todo[i])
        PROVE  \/ Filled(t)'
               \/ \E j \in DOMAIN todo' : Covers(todo'[j], t) /\ Loads(todo'[j])
    <3>1. CASE i = 1
      <4>1. t \in Minutes
        BY <1>1, MarketDays
      <4>2. PICK r \in requests : Covers(r, t)
        BY <1>1, <1>2, <2>5, <3>1, <4>1 DEF Requested
      <4> QED  BY <1>4, <4>2 DEF Filled
    <3>2. CASE i # 1
      <4>1. i - 1 \in DOMAIN todo' /\ todo'[i - 1] = todo[i]
        BY <1>2, <3>2
      <4> QED  BY <2>5, <4>1
    <3> QED  BY <3>1, <3>2
  <2> QED  BY <2>2, <2>3, <2>4, <2>5
<1> QED  BY <1>6, <1>7

LEMMA WantedMerged ==
  ASSUME WantedInv, ForTimes, NEW p \in pieces, NEW n \in Minutes, Merged(p, n)
  PROVE  Anchored' /\ WantedComes'
<1> DEFINE bars == BarsAt(p.slice, n)
<1>1. /\ TypeInv /\ read # None /\ read \in Readings /\ pieces' = pieces \ {p}
      /\ Anchored /\ WantedComes
      /\ UNCHANGED <<market, concurrent, todo, skipped>>
      /\ read'.began = read.began /\ read'.start = read.start /\ read'.stop = read.stop
      /\ Rows(read'.work) = Rows(read.work) \cup bars
      /\ p.slice \in Slices /\ bars # {}
      /\ n \in Nat /\ read.began <= n /\ read.began \in Nat
  <2>1. TypeInv /\ Anchored /\ WantedComes
    BY DEF WantedInv, GaplessInv
  <2> QED  BY <2>1, ReadMerged, WorkDays, MinutesAreNumbers DEF Merged
<1>2. \A t \in bars : t \in market /\ t <= n /\ Day(p.slice.start) <= Day(t)
  <2>1. \A t \in bars : t \in market /\ t <= n /\ Day(t) >= Day(p.slice.start)
    BY DEF BarsAt
  <2> QED  BY <1>1, <2>1, MarketDays, SliceDays
<1>3. ASSUME NEW t \in market, Covers(p.slice, t), t <= n
      PROVE  t \in bars
  <2>1. market \subseteq Minutes /\ Day(p.slice.start) <= Day(t)
    BY <1>1, <1>3 DEF TypeInv, TypeOK, Covers
  <2> QED  BY <1>1, <1>3, <2>1, AnswerIsWhole
<1> HIDE DEF bars
<1>4. ASSUME NEW d, Near(d) PROVE Near(d)'
  BY <1>1, <1>4 DEF Near
<1>5. ASSUME NEW t \in market, Near(Day(t))' PROVE Near(Day(t))
  <2>1. Day(t) \in Int
    BY <1>1, MarketDays
  <2>2. CASE \E u \in bars : Day(u) <= Day(t)
    <3>1. PICK u \in bars : Day(u) <= Day(t)
      BY <2>2
    <3>2. Day(u) \in Int /\ Day(p.slice.start) \in Int /\ Day(p.slice.start) <= Day(u)
      BY <1>1, <1>2, MarketDays, SliceDays
    <3>3. Near(Day(p.slice.start))
      BY <1>1 DEF Anchored
    <3>4. Day(p.slice.start) <= Day(t)
      BY <2>1, <3>1, <3>2
    <3> QED  BY <1>1, <2>1, <3>2, <3>3, <3>4, NearGrows
  <2> QED  BY <1>1, <1>5, <2>2 DEF Near
<1>6. Anchored'
  BY <1>1, <1>4 DEF Anchored
<1>7. WantedComes'
  <2> SUFFICES ASSUME NEW t \in market, t < read.began, t <= read.stop, Near(Day(t))
               PROVE  \/ Filled(t)'
                      \/ \E i \in DOMAIN todo : Covers(todo[i], t) /\ Loads(todo[i])
    BY <1>1, <1>5 DEF WantedComes, Loads
  <2>2. ~Hopeless
    BY DEF Hopeless
  <2>3. \/ Filled(t) \/ \E i \in DOMAIN todo : Covers(todo[i], t) /\ Loads(todo[i])
    BY <1>1, <2>2 DEF WantedComes
  <2>4. CASE Filled(t)
    <3>1. t \in Nat
      BY <1>1, MarketDays
    <3>2. t <= n
      BY <1>1, <3>1
    <3>3. CASE Covers(p.slice, t)
      BY <1>1, <1>3, <3>2, <3>3 DEF Filled
    <3>4. CASE ~Covers(p.slice, t)
      BY <1>1, <2>4, <3>4 DEF Filled
    <3> QED  BY <3>3, <3>4
  <2>5. CASE \E i \in DOMAIN todo : Covers(todo[i], t) /\ Loads(todo[i])
    BY <2>5
  <2> QED  BY <2>3, <2>4, <2>5
<1> QED  BY <1>6, <1>7

LEMMA WantedEnds ==
  ASSUME WantedInv, EndRead
  PROVE  SliceComplete' /\ KeyIsNewest'
<1>1. /\ TypeInv /\ read # None /\ read \in Readings /\ pieces = {} /\ todo = << >>
      /\ result = None /\ UNCHANGED <<market, concurrent>>
  BY ReadEnds DEF WantedInv, GaplessInv
<1>2. CASE result' = None
  BY <1>2 DEF SliceComplete, KeyIsNewest, Is
<1>3. CASE /\ read.work # << >>
           /\ table' = read.work /\ skipped' = skipped \ Rows(table')
           /\ result' = [kind |-> read.kind, start |-> read.start,
                         stop |-> read.stop, n |-> read.n,
                         began |-> read.began, asked |-> read.asked,
                         rows |-> Returned(read)]
  <2>1. /\ read.work \in Tables /\ Rows(read.work) \subseteq Minutes
        /\ Rows(read.work) # {}
        /\ read.start \in Minutes /\ read.stop \in Minutes
        /\ read.start \in Nat /\ read.stop \in Nat /\ read.start <= read.stop
        /\ Day(read.start) \in Int
    <3>1. read.work \in Tables /\ Rows(read.work) \subseteq Minutes
      BY <1>1, WorkDays
    <3>2. Rows(read.work) # {}
      BY <1>3, <3>1, RowsOfTable
    <3>3. read.start \in Minutes /\ read.stop \in Minutes /\ read.start <= read.stop
      BY <1>1 DEF Readings, TypeInv, ReadTyped
    <3> QED  BY <3>1, <3>2, <3>3, MinutesAreNumbers
  <2>2. ASSUME ForTimes, NEW t \in market, t < read.began, t <= read.stop, Near(Day(t))
        PROVE  t \in Rows(read.work) \cup skipped
    <3>1. WantedComes
      BY <2>2 DEF WantedInv
    <3>2. ~Hopeless /\ DOMAIN todo = {}
      BY <1>1, <2>1 DEF Hopeless
    <3>3. Filled(t)
      BY <2>2, <3>1, <3>2 DEF WantedComes
    <3> QED  BY <1>1, <3>3 DEF Filled
  <2>3. \A t \in market : t \in Minutes /\ t \in Nat /\ Day(t) \in Int
    BY <1>1, MarketDays
  <2>4. SliceComplete'
    <3> SUFFICES ASSUME read.kind = "slice",
                        NEW t \in market, read.start <= t, t <= read.stop, t < read.began
                 PROVE  t \in RowsBetween(read.start, read.stop, read.work) \cup skipped'
      BY <1>1, <1>3, Zenon DEF SliceComplete, Is, Returned
    <3>1. Day(read.start) <= Day(t)
      BY <2>1, <2>3, DaysGrow
    <3>2. t \in Rows(read.work) \cup skipped
      BY <1>1, <2>2, <3>1 DEF ForTimes, Near
    <3>3. CASE t \in Rows(read.work)
      BY <2>1, <3>3, NearestIsBetween DEF RowsBetween
    <3>4. CASE t \notin Rows(read.work)
      BY <1>3, <3>2, <3>4
    <3> QED  BY <3>3, <3>4
  <2>5. KeyIsNewest'
    <3> DEFINE earlier == {r \in Rows(read.work) : r <= read.start}
               row == Max(earlier)
    <3> SUFFICES ASSUME read.kind = "key", earlier # {}
                 PROVE  LET last == Max(Returned(read)) IN
                        /\ last <= read.start
                        /\ \A t \in market \ skipped' :
                             t <= read.start /\ t < read.began => t <= last
      <4>1. /\ result'.kind = read.kind /\ result'.start = read.start
            /\ result'.began = read.began /\ result'.rows = Returned(read)
        BY <1>3
      <4>2. (\E r \in Rows(table') : r <= read.start) => earlier # {}
        BY <1>3
      <4> HIDE DEF earlier
      <4> QED  BY <1>1, <4>1, <4>2 DEF KeyIsNewest, Is
    <3>1. /\ row \in Minutes /\ row \in Nat /\ row \in Rows(read.work)
          /\ row <= read.start /\ \A r \in earlier : r <= row
      <4>1. earlier \in SUBSET Minutes
        BY <2>1
      <4>2. row \in earlier /\ \A r \in earlier : r <= row
        <5> HIDE DEF earlier
        <5> QED  BY <4>1, EndsOfRows
      <4> QED  BY <2>1, <4>2, MinutesAreNumbers
    <3>2. Returned(read) = {row}
      <4>1. Returned(read) = {RowFor(read.start, read.work)}
        BY DEF Returned
      <4>2. RowFor(read.start, read.work) = row
        BY DEF RowFor
      <4> QED  BY <4>1, <4>2
    <3> HIDE DEF row
    <3>3. Max({row}) = row
      <4>1. {row} \in SUBSET Minutes
        BY <3>1
      <4> QED  BY <4>1, EndsOfRows
    <3>4. ASSUME NEW t \in market \ skipped', t <= read.start, t < read.began
          PROVE  t <= row
      <4>1. t \in Nat /\ Day(t) \in Int /\ Day(row) \in Int
        BY <2>3, <3>1, MinutesAreNumbers
      <4>2. CASE Day(t) < Day(row)
        BY <3>1, <4>1, <4>2, DaysGrow
      <4>3. CASE Day(row) <= Day(t)
        <5>1. Near(Day(t)) /\ t <= read.stop
          BY <2>1, <3>1, <3>4, <4>1, <4>3 DEF Near
        <5>2. t \in Rows(read.work) \cup skipped
          BY <1>1, <2>2, <3>4, <5>1 DEF ForTimes
        <5>3. t \in Rows(read.work)
          BY <1>3, <3>4, <5>2
        <5> QED  BY <3>1, <3>4, <5>3
      <4> QED  BY <4>1, <4>2, <4>3
    <3> QED  BY <3>1, <3>2, <3>3, <3>4
  <2> QED  BY <2>4, <2>5
<1> QED  BY <1>1, <1>2, <1>3, ReadEnds

LEMMA WantedKept ==
  ASSUME WantedInv, UNCHANGED <<market, table, result, skipped>>
  PROVE  SliceComplete' /\ KeyIsNewest'
BY DEF WantedInv, SliceComplete, KeyIsNewest, Is

LEMMA WantedStep ==
  ASSUME WantedInv, [Next]_vars
  PROVE  WantedInv'
<1>1. GaplessInv /\ GaplessInv' /\ TypeInv
  BY GaplessStep DEF WantedInv, GaplessInv
<1>2. CASE Begun
  <2>1. (ForTimes => Anchored /\ WantedComes)'
    BY <1>2, WantedBegun DEF ForTimes
  <2>2. SliceComplete' /\ KeyIsNewest'
    BY <1>2 DEF SliceComplete, KeyIsNewest, Is, Begun
  <2> QED  BY <1>1, <2>1, <2>2 DEF WantedInv
<1>3. ASSUME NEW s \in Slices, NEW requests \in SUBSET Slices, Fetched(s, requests)
      PROVE  WantedInv'
  <2>1. ForTimes' => ForTimes
    BY <1>3, ReadFetched DEF ForTimes
  <2>2. (ForTimes => Anchored /\ WantedComes)'
    BY <1>3, <2>1, WantedFetched
  <2>3. SliceComplete' /\ KeyIsNewest'
    BY <1>3, ReadFetched, WantedKept
  <2> QED  BY <1>1, <2>2, <2>3 DEF WantedInv
<1>4. ASSUME NEW p \in pieces, Replied(p) PROVE WantedInv'
  <2>1. /\ read # None
        /\ UNCHANGED <<market, concurrent, table, read, todo, result, skipped>>
    BY <1>4 DEF Replied
  <2>2. PICK a : a.slice = p.slice /\ pieces' = (pieces \ {p}) \cup {a}
    BY <1>4 DEF Replied
  <2>3. SliceComplete' /\ KeyIsNewest'
    BY <2>1, WantedKept
  <2>4. ASSUME ForTimes' PROVE Anchored' /\ WantedComes'
    <3>1. Anchored /\ WantedComes
      BY <2>1, <2>4 DEF ForTimes, WantedInv
    <3>2. Anchored'
      BY <2>1, <2>2, <3>1 DEF Anchored, Near
    <3>3. WantedComes'
      <4> SUFFICES ASSUME NEW t \in market, t < read.began, t <= read.stop, Near(Day(t))
                   PROVE  Filled(t)' \/ \E i \in DOMAIN todo :
                                          Covers(todo[i], t) /\ Loads(todo[i])
        BY <2>1 DEF WantedComes, Near, Loads
      <4>1. ~Hopeless
        BY DEF Hopeless
      <4>2. Filled(t) \/ \E i \in DOMAIN todo : Covers(todo[i], t) /\ Loads(todo[i])
        BY <3>1, <4>1 DEF WantedComes
      <4>3. Filled(t) => Filled(t)'
        BY <2>1, <2>2 DEF Filled
      <4> QED  BY <4>2, <4>3
    <3> QED  BY <3>2, <3>3
  <2> QED  BY <1>1, <2>3, <2>4 DEF WantedInv
<1>5. ASSUME NEW p \in pieces, NEW n \in Minutes, Merged(p, n) PROVE WantedInv'
  <2>1. ForTimes' => ForTimes
    BY <1>5, ReadMerged DEF ForTimes
  <2>2. (ForTimes => Anchored /\ WantedComes)'
    BY <1>5, <2>1, WantedMerged
  <2>3. SliceComplete' /\ KeyIsNewest'
    BY <1>5, ReadMerged, WantedKept
  <2> QED  BY <1>1, <2>2, <2>3 DEF WantedInv
<1>6. CASE EndRead
  <2>1. ~ForTimes'
    BY <1>1, <1>6, ReadEnds DEF ForTimes
  <2> QED  BY <1>1, <1>6, <2>1, WantedEnds DEF WantedInv
<1>7. ASSUME NEW t \in Minutes, NEW ev, Given(t, ev) PROVE WantedInv'
  BY <1>1, <1>7 DEF WantedInv, ForTimes, SliceComplete, KeyIsNewest, Is, Given
<1>8. CASE Dropped
  <2>1. SliceComplete' /\ KeyIsNewest' /\ ~ForTimes'
    BY <1>8, WantedKept DEF Dropped, ForTimes
  <2> QED  BY <1>1, <2>1 DEF WantedInv
<1>9. CASE Elapsed
  <2>1. SliceComplete' /\ KeyIsNewest'
    BY <1>9, WantedKept DEF Elapsed
  <2>2. (ForTimes => Anchored /\ WantedComes)'
    BY <1>9 DEF WantedInv, ForTimes, Anchored, WantedComes, Near, Filled, Hopeless, Loads,
                Elapsed
  <2> QED  BY <1>1, <2>1, <2>2 DEF WantedInv
<1> QED  BY <1>1, <1>2, <1>3, <1>4, <1>5, <1>6, <1>7, <1>8, <1>9, Steps

LEMMA WantedInit ==
  ASSUME Init PROVE WantedInv
<1>1. TypeInv
  BY TypeInit
<1>2. Rows(table) = {}
  BY DEF Init, Rows
<1> QED  BY <1>1, <1>2 DEF Init, WantedInv, GaplessInv, Gapless, ForTimes, SliceComplete,
                           KeyIsNewest, Is

\* SliceComplete, no bar of an asked range missing but those the stream jumped
\* over, although _calc_data_to_fetch looks at the table's two ends only.
THEOREM SliceCompleteAlways == Spec => []SliceComplete
<1>1. Init => WantedInv
  BY WantedInit
<1>2. WantedInv /\ [Next]_vars => WantedInv'
  BY WantedStep
<1>3. WantedInv => SliceComplete
  BY DEF WantedInv
<1> QED  BY <1>1, <1>2, <1>3, PTL DEF Spec

\* KeyIsNewest, the price at a time being that of the newest bar until then,
\* whenever the table reaches back to it.
THEOREM KeyIsNewestAlways == Spec => []KeyIsNewest
<1>1. Init => WantedInv
  BY WantedInit
<1>2. WantedInv /\ [Next]_vars => WantedInv'
  BY WantedStep
<1>3. WantedInv => KeyIsNewest
  BY DEF WantedInv
<1> QED  BY <1>1, <1>2, <1>3, PTL DEF Spec
=============================================================================
