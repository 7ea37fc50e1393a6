------------------------------- MODULE Charts -------------------------------
(***************************************************************************)
(* fincalcs over a history of minute bars: resample, and the local extremes  *)
(* that find_supports, find_stop and find_resistances look for.              *)
(*                                                                         *)
(* A minute has one price, so that its open, high, low and close are that;   *)
(* minutes may be missing.  Days and the length of a bin are scaled down.    *)
(***************************************************************************)
EXTENDS Integers, Sequences, FiniteSets, SequencesExt

CONSTANTS
  BarPrices,
  Gaps,       \* minutes between two bars
  MaxBars,    \* bound: bars of the history
  BinLength,  \* minutes of a bin (5)
  DayLength,  \* minutes of a day
  Window,     \* rows a stop is looked for in (100)
  None        \* NaN, or None

ConstantsAssumption ==
  /\ BarPrices \subseteq Int /\ Gaps \subseteq Nat \ {0}
  /\ MaxBars \in Nat /\ BinLength \in Nat \ {0}
  /\ DayLength % (2 * BinLength) = 0 /\ Window \in Nat \ {0}

VARIABLE bars   \* [at, price], in order

Init == bars = <<>>

\* A minute's bar arrives; some minutes have none.
Bar(gap, price) ==
  /\ Len(bars) < MaxBars
  /\ bars' = Append(bars, [at |-> IF bars = <<>> THEN gap ELSE Last(bars).at + gap,
                           price |-> price])

Next == \E gap \in Gaps, price \in BarPrices : Bar(gap, price)

Spec == Init /\ [][Next]_bars

-----------------------------------------------------------------------------
(* resample: the bins from the first bar's to the last's.  A bin without bars *)
(* has volume 0 and no price.                                                *)

InBin(rows, bin, length) == {i \in DOMAIN rows : rows[i].at \div length = bin}

Aggregated_FirstIsClose(rows, members) ==
  IF members = {} THEN [open |-> None, high |-> None, low |-> None,
                        close |-> None, volume |-> 0]
  ELSE LET prices == {rows[i].price : i \in members}
       IN [open |-> rows[Min(members)].price, high |-> Max(prices),
           low |-> Min(prices), close |-> rows[Min(members)].price,
           volume |-> Cardinality(members)]
Aggregated(rows, members) ==
  IF members = {} THEN [open |-> None, high |-> None, low |-> None,
                        close |-> None, volume |-> 0]
  ELSE LET prices == {rows[i].price : i \in members}
       IN [open |-> rows[Min(members)].price, high |-> Max(prices),
           low |-> Min(prices), close |-> rows[Max(members)].price,
           volume |-> Cardinality(members)]

\* The bins by the number of their range.
Resample(rows, length) ==
  IF rows = <<>> THEN <<>>
  ELSE [bin \in rows[1].at \div length .. Last(rows).at \div length |->
          Aggregated(rows, InBin(rows, bin, length))]

-----------------------------------------------------------------------------
(* A series: the values of consecutive bins.  A comparison with NaN is false. *)

Series(rows, length, value(_)) ==
  IF rows = <<>> THEN <<>>
  ELSE LET bins == Resample(rows, length)
           first == rows[1].at \div length
       IN [k \in 1 .. Cardinality(DOMAIN bins) |-> value(bins[first + k - 1])]

Valued(series, i) == series[i - 1] # None /\ series[i] # None /\ series[i + 1] # None
Inner(series) == {i \in 2 .. Len(series) - 1 : Valued(series, i)}

\* np.where((diff[:-1] <= 0) & (diff[1:] > 0))[0] + 1
LocalMinima_Strict(series) ==
  {i \in Inner(series) : series[i] < series[i - 1] /\ series[i + 1] > series[i]}
LocalMinima(series) ==
  {i \in Inner(series) : series[i] <= series[i - 1] /\ series[i + 1] > series[i]}

\* np.where((diff[:-1] >= 0) & (diff[1:] <= 0))[0] + 1
LocalMaxima(series) ==
  {i \in Inner(series) : series[i] >= series[i - 1] /\ series[i + 1] <= series[i]}

\* The newest rows, and those bins of them that are of the present day.
LastRows == SubSeq(bars, IF Len(bars) > Window THEN Len(bars) - Window + 1 ELSE 1,
                   Len(bars))
StartOfDay == (Last(bars).at \div DayLength) * DayLength
OfToday ==
  LET before == {i \in DOMAIN LastRows : LastRows[i].at < StartOfDay}
  IN SubSeq(LastRows, Cardinality(before) + 1, Len(LastRows))

LowOf(bin) == bin.low
Lows == Series(OfToday, BinLength, LowOf)

\* find_supports and find_stop, the lists as sets of places.
Supports(lows, current) ==
  LET minima == LocalMinima(lows)
  IN IF minima = {} THEN None ELSE {i \in minima : lows[i] < current}
Stop(lows) ==
  LET minima == LocalMinima(lows)
  IN IF minima = {} THEN None ELSE lows[Max(minima)]

\* find_resistances drops bins without a price; get_local_maxima does not.
HighOf(bin) == bin.high
Highs ==
  LET highs == Series(bars, BinLength, HighOf)
      priced == {i \in DOMAIN highs : highs[i] # None}
  IN [k \in 1 .. Cardinality(priced) |->
        highs[CHOOSE i \in priced : Cardinality({j \in priced : j <= i}) = k]]
Resistances(highs, current) ==
  LET levels == {i \in LocalMaxima(highs) : highs[i] >= current}
  IN IF levels = {} THEN None ELSE levels

-----------------------------------------------------------------------------

\* Every variable has its type.
TypeOK == bars \in Seq([at : Nat, price : BarPrices])

\* A bin of twice the length has the open of the first of its two halves that
\* has one, the close of the last, their extremes and their volume.
Joined(a, b) ==
  IF a.volume = 0 THEN b ELSE IF b.volume = 0 THEN a
  ELSE [open |-> a.open, high |-> Max({a.high, b.high}),
        low |-> Min({a.low, b.low}), close |-> b.close,
        volume |-> a.volume + b.volume]
ResampleComposes ==
  LET halves == Resample(bars, BinLength)
      whole == Resample(bars, 2 * BinLength)
      Half(k) == IF k \in DOMAIN halves THEN halves[k] ELSE Aggregated(bars, {})
  IN \A k \in DOMAIN whole : whole[k] = Joined(Half(2 * k), Half(2 * k + 1))

\* Today's low is among the supports of any higher price once the price rose
\* from it again, unless a bin beside it is empty; the stop is no lower; between
\* two supports there is a local maximum.  The highest price of all is a
\* resistance unless it is in the first or the last bin, whatever bins between are
\* empty.
SupportsFound(lows) ==
  LET known == {i \in DOMAIN lows : lows[i] # None}
      low == Max({i \in known : \A j \in known : lows[i] <= lows[j]})
      maxima == LocalMaxima(lows)
  IN /\ low \in Inner(lows) =>
          /\ LocalMinima(lows) # {}
          /\ \A current \in BarPrices :
               current > lows[low] => low \in Supports(lows, current)
          /\ Stop(lows) >= lows[low]
     /\ known = DOMAIN lows =>
          \A i, j \in LocalMinima(lows) : i < j => \E k \in maxima : i < k /\ k < j
ResistancesFound(highs) ==
  \A i \in 2 .. Len(highs) - 1 :
    (\A j \in DOMAIN highs : highs[j] <= highs[i]) =>
      LocalMaxima(highs) # {} /\ i \in Resistances(highs, highs[i])
ExtremesFound == bars # <<>> => SupportsFound(Lows) /\ ResistancesFound(Highs)
=============================================================================
