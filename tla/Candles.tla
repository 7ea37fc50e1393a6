------------------------------ MODULE Candles ------------------------------
(***************************************************************************)
(* fincalcs/candle_patterns over the candles of consecutive minutes.  Prices *)
(* are in cents, to which the code rounds them, so that its 0.01, 0.02 and   *)
(* its factors are exact here.                                               *)
(***************************************************************************)
EXTENDS Integers

CONSTANT MaxPrice   \* prices are 0 .. MaxPrice

ConstantsAssumption == MaxPrice \in Nat

VARIABLE candle

Prices == 0 .. MaxPrice
Candles == {c \in [open : Prices, high : Prices, low : Prices, close : Prices] :
              /\ c.low <= c.open /\ c.open <= c.high
              /\ c.low <= c.close /\ c.close <= c.high}

Init == candle \in Candles
Minute == candle' \in Candles
Next == Minute
Spec == Init /\ [][Next]_candle

-----------------------------------------------------------------------------

Upper(c) == IF c.close > c.open THEN c.close ELSE c.open
Lower(c) == IF c.close > c.open THEN c.open ELSE c.close
Body(c) == Upper(c) - Lower(c)
UpperShadow(c) == c.high - Upper(c)
LowerShadow(c) == Lower(c) - c.low
Shadow(c) == UpperShadow(c) + LowerShadow(c)

GravestoneDoji(c) ==
  /\ Body(c) < 2 /\ 2 < Shadow(c)
  /\ LowerShadow(c) * 2 < UpperShadow(c)
  /\ Shadow(c) > 2 * Body(c)

FourPriceDoji(c) == c.close = c.open /\ c.open = c.high /\ c.high = c.low

Doji(c) == c.close = c.open /\ c.low <= c.open - 1 /\ c.high >= c.open + 1

SpinningTop(c) ==
  /\ Shadow(c) >= 2 * Body(c)
  /\ LowerShadow(c) > 2 /\ UpperShadow(c) > 2
  /\ 8 * LowerShadow(c) < 10 * UpperShadow(c)
  /\ 10 * UpperShadow(c) < 12 * LowerShadow(c)

BullishCandle(c) ==
  /\ c.close > c.open + 2
  /\ (c.close - c.open) * 10 > ((c.high - c.close) + (c.open - c.low)) * 12

BearishCandle(c) == c.close < c.open /\ Body(c) >= 1

DragonflyCandle_Mirrored(c) ==
  /\ Body(c) < 1
  /\ UpperShadow(c) > 2 * LowerShadow(c)
  /\ Shadow(c) > 3 * Body(c)
DragonflyCandle(c) ==
  /\ Body(c) < 1
  /\ LowerShadow(c) > 2 * UpperShadow(c)
  /\ Shadow(c) > 3 * Body(c)

\* The follow-ups of two minutes.
SpinningTopBearishFollowup(c, d) == SpinningTop(c) /\ d.open > d.close

BullishFollowedByDragonfly(c, d) ==
  BullishCandle(c) /\ DragonflyCandle(d) /\ d.open > c.close

-----------------------------------------------------------------------------

\* Of the patterns below no candle is two.
Exclusive(c) ==
  /\ ~(BullishCandle(c) /\ (BearishCandle(c) \/ SpinningTop(c)
         \/ GravestoneDoji(c) \/ DragonflyCandle(c)))
  /\ ~(BearishCandle(c) /\ (Doji(c) \/ DragonflyCandle(c)))
  /\ ~(GravestoneDoji(c) /\ (SpinningTop(c) \/ DragonflyCandle(c)))
  /\ ~(DragonflyCandle(c) /\ SpinningTop(c))
  /\ ~(FourPriceDoji(c) /\ (Doji(c) \/ SpinningTop(c)
         \/ GravestoneDoji(c) \/ DragonflyCandle(c)))

\* A dragonfly that opens above a bullish candle closes above it, and what
\* follows a spinning top as bearish is a bearish candle, however small the
\* difference.
Continued(c, d) ==
  /\ BullishFollowedByDragonfly(c, d) => d.close > c.close
  /\ SpinningTopBearishFollowup(c, d) => BearishCandle(d)

\* A candle that looks like a turn does not look like a trend, nor like the
\* opposite turn, and the patterns of two minutes are continuations.
PatternsExclude == [][Exclusive(candle) /\ Continued(candle, candle')]_candle
=============================================================================
