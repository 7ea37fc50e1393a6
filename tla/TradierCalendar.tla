-------------------------- MODULE TradierCalendar --------------------------
(***************************************************************************)
(* Tradier's calendar, which has a page a month.  TradierData looks for the  *)
(* last trading day back through the pages, each asked for by its month      *)
(* alone, so that it is of the present year; one for month 0 is refused.     *)
(* TradierTrader walks through the pages of a range, for the reports, with a *)
(* date it moves on by a month.                                             *)
(***************************************************************************)
EXTENDS Integers, Sequences

CONSTANTS
  Lengths,      \* the days of each month of the year
  None,         \* nothing was asked
  Refused       \* the search ended with an exception

Months == DOMAIN Lengths
Dates == UNION {[month : {m}, day : 1 .. Lengths[m]] : m \in Months}

ConstantsAssumption ==
  /\ Lengths \in Seq(Nat \ {0}) /\ Lengths # <<>>
  /\ None \notin Dates /\ Refused \notin Dates /\ None # Refused

VARIABLES
  today,   \* [month, day]
  open,    \* the days with status "open"
  last     \* what get_last_trading returned today
vars == <<today, open, last>>

Before(d, e) == d.month < e.month \/ (d.month = e.month /\ d.day < e.day)
OnPage(m) == {d \in open : d.month = m}

\* No month is without a session.
Init ==
  /\ today = [month |-> 1, day |-> 1]
  /\ open \in SUBSET Dates /\ \A m \in Months : OnPage(m) # {}
  /\ last = None

Midnight ==
  /\ today # [month |-> Len(Lengths), day |-> Lengths[Len(Lengths)]]
  /\ today' = IF today.day < Lengths[today.month] THEN [today EXCEPT !.day = @ + 1]
              ELSE [month |-> today.month + 1, day |-> 1]
  /\ last' = None
  /\ UNCHANGED open

Closed_Never(d) == FALSE
Closed(d) == d \notin open

\* _get_previous_last_trading and _get_previous_month_last_trading: the day
\* before the index, which counts from 0; the search in a month before begins
\* with the index of its last day.
PreviousLastTrading[at \in [month : Months, index : Nat]] ==
  LET before == [month |-> at.month, day |-> at.index]
  IN IF at.index > 0
     THEN IF Closed(before)
          THEN PreviousLastTrading[[month |-> at.month, index |-> at.index - 1]]
          ELSE before
     ELSE IF at.month = 1 THEN Refused
          ELSE PreviousLastTrading[
                 [month |-> at.month - 1, index |-> Lengths[at.month - 1] - 1]]

GetLastTrading ==
  /\ last' = IF today \in open THEN today
             ELSE PreviousLastTrading[[month |-> today.month, index |-> today.day - 1]]
  /\ UNCHANGED <<today, open>>

\* get_trading_days of a range within the year: after each month the same day of
\* the next one is taken, or else the day before that.
NextMonth_SameDay(d) ==
  IF d.month + 1 \in Months /\ d.day <= Lengths[d.month + 1]
  THEN [month |-> d.month + 1, day |-> d.day] ELSE Refused
NextMonth(d) ==
  IF d.month + 1 \in Months /\ d.day <= Lengths[d.month + 1] + 1
  THEN [month |-> d.month + 1,
        day |-> IF d.day <= Lengths[d.month + 1] THEN d.day ELSE d.day - 1]
  ELSE Refused
Visited(start) ==
  LET date[month \in start.month .. Len(Lengths)] ==
        IF month = start.month THEN start
        ELSE IF date[month - 1] = Refused THEN Refused
        ELSE NextMonth(date[month - 1])
  IN date
TradingDaysOf(start, end) ==
  IF Visited(start)[end.month] = Refused THEN Refused
  ELSE UNION {{d \in OnPage(m) : ~Before(d, start) /\ ~Before(end, d)} :
                m \in start.month .. end.month}

Next == Midnight \/ GetLastTrading

Spec == Init /\ [][Next]_vars

-----------------------------------------------------------------------------

\* Every variable has its type.
TypeOK ==
  today \in Dates /\ open \subseteq Dates /\ last \in Dates \cup {None, Refused}

\* The last trading day is today or the newest day before that is open.  But the
\* last day of a month is not looked at once the month is over, and nothing
\* before January is found.
LastTradingIsPrevious ==
  last # None =>
    LET past == {d \in open : Before(d, today) /\
                   (d.month = today.month \/ d.day < Lengths[d.month])}
    IN IF today \in open THEN last = today
       ELSE IF past = {} THEN last = Refused
       ELSE last \in past /\ \A d \in past : ~Before(last, d)

\* The trading days of a range from today are all the open ones; only a month of
\* it that is two days too short for the day the range begins with ends the
\* search with an exception.
RangeIsWhole ==
  \A end \in Dates : ~Before(end, today) =>
    IF Visited(today)[end.month] = Refused
    THEN \E m \in today.month .. end.month : Lengths[m] + 1 < today.day
    ELSE TradingDaysOf(today, end) =
           {d \in open : ~Before(d, today) /\ ~Before(end, d)}
=============================================================================
