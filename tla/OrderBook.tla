------------------------------ MODULE OrderBook ------------------------------
(***************************************************************************)
(* What following an order promises, whatever the way news of it arrives:  *)
(* an order is followed from its submission until it has ended or is being *)
(* cancelled, and never moves a position by more than was executed.        *)
(***************************************************************************)
EXTENDS Integers

CONSTANTS Orders, Quantity

VARIABLES
  submitted,  \* orders accepted by the broker so far
  closing,    \* orders that ended, or whose cancel was accepted
  followed,   \* orders the process follows
  executed,   \* per order: quantity executed by the broker
  counted     \* per order: quantity added to the position

bookVars == <<submitted, closing, followed, executed, counted>>

BookInit ==
  /\ submitted = {} /\ closing = {} /\ followed = {}
  /\ executed = [o \in Orders |-> 0]
  /\ counted = [o \in Orders |-> 0]

Submit(o) ==
  /\ o \notin submitted
  /\ submitted' = submitted \cup {o}
  /\ followed' = followed \cup {o}
  /\ UNCHANGED <<closing, executed, counted>>

\* An execution; the last one ends the order.
Execute(o) ==
  /\ o \in submitted
  /\ \E q \in executed[o] + 1 .. Quantity :
       /\ executed' = [executed EXCEPT ![o] = q]
       /\ closing' = IF q = Quantity THEN closing \cup {o} ELSE closing
  /\ UNCHANGED <<submitted, followed, counted>>

\* The order ends at the broker, or the process has it cancelled, which may
\* stop the following at once.
Close(o) ==
  /\ o \in submitted
  /\ closing' = closing \cup {o}
  /\ followed' \in {followed, followed \ {o}}
  /\ UNCHANGED <<submitted, executed, counted>>

Account(o) ==
  /\ \E q \in counted[o] + 1 .. executed[o] :
       counted' = [counted EXCEPT ![o] = q]
  /\ UNCHANGED <<submitted, closing, followed, executed>>

Forget(o) ==
  /\ o \in followed \cap closing
  /\ followed' = followed \ {o}
  /\ UNCHANGED <<submitted, closing, executed, counted>>

BookNext ==
  \E o \in Orders :
    Submit(o) \/ Execute(o) \/ Close(o) \/ Account(o) \/ Forget(o)

BookSpec == BookInit /\ [][BookNext]_bookVars

=============================================================================
