------------------------ MODULE BrokerListener_proofs ------------------------
(***************************************************************************)
(* What BrokerListener keeps for any number of consumers, orders, notices    *)
(* and faults: its types, the order in which consumers are told of their     *)
(* orders, whose orders they are told of, and that a listener that died is    *)
(* never replaced.                                                          *)
(***************************************************************************)
EXTENDS BrokerListener, SequenceTheorems, TLAPS

USE ConsumersAssumption, NoneAssumption, BoundsAssumption

-----------------------------------------------------------------------------
(* Types.                                                                   *)

\* An order is being submitted where the event loop waits for it.
Submitting ==
  \A p \in Processes : phase[p] \in {"posting", "booking"} => current[p] \in Orders

TypeInv == TypeOK /\ Submitting

\* Numbers of notices stay numbers of notices when there are more.
LEMMA MoreNotices ==
  ASSUME NEW m \in Nat, NEW n \in Nat, m <= n, NEW s \in Seq(1 .. m)
  PROVE  s \in Seq(1 .. n)
<1>1. \A i \in 1 .. Len(s) : s[i] \in 1 .. n
  OBVIOUS
<1> QED  BY <1>1

\* Everything is off, and nothing was sent.
LEMMA TypeInit == Init => TypeInv
BY DEF Init, TypeInv, TypeOK, Submitting, ThreadState, Processes

\* run() starts threads and touches nothing else.
LEMMA RunType ==
  ASSUME TypeInv, NEW p \in Processes, Run(p)
  PROVE  /\ running_task' \in [Processes -> ThreadState]
         /\ hb_task' \in [Processes -> ThreadState]
         /\ stopping' \in [Processes -> BOOLEAN]
         /\ flags_run' \in [Processes -> BOOLEAN]
         /\ subscribed' \in [Processes -> BOOLEAN]
         /\ session' \in [Processes -> Seq(1 .. Len(emitted))]
         /\ phase' \in [Processes -> {"off", "idle", "posting", "booking", "subscribing",
                                      "reconnecting", "failing"}]
         /\ \A q \in Processes : phase'[q] \in {"posting", "booking"} =>
              phase'[q] = phase[q]
<1>1. /\ running_task' = [running_task EXCEPT ![p] = "alive"]
      /\ stopping' = [stopping EXCEPT ![p] = FALSE]
      /\ session' = [session EXCEPT ![p] = << >>]
      /\ hb_task' \in {hb_task, [hb_task EXCEPT ![p] = "alive"]}
      /\ flags_run' \in {flags_run, [flags_run EXCEPT ![p] = TRUE]}
      /\ subscribed' \in {subscribed, [subscribed EXCEPT ![p] = TRUE]}
      /\ \E place \in {"idle", "subscribing"} : phase' = [phase EXCEPT ![p] = place]
  BY DEF Run
<1>2. /\ running_task' \in [Processes -> ThreadState]
      /\ hb_task' \in [Processes -> ThreadState]
  BY <1>1 DEF TypeInv, TypeOK, ThreadState
<1>3. /\ stopping' \in [Processes -> BOOLEAN]
      /\ flags_run' \in [Processes -> BOOLEAN]
      /\ subscribed' \in [Processes -> BOOLEAN]
  BY <1>1 DEF TypeInv, TypeOK
<1>4. << >> \in Seq(1 .. Len(emitted))
  OBVIOUS
<1>5. session' \in [Processes -> Seq(1 .. Len(emitted))]
  BY <1>1, <1>4 DEF TypeInv, TypeOK
<1> QED  BY <1>1, <1>2, <1>3, <1>5 DEF TypeInv, TypeOK

\* The same of the first half of close().
LEMMA StopType ==
  ASSUME TypeInv, NEW p \in Processes, NEW next \in {"reconnecting", "failing"},
         StopThreads(p, next)
  PROVE  /\ stopping' \in [Processes -> BOOLEAN]
         /\ flags_run' \in [Processes -> BOOLEAN]
         /\ phase' \in [Processes -> {"off", "idle", "posting", "booking", "subscribing",
                                      "reconnecting", "failing"}]
         /\ \A q \in Processes : phase'[q] \in {"posting", "booking"} =>
              phase'[q] = phase[q]
         /\ UNCHANGED <<running_task, hb_task, subscribed>>
BY DEF StopThreads, TypeInv, TypeOK

\* Every step keeps the types.
LEMMA TypeStep == ASSUME TypeInv, [Next]_vars PROVE TypeInv'
<1> USE DEF TypeInv, Submitting
<1>1. CASE ProducerRuns
  <2>1. Producer \in Processes
    BY DEF Processes
  <2> QED  BY <1>1, <2>1, RunType DEF ProducerRuns, TypeOK, books, atBroker
<1>2. ASSUME NEW p \in Processes, Subscribe(p) PROVE TypeInv'
  BY <1>2 DEF Subscribe, TypeOK, books, atBroker
<1>3. ASSUME NEW p \in Processes, Reconnect(p) PROVE TypeInv'
  <2>1. CASE Run(p)
    BY <1>3, <2>1, RunType DEF Reconnect, TypeOK, books, atBroker
  <2>2. CASE StopThreads(p, "reconnecting") /\ UNCHANGED session
    BY <1>3, <2>2, StopType DEF Reconnect, TypeOK, books, atBroker
  <2> QED  BY <1>3, <2>1, <2>2 DEF Reconnect
<1>4. ASSUME NEW p \in Processes, ReconnectJoined(p) PROVE TypeInv'
  BY <1>4 DEF ReconnectJoined, Joined, TypeOK, ThreadState, books, atBroker
<1>5. ASSUME NEW p \in Processes, ListenerEnds(p) PROVE TypeInv'
  BY <1>5 DEF ListenerEnds, Fault, TypeOK, ThreadState, loop, books, atBroker
<1>6. ASSUME NEW p \in Processes, HeartbeatEnds(p) PROVE TypeInv'
  BY <1>6 DEF HeartbeatEnds, Fault, TypeOK, ThreadState, loop, books, atBroker
<1>7. ASSUME NEW p \in Processes, NEW o \in Orders, Submit(p, o) PROVE TypeInv'
  BY <1>7 DEF Submit, TypeOK, threads, books
<1>8. ASSUME NEW p \in Processes, SubmitReturns(p) PROVE TypeInv'
  <2>1. CASE UNCHANGED order_symbol
    BY <1>8, <2>1 DEF SubmitReturns, TypeOK, threads, atBroker
  <2>2. CASE /\ phase[p] = "posting"
             /\ order_symbol' = [order_symbol EXCEPT ![p] = @ \cup {current[p]}]
             /\ phase' = [phase EXCEPT ![p] = "booking"]
             /\ UNCHANGED current
    <3>1. order_symbol' \in [Processes -> SUBSET Orders]
      BY <2>2 DEF TypeOK
    <3>2. phase' \in [Processes -> {"off", "idle", "posting", "booking", "subscribing",
                                    "reconnecting", "failing"}]
      BY <2>2 DEF TypeOK
    <3>3. Submitting'
      BY <2>2 DEF TypeOK
    <3> QED  BY <1>8, <2>2, <3>1, <3>2, <3>3 DEF SubmitReturns, TypeOK, threads, atBroker
  <2> QED  BY <1>8, <2>1, <2>2 DEF SubmitReturns
<1>9. ASSUME NEW p \in Processes, BookSide(p) PROVE TypeInv'
  BY <1>9 DEF BookSide, TypeOK, threads, atBroker
<1>10. ASSUME NEW p \in Processes, SubmitFails(p) PROVE TypeInv'
  <2>1. /\ faults' \in 0 .. MaxFaults
        /\ current' = [current EXCEPT ![p] = None]
        /\ UNCHANGED <<broker, holder, session, order_symbol, order_side, order, owner,
                       emitted, updates>>
    BY <1>10 DEF SubmitFails, Fault, TypeOK, books, atBroker
  <2>2. current' \in [Processes -> Orders \cup {None}]
    BY <2>1 DEF TypeOK
  <2>3. phase[p] = "posting" /\ phase'[p] \in {"failing", "idle"}
    BY <1>10 DEF SubmitFails, StopThreads, TypeOK
  <2>4. CASE StopThreads(p, "failing")
    <3>1. /\ stopping' \in [Processes -> BOOLEAN]
          /\ flags_run' \in [Processes -> BOOLEAN]
          /\ phase' \in [Processes -> {"off", "idle", "posting", "booking", "subscribing",
                                       "reconnecting", "failing"}]
          /\ UNCHANGED <<running_task, hb_task, subscribed>>
      BY <2>4, StopType
    <3>2. \A q \in Processes : q # p => phase'[q] = phase[q]
      BY <2>4 DEF StopThreads, TypeOK
    <3>3. Submitting'
      BY <2>1, <2>3, <3>2 DEF TypeOK
    <3> QED  BY <2>1, <2>2, <3>1, <3>3 DEF TypeOK
  <2>5. CASE /\ phase' = [phase EXCEPT ![p] = "idle"]
             /\ flags_run' = [flags_run EXCEPT ![p] = FALSE]
             /\ UNCHANGED <<running_task, hb_task, stopping, subscribed>>
    BY <2>1, <2>2, <2>5 DEF TypeOK
  <2> QED  BY <1>10, <2>4, <2>5 DEF SubmitFails
<1>11. ASSUME NEW p \in Processes, FailJoined(p) PROVE TypeInv'
  BY <1>11 DEF FailJoined, Joined, TypeOK, ThreadState, books, atBroker
<1>12. ASSUME NEW o \in Orders, Accept(o) PROVE TypeInv'
  BY <1>12 DEF Accept, TypeOK, threads, loop, books
<1>13. ASSUME NEW o \in Orders, NEW kind \in Kinds, Notify(o, kind) PROVE TypeInv'
  <2>1. emitted' \in Seq([order : Orders, kind : Kinds]) /\ Len(emitted') = Len(emitted) + 1
    BY <1>13 DEF Notify, TypeOK
  <2>2. \A p \in Processes : session'[p] \in Seq(1 .. Len(emitted'))
    <3>1. TAKE p \in Processes
    <3>2. session[p] \in Seq(1 .. Len(emitted'))
      BY <2>1, MoreNotices DEF TypeOK
    <3>3. Append(session[p], Len(emitted')) \in Seq(1 .. Len(emitted'))
      BY <2>1, <3>2
    <3> QED  BY <1>13, <3>2, <3>3 DEF Notify
  <2>3. \A c \in Consumers : updates'[c] \in Seq(1 .. Len(emitted'))
    BY <1>13, <2>1, MoreNotices DEF Notify, TypeOK
  <2>4. session' \in [Processes -> Seq(1 .. Len(emitted'))]
    BY <1>13, <2>2 DEF Notify
  <2>5. updates' \in [Consumers -> Seq(1 .. Len(emitted'))]
    BY <1>13, <2>3 DEF Notify, TypeOK
  <2>6. order' \in [Orders -> {"none", "live", "over"}]
    BY <1>13 DEF Notify, TypeOK
  <2> QED  BY <1>13, <2>1, <2>4, <2>5, <2>6 DEF Notify, TypeOK, threads, loop, books
<1>14. ASSUME NEW p \in Processes, OnMessageIgnored(p) PROVE TypeInv'
  BY <1>14 DEF OnMessageIgnored, OnMessage, TypeOK, threads, loop, books, atBroker
<1>15. ASSUME NEW p \in Processes, OnMessageForwards(p) PROVE TypeInv'
  <2>1. Head(session[p]) \in 1 .. Len(emitted) /\ Tail(session[p]) \in Seq(1 .. Len(emitted))
    BY <1>15 DEF OnMessageForwards, OnMessage, TypeOK
  <2>2. PICK n \in 0 .. NumConsumers :
          /\ updates' = [c \in Consumers |-> IF c <= n THEN Append(updates[c], Head(session[p]))
                                                       ELSE updates[c]]
          /\ IF n < NumConsumers THEN Fault ELSE UNCHANGED faults
    BY <1>15 DEF OnMessageForwards
  <2>3. updates' \in [Consumers -> Seq(1 .. Len(emitted))]
    <3>1. \A c \in Consumers : updates[c] \in Seq(1 .. Len(emitted))
      BY DEF TypeOK
    <3>2. \A c \in Consumers : Append(updates[c], Head(session[p])) \in Seq(1 .. Len(emitted))
      BY <2>1, <3>1
    <3> QED  BY <2>2, <3>1, <3>2
  <2>4. faults' \in 0 .. MaxFaults
    BY <2>2 DEF Fault, TypeOK
  <2>5. session' \in [Processes -> Seq(1 .. Len(emitted))]
    BY <1>15, <2>1 DEF OnMessageForwards, OnMessage, TypeOK
  <2> QED  BY <1>15, <2>3, <2>4, <2>5
           DEF OnMessageForwards, OnMessage, TypeOK, threads, loop, books, atBroker
<1>16. CASE UNCHANGED vars
  BY <1>16 DEF vars, TypeOK, threads, loop, books, atBroker
<1> QED
  BY <1>1, <1>2, <1>3, <1>4, <1>5, <1>6, <1>7, <1>8, <1>9, <1>10, <1>11, <1>12, <1>13,
     <1>14, <1>15, <1>16
  DEF Next, ProcessStep, ThreadStep

\* Every variable of a listener and its broker always has its type.
THEOREM ListenerTypeCorrect == Spec => []TypeOK
<1>1. Init => TypeInv
  BY TypeInit
<1>2. TypeInv /\ [Next]_vars => TypeInv'
  BY TypeStep
<1>3. TypeInv => TypeOK
  BY DEF TypeInv
<1> QED  BY <1>1, <1>2, <1>3, PTL DEF Spec

-----------------------------------------------------------------------------
(* What consumers are told, and in which order.                             *)

Increasing(s) == \A i, j \in 1 .. Len(s) : i < j => s[i] < s[j]

\* A session holds its notices in their order, and those of the listener that
\* has the queues are newer than all a consumer got.
SessionsInOrder ==
  /\ \A p \in Processes : Increasing(session[p])
  /\ \A c \in Consumers : \A i \in 1 .. Len(updates[c]), j \in 1 .. Len(session[holder]) :
       updates[c][i] < session[holder][j]

\* The broker says nothing of an order after its end.
SilentAfterTheEnd ==
  /\ \A i \in 1 .. Len(emitted) :
       Closing(emitted[i].kind) => order[emitted[i].order] = "over"
  /\ \A i, j \in 1 .. Len(emitted) :
       i < j /\ emitted[i].order = emitted[j].order => ~Closing(emitted[i].kind)

ToldInv == TypeOK /\ SessionsInOrder /\ UpdatesInOrder /\ SilentAfterTheEnd

\* A notice is of an order and of some kind.
LEMMA NoticeType ==
  ASSUME TypeOK, NEW i \in 1 .. Len(emitted)
  PROVE  emitted[i].order \in Orders /\ emitted[i].kind \in Kinds
<1>1. emitted \in Seq([order : Orders, kind : Kinds])
  BY DEF TypeOK
<1>2. emitted[i] \in [order : Orders, kind : Kinds]
  BY <1>1, ElementOfSeq
<1> QED  BY <1>2

\* What is left of a session, and one that a newer notice was added to, are in
\* order.
LEMMA TailIncreases ==
  ASSUME NEW S, NEW s \in Seq(S), s # << >>, Increasing(s)
  PROVE  /\ Increasing(Tail(s))
         /\ \A i \in 1 .. Len(Tail(s)) : \E j \in 2 .. Len(s) : Tail(s)[i] = s[j]
<1>1. Len(Tail(s)) = Len(s) - 1 /\ \A i \in 1 .. Len(Tail(s)) : Tail(s)[i] = s[i + 1]
  OBVIOUS
<1>2. Len(s) \in Nat
  OBVIOUS
<1>3. \A i \in 1 .. Len(Tail(s)) : i + 1 \in 2 .. Len(s)
  BY <1>1, <1>2
<1>4. Increasing(Tail(s))
  BY <1>1, <1>2, <1>3 DEF Increasing
<1> QED  BY <1>1, <1>3, <1>4

LEMMA AppendIncreases ==
  ASSUME NEW n \in Nat, NEW s \in Seq(1 .. n), Increasing(s), NEW e \in Int,
         \A i \in 1 .. Len(s) : s[i] < e
  PROVE  /\ Increasing(Append(s, e))
         /\ Len(Append(s, e)) = Len(s) + 1
         /\ Append(s, e)[Len(s) + 1] = e
         /\ \A i \in 1 .. Len(s) : Append(s, e)[i] = s[i]
<1>1. /\ Len(Append(s, e)) = Len(s) + 1
      /\ Append(s, e)[Len(s) + 1] = e
      /\ \A i \in 1 .. Len(s) : Append(s, e)[i] = s[i]
  OBVIOUS
<1>2. Len(s) \in Nat
  OBVIOUS
<1>3. ASSUME NEW i \in 1 .. Len(s) + 1, NEW j \in 1 .. Len(s) + 1, i < j
      PROVE  Append(s, e)[i] < Append(s, e)[j]
  <2>1. i \in 1 .. Len(s)
    BY <1>2, <1>3
  <2>2. CASE j = Len(s) + 1
    BY <1>1, <2>1, <2>2
  <2>3. CASE j \in 1 .. Len(s)
    BY <1>1, <1>3, <2>1, <2>3 DEF Increasing
  <2> QED  BY <1>2, <2>2, <2>3
<1> QED  BY <1>1, <1>3 DEF Increasing

\* At the start nothing was said.
LEMMA ToldInit == Init => ToldInv
<1> SUFFICES ASSUME Init PROVE ToldInv
  OBVIOUS
<1>1. TypeOK
  BY TypeInit DEF TypeInv
<1>2. /\ \A p \in Processes : session[p] = << >>
      /\ \A c \in Consumers : updates[c] = << >>
      /\ emitted = << >>
  BY DEF Init
<1> QED
  BY <1>1, <1>2 DEF ToldInv, SessionsInOrder, UpdatesInOrder, SilentAfterTheEnd, Increasing

\* What starts, stops or submits leaves what was said alone, and sessions too
\* unless they begin anew.
LEMMA ToldKept ==
  ASSUME ToldInv, TypeOK', UNCHANGED <<holder, emitted, updates>>,
         \A p \in Processes : session'[p] \in {session[p], << >>},
         \A o \in Orders : order[o] = "over" => order'[o] = "over"
  PROVE  ToldInv'
<1> USE DEF ToldInv
<1>1. SessionsInOrder'
  <2>1. ASSUME NEW p \in Processes PROVE Increasing(session'[p])
    <3>1. session'[p] = session[p] \/ Len(session'[p]) = 0
      OBVIOUS
    <3> QED  BY <3>1 DEF SessionsInOrder, Increasing
  <2>2. \A c \in Consumers : \A i \in 1 .. Len(updates[c]) :
          \A j \in 1 .. Len(session'[holder]) : updates[c][i] < session'[holder][j]
    <3>1. holder \in Processes
      BY DEF TypeOK
    <3>2. session'[holder] = session[holder] \/ Len(session'[holder]) = 0
      BY <3>1
    <3> QED  BY <3>2 DEF SessionsInOrder
  <2> QED  BY <2>1, <2>2 DEF SessionsInOrder
<1>2. UpdatesInOrder'
  BY DEF UpdatesInOrder
<1>3. SilentAfterTheEnd'
  <2>1. \A i \in 1 .. Len(emitted) : emitted[i].order \in Orders
    BY NoticeType
  <2>2. emitted' = emitted
    OBVIOUS
  <2> QED  BY <2>1, <2>2 DEF SilentAfterTheEnd
<1> QED  BY <1>1, <1>2, <1>3

\* A notice is newer than all before it, and the last one of an order it closes.
LEMMA ToldNotify ==
  ASSUME ToldInv, NEW o \in Orders, NEW kind \in Kinds, Notify(o, kind), TypeOK'
  PROVE  ToldInv'
<1> USE DEF ToldInv
<1> DEFINE n == Len(emitted)
<1>1. /\ n \in Nat /\ Len(emitted') = n + 1
      /\ emitted'[n + 1] = [order |-> o, kind |-> kind]
      /\ \A i \in 1 .. n : emitted'[i] = emitted[i]
  BY DEF Notify, TypeOK
<1>2. \A p \in Processes : session[p] \in Seq(1 .. n) /\ Increasing(session[p])
  BY DEF TypeOK, SessionsInOrder
<1>3. \A p \in Processes : session'[p] = session[p] \/ session'[p] = Append(session[p], n + 1)
  BY <1>1 DEF Notify, TypeOK
<1>4. updates' = updates /\ holder' = holder /\ holder \in Processes
  BY DEF Notify, TypeOK
<1>5. ASSUME NEW p \in Processes
      PROVE  /\ Increasing(session'[p])
             /\ \A j \in 1 .. Len(session'[p]) :
                  \/ session'[p][j] = n + 1
                  \/ j \in 1 .. Len(session[p]) /\ session'[p][j] = session[p][j]
  <2>1. session[p] \in Seq(1 .. n) /\ Increasing(session[p])
    BY <1>2
  <2>2. \A i \in 1 .. Len(session[p]) : session[p][i] < n + 1
    BY <1>1, <2>1
  <2>3. CASE session'[p] = Append(session[p], n + 1)
    <3>1. /\ Increasing(Append(session[p], n + 1))
          /\ Len(Append(session[p], n + 1)) = Len(session[p]) + 1
          /\ Append(session[p], n + 1)[Len(session[p]) + 1] = n + 1
          /\ \A i \in 1 .. Len(session[p]) : Append(session[p], n + 1)[i] = session[p][i]
      BY <1>1, <2>1, <2>2, AppendIncreases
    <3>2. Len(session[p]) \in Nat
      BY <2>1
    <3> QED  BY <2>3, <3>1, <3>2
  <2>4. CASE session'[p] = session[p]
    BY <2>1, <2>4
  <2> QED  BY <1>3, <2>3, <2>4
<1>6. \A c \in Consumers : \A i \in 1 .. Len(updates[c]) : updates[c][i] \in 1 .. n
  BY DEF TypeOK
<1>7. SessionsInOrder'
  <2>1. \A p \in Processes : Increasing(session'[p])
    BY <1>5
  <2>2. ASSUME NEW c \in Consumers, NEW i \in 1 .. Len(updates[c]),
               NEW j \in 1 .. Len(session'[holder])
        PROVE  updates[c][i] < session'[holder][j]
    <3>1. updates[c][i] \in 1 .. n
      BY <1>6
    <3>2. CASE session'[holder][j] = n + 1
      BY <1>1, <3>1, <3>2
    <3>3. CASE j \in 1 .. Len(session[holder]) /\ session'[holder][j] = session[holder][j]
      BY <3>3 DEF SessionsInOrder
    <3> QED  BY <1>4, <1>5, <3>2, <3>3
  <2> QED  BY <1>4, <2>1, <2>2 DEF SessionsInOrder, Increasing
<1>8. UpdatesInOrder'
  BY <1>4 DEF UpdatesInOrder
<1>9. SilentAfterTheEnd'
  <2>1. order[o] = "live" /\ \A q \in Orders \ {o} : order'[q] = order[q]
    BY DEF Notify, TypeOK
  <2>2. Closing(kind) => order'[o] = "over"
    BY DEF Notify, TypeOK
  <2>3. \A i \in 1 .. n : emitted[i].order \in Orders
    BY NoticeType
  <2>4. \A i \in 1 .. n : Closing(emitted[i].kind) => emitted[i].order # o
    BY <2>1 DEF SilentAfterTheEnd
  <2>5. \A i \in 1 .. n + 1 : Closing(emitted'[i].kind) => order'[emitted'[i].order] = "over"
    BY <1>1, <2>1, <2>2, <2>3, <2>4 DEF SilentAfterTheEnd
  <2>6. ASSUME NEW i \in 1 .. n + 1, NEW j \in 1 .. n + 1, i < j,
               emitted'[i].order = emitted'[j].order
        PROVE  ~Closing(emitted'[i].kind)
    <3>1. i \in 1 .. n /\ emitted'[i] = emitted[i]
      BY <1>1, <2>6
    <3>2. CASE j = n + 1
      BY <1>1, <2>4, <2>6, <3>1, <3>2
    <3>3. CASE j \in 1 .. n
      BY <1>1, <2>6, <3>1, <3>3 DEF SilentAfterTheEnd
    <3> QED  BY <1>1, <3>2, <3>3
  <2> QED  BY <1>1, <2>5, <2>6 DEF SilentAfterTheEnd
<1> QED  BY <1>7, <1>8, <1>9

\* A listener takes the oldest notice of its session; only the one that has the
\* queues puts it there, behind older ones.
LEMMA ToldOnMessage ==
  ASSUME ToldInv, NEW p \in Processes, OnMessage(p), TypeOK',
         \/ UNCHANGED updates
         \/ /\ p = holder
            /\ \A c \in Consumers :
                 updates'[c] \in {updates[c], Append(updates[c], Head(session[p]))}
  PROVE  ToldInv'
<1> USE DEF ToldInv
<1> DEFINE n == Len(emitted)
           h == Head(session[p])
<1>1. n \in Nat /\ session[p] \in Seq(1 .. n) /\ session[p] # << >> /\ holder \in Processes
  BY DEF OnMessage, TypeOK
<1>2. h \in 1 .. n /\ h = session[p][1] /\ 1 \in 1 .. Len(session[p])
  BY <1>1
<1>3. session'[p] = Tail(session[p]) /\ \A q \in Processes \ {p} : session'[q] = session[q]
  BY DEF OnMessage, TypeOK
<1>4. /\ Increasing(Tail(session[p]))
      /\ \A i \in 1 .. Len(Tail(session[p])) :
           \E j \in 2 .. Len(session[p]) : Tail(session[p])[i] = session[p][j]
  BY <1>1, TailIncreases DEF SessionsInOrder
<1>5. UNCHANGED <<holder, emitted, order>>
  BY DEF OnMessage, atBroker
<1>6. \A i \in 1 .. Len(Tail(session[p])) : h < Tail(session[p])[i]
  <2>1. \A j \in 2 .. Len(session[p]) : j \in 1 .. Len(session[p]) /\ 1 < j
    BY <1>1
  <2>2. \A j \in 2 .. Len(session[p]) : session[p][1] < session[p][j]
    BY <1>2, <2>1 DEF SessionsInOrder, Increasing
  <2> QED  BY <1>2, <1>4, <2>2
<1>7. ASSUME NEW c \in Consumers
      PROVE  /\ Increasing(updates'[c])
             /\ \A i \in 1 .. Len(updates'[c]) :
                  \/ i \in 1 .. Len(updates[c]) /\ updates'[c][i] = updates[c][i]
                  \/ updates'[c][i] = h /\ p = holder
  <2>1. updates[c] \in Seq(1 .. n) /\ Increasing(updates[c])
    BY DEF TypeOK, UpdatesInOrder, Increasing
  <2>2. CASE updates'[c] = updates[c]
    BY <2>1, <2>2
  <2>3. CASE updates'[c] = Append(updates[c], h) /\ p = holder
    <3>1. \A i \in 1 .. Len(updates[c]) : updates[c][i] < h
      BY <1>2, <2>3 DEF SessionsInOrder
    <3>4. h \in Int
      BY <1>1, <1>2
    <3> HIDE DEF n, h
    <3>2. /\ Increasing(Append(updates[c], h))
          /\ Len(Append(updates[c], h)) = Len(updates[c]) + 1
          /\ Append(updates[c], h)[Len(updates[c]) + 1] = h
          /\ \A i \in 1 .. Len(updates[c]) : Append(updates[c], h)[i] = updates[c][i]
      BY <1>1, <2>1, <3>1, <3>4, AppendIncreases
    <3>3. Len(updates[c]) \in Nat
      BY <2>1
    <3> QED  BY <2>3, <3>2, <3>3
  <2> QED  BY <2>2, <2>3
<1>8. UpdatesInOrder'
  BY <1>7 DEF UpdatesInOrder, Increasing
<1>9. SessionsInOrder'
  <2>1. \A q \in Processes : Increasing(session'[q])
    BY <1>3, <1>4 DEF SessionsInOrder
  <2>2. ASSUME NEW c \in Consumers, NEW i \in 1 .. Len(updates'[c]),
               NEW j \in 1 .. Len(session'[holder])
        PROVE  updates'[c][i] < session'[holder][j]
    <3>1. CASE updates'[c][i] = h /\ p = holder
      BY <1>3, <1>6, <3>1
    <3>2. CASE i \in 1 .. Len(updates[c]) /\ updates'[c][i] = updates[c][i] /\ p = holder
      <4>1. session'[holder] = Tail(session[p])
        BY <1>3, <3>2
      <4>2. PICK k \in 2 .. Len(session[p]) : Tail(session[p])[j] = session[p][k]
        BY <1>4, <4>1
      <4>3. k \in 1 .. Len(session[p])
        BY <1>1
      <4> QED  BY <3>2, <4>1, <4>2, <4>3 DEF SessionsInOrder
    <3>3. CASE i \in 1 .. Len(updates[c]) /\ updates'[c][i] = updates[c][i] /\ p # holder
      BY <1>1, <1>3, <3>3 DEF SessionsInOrder
    <3> QED  BY <1>7, <3>1, <3>2, <3>3
  <2> QED  BY <1>5, <2>1, <2>2 DEF SessionsInOrder, Increasing
<1>10. SilentAfterTheEnd'
  BY <1>5 DEF SilentAfterTheEnd
<1> QED  BY <1>8, <1>9, <1>10

\* Every step keeps the order of what is said.
LEMMA ToldStep == ASSUME ToldInv, TypeOK', [Next]_vars PROVE ToldInv'
<1>1. CASE /\ UNCHANGED <<holder, emitted, updates>>
           /\ \A p \in Processes : session'[p] \in {session[p], << >>}
           /\ \A o \in Orders : order[o] = "over" => order'[o] = "over"
  BY <1>1, ToldKept
<1> USE DEF ToldInv
<1>2. CASE ProducerRuns
  BY <1>1, <1>2 DEF ProducerRuns, Run, TypeOK, atBroker
<1>3. ASSUME NEW p \in Processes, Subscribe(p) PROVE ToldInv'
  BY <1>1, <1>3 DEF Subscribe, TypeOK, atBroker
<1>4. ASSUME NEW p \in Processes, Reconnect(p) PROVE ToldInv'
  <2>1. UNCHANGED <<holder, emitted, order, updates>>
    BY <1>4 DEF Reconnect, atBroker
  <2>2. \A q \in Processes : session'[q] \in {session[q], << >>}
    <3>1. CASE UNCHANGED session
      BY <3>1
    <3>2. CASE Run(p)
      BY <3>2 DEF Run, TypeOK
    <3> QED  BY <1>4, <3>1, <3>2 DEF Reconnect
  <2> QED  BY <1>1, <2>1, <2>2
<1>5. ASSUME NEW p \in Processes, ReconnectJoined(p) PROVE ToldInv'
  BY <1>1, <1>5 DEF ReconnectJoined, Joined, TypeOK, atBroker
<1>6. ASSUME NEW p \in Processes, ListenerEnds(p) \/ HeartbeatEnds(p) PROVE ToldInv'
  BY <1>1, <1>6 DEF ListenerEnds, HeartbeatEnds, TypeOK, atBroker
<1>7. ASSUME NEW p \in Processes, NEW o \in Orders, Submit(p, o) PROVE ToldInv'
  BY <1>1, <1>7 DEF Submit, TypeOK
<1>8. ASSUME NEW p \in Processes, SubmitReturns(p) \/ BookSide(p) PROVE ToldInv'
  BY <1>1, <1>8 DEF SubmitReturns, BookSide, TypeOK, atBroker
<1>9. ASSUME NEW p \in Processes, SubmitFails(p) PROVE ToldInv'
  BY <1>1, <1>9 DEF SubmitFails, StopThreads, TypeOK, atBroker
<1>10. ASSUME NEW p \in Processes, FailJoined(p) PROVE ToldInv'
  BY <1>1, <1>10 DEF FailJoined, Joined, TypeOK, atBroker
<1>11. ASSUME NEW o \in Orders, Accept(o) PROVE ToldInv'
  BY <1>1, <1>11 DEF Accept, TypeOK
<1>12. ASSUME NEW o \in Orders, NEW kind \in Kinds, Notify(o, kind) PROVE ToldInv'
  BY <1>12, ToldNotify
<1>13. ASSUME NEW p \in Processes, OnMessageIgnored(p) PROVE ToldInv'
  BY <1>13, ToldOnMessage DEF OnMessageIgnored
<1>14. ASSUME NEW p \in Processes, OnMessageForwards(p) PROVE ToldInv'
  BY <1>14, ToldOnMessage DEF OnMessageForwards, ToForward
<1>15. CASE UNCHANGED vars
  BY <1>1, <1>15 DEF vars, TypeOK, atBroker
<1> QED
  BY <1>2, <1>3, <1>4, <1>5, <1>6, <1>7, <1>8, <1>9, <1>10, <1>11, <1>12, <1>13, <1>14, <1>15
  DEF Next, ProcessStep, ThreadStep

\* What is told in the broker's order ends with the end of the order.
LEMMA ToldImplies == ASSUME ToldInv PROVE ToldInOrder
<1> USE DEF ToldInv
<1>1. ASSUME NEW c \in Consumers,
             NEW i \in 1 .. Len(updates[c]), NEW j \in 1 .. Len(updates[c]), i < j,
             emitted[updates[c][i]].order = emitted[updates[c][j]].order,
             Event(emitted[updates[c][i]].kind) # "partial_fill"
      PROVE  emitted[updates[c][i]].kind = "cancel_rejected"
  <2>1. updates[c][i] \in 1 .. Len(emitted) /\ updates[c][j] \in 1 .. Len(emitted)
    BY DEF TypeOK
  <2>2. updates[c][i] < updates[c][j]
    BY <1>1 DEF UpdatesInOrder
  <2>3. ~Closing(emitted[updates[c][i]].kind)
    BY <1>1, <2>1, <2>2 DEF SilentAfterTheEnd
  <2>4. emitted[updates[c][i]].kind \in Kinds
    BY <2>1, NoticeType
  <2>5. emitted[updates[c][i]].kind # "part"
    BY <1>1 DEF Event
  <2> QED  BY <2>3, <2>4, <2>5 DEF Closing, Kinds
<1>2. NothingAfterTheEnd
  BY <1>1 DEF NothingAfterTheEnd
<1> QED  BY <1>2 DEF ToldInOrder

\* For any number of listeners that come and go, a consumer hears of each event at
\* most once, in the broker's order, and nothing of an order after its end.
THEOREM ToldInOrderAlways == Spec => []ToldInOrder
<1>1. Init => ToldInv
  BY ToldInit
<1>2. ToldInv /\ TypeOK' /\ [Next]_vars => ToldInv'
  BY ToldStep
<1>3. ToldInv => ToldInOrder
  BY ToldImplies
<1> QED  BY <1>1, <1>2, <1>3, ListenerTypeCorrect, PTL DEF Spec
-----------------------------------------------------------------------------
(* Whose orders a consumer is told of.                                      *)

\* A process submits and knows only orders of its own.
Owned ==
  \A p \in Processes :
    /\ current[p] # None => owner[current[p]] = p
    /\ \A o \in order_symbol[p] : owner[o] = p

OwnInv == TypeInv /\ Owned /\ OnlyOwnOrders

\* An order's owner is set once, so that what a process knows stays its own.
LEMMA OwnedStep == ASSUME OwnInv, [Next]_vars PROVE Owned'
<1> USE DEF OwnInv, TypeInv
<1>1. CASE UNCHANGED <<current, order_symbol, owner>>
  BY <1>1 DEF Owned
<1>2. CASE ProducerRuns
  BY <1>1, <1>2 DEF ProducerRuns, books, atBroker
<1>3. ASSUME NEW p \in Processes,
             \/ Subscribe(p) \/ Reconnect(p) \/ ReconnectJoined(p) \/ FailJoined(p)
             \/ ListenerEnds(p) \/ HeartbeatEnds(p)
             \/ OnMessageIgnored(p) \/ OnMessageForwards(p)
      PROVE  Owned'
  BY <1>1, <1>3 DEF Subscribe, Reconnect, ReconnectJoined, FailJoined, ListenerEnds,
                    HeartbeatEnds, OnMessageIgnored, OnMessageForwards, OnMessage,
                    loop, books, atBroker
<1>4. ASSUME NEW p \in Processes, NEW o \in Orders, Submit(p, o) PROVE Owned'
  <2>1. owner[o] = None /\ owner' = [owner EXCEPT ![o] = p]
    BY <1>4 DEF Submit
  <2>2. current' = [current EXCEPT ![p] = o] /\ order_symbol' = order_symbol
    BY <1>4 DEF Submit, books
  <2>3. \A q \in Orders : owner[q] # None => owner'[q] = owner[q]
    BY <2>1 DEF TypeOK
  <2>4. \A q \in Processes : q # None
    OBVIOUS
  <2>5. \A q \in Processes : current'[q] # None => owner'[current'[q]] = q
    BY <2>1, <2>2, <2>3, <2>4 DEF Owned, TypeOK
  <2>6. \A q \in Processes : \A r \in order_symbol'[q] : owner'[r] = q
    BY <2>2, <2>3, <2>4 DEF Owned, TypeOK
  <2> QED  BY <2>5, <2>6 DEF Owned
<1>5. ASSUME NEW p \in Processes, SubmitReturns(p) PROVE Owned'
  <2>1. current[p] \in Orders /\ owner' = owner
    BY <1>5 DEF SubmitReturns, Submitting, atBroker
  <2>2. /\ current' \in {current, [current EXCEPT ![p] = None]}
        /\ order_symbol' \in {order_symbol,
                              [order_symbol EXCEPT ![p] = @ \cup {current[p]}]}
    BY <1>5 DEF SubmitReturns
  <2> QED  BY <2>1, <2>2 DEF Owned, TypeOK
<1>6. ASSUME NEW p \in Processes, BookSide(p) \/ SubmitFails(p) PROVE Owned'
  <2>1. current' = [current EXCEPT ![p] = None] /\ UNCHANGED <<order_symbol, owner>>
    BY <1>6 DEF BookSide, SubmitFails, books, atBroker
  <2> QED  BY <2>1 DEF Owned, TypeOK
<1>7. ASSUME NEW o \in Orders, Accept(o) \/ \E kind \in Kinds : Notify(o, kind) PROVE Owned'
  BY <1>1, <1>7 DEF Accept, Notify, loop, books
<1>8. CASE UNCHANGED vars
  BY <1>1, <1>8 DEF vars, loop, books, atBroker
<1> QED
  BY <1>2, <1>3, <1>4, <1>5, <1>6, <1>7, <1>8 DEF Next, ProcessStep, ThreadStep

\* What was told of stays where it was, with its owner.
LEMMA OwnKept ==
  ASSUME OwnInv, UNCHANGED <<broker, holder, updates>>,
         \A i \in 1 .. Len(emitted) : emitted'[i] = emitted[i],
         \A o \in Orders : owner[o] # None => owner'[o] = owner[o]
  PROVE  OnlyOwnOrders'
<1> USE DEF OwnInv, TypeInv
<1>1. ASSUME broker = "tradier", NEW c \in Consumers, NEW i \in 1 .. Len(updates[c])
      PROVE  owner'[emitted'[updates[c][i]].order] = holder
  <2>1. updates[c][i] \in 1 .. Len(emitted)
    BY DEF TypeOK
  <2>2. emitted[updates[c][i]].order \in Orders
    BY <2>1, NoticeType
  <2>3. owner[emitted[updates[c][i]].order] = holder
    BY <1>1 DEF OnlyOwnOrders
  <2>4. holder # None
    BY DEF TypeOK
  <2> QED  BY <2>1, <2>2, <2>3, <2>4
<1> QED  BY <1>1 DEF OnlyOwnOrders

\* Tradier's listener looks an order up among those of its process.
LEMMA OwnForwards ==
  ASSUME OwnInv, NEW p \in Processes, OnMessageForwards(p)
  PROVE  OnlyOwnOrders'
<1> USE DEF OwnInv, TypeInv
<1> DEFINE h == Head(session[p])
<1>1. UNCHANGED <<broker, holder, emitted, owner>>
  BY DEF OnMessageForwards, OnMessage, atBroker
<1>2. p = holder /\ (broker = "tradier" => emitted[h].order \in order_symbol[p])
  BY DEF OnMessageForwards, ToForward, Known
<1>3. broker = "tradier" => owner[emitted[h].order] = holder
  BY <1>2 DEF Owned
<1>4. \A c \in Consumers : updates'[c] \in {updates[c], Append(updates[c], h)}
  BY DEF OnMessageForwards
<1>5. ASSUME broker = "tradier", NEW c \in Consumers, NEW i \in 1 .. Len(updates'[c])
      PROVE  owner[emitted[updates'[c][i]].order] = holder
  <2>1. updates[c] \in Seq(1 .. Len(emitted))
    BY DEF TypeOK
  <2> HIDE DEF h
  <2>2. updates'[c][i] = h \/ (i \in 1 .. Len(updates[c]) /\ updates'[c][i] = updates[c][i])
    <3>1. CASE updates'[c] = updates[c]
      BY <1>5, <3>1
    <3>2. CASE updates'[c] = Append(updates[c], h)
      <4>1. Len(updates'[c]) = Len(updates[c]) + 1 /\ Len(updates[c]) \in Nat
        BY <2>1, <3>2
      <4>2. CASE i = Len(updates[c]) + 1
        BY <2>1, <3>2, <4>2
      <4>3. CASE i \in 1 .. Len(updates[c])
        BY <2>1, <3>2, <4>3
      <4> QED  BY <1>5, <4>1, <4>2, <4>3
    <3> QED  BY <1>4, <3>1, <3>2
  <2> QED  BY <1>3, <1>5, <2>2 DEF OnlyOwnOrders
<1> QED  BY <1>1, <1>5 DEF OnlyOwnOrders

\* Every step keeps to own orders.
LEMMA OwnStep == ASSUME OwnInv, [Next]_vars PROVE OwnInv'
<1>1. TypeInv'
  BY TypeStep DEF OwnInv
<1>2. Owned'
  BY OwnedStep
<1>3. ASSUME UNCHANGED <<broker, holder, updates, emitted, owner>> PROVE OnlyOwnOrders'
  BY <1>3, OwnKept
<1>4. ASSUME ProducerRuns PROVE OnlyOwnOrders'
  BY <1>3, <1>4 DEF ProducerRuns, atBroker
<1>5. ASSUME NEW p \in Processes,
             \/ Subscribe(p) \/ Reconnect(p) \/ ReconnectJoined(p) \/ FailJoined(p)
             \/ ListenerEnds(p) \/ HeartbeatEnds(p) \/ OnMessageIgnored(p)
             \/ SubmitReturns(p) \/ BookSide(p) \/ SubmitFails(p)
      PROVE  OnlyOwnOrders'
  BY <1>3, <1>5 DEF Subscribe, Reconnect, ReconnectJoined, FailJoined, ListenerEnds,
                    HeartbeatEnds, OnMessageIgnored, OnMessage, SubmitReturns, BookSide,
                    SubmitFails, atBroker
<1>6. ASSUME NEW p \in Processes, NEW o \in Orders, Submit(p, o) PROVE OnlyOwnOrders'
  <2>1. /\ owner[o] = None /\ owner' = [owner EXCEPT ![o] = p]
        /\ UNCHANGED <<broker, holder, updates, emitted>>
    BY <1>6 DEF Submit
  <2>2. \A q \in Orders : owner[q] # None => owner'[q] = owner[q]
    BY <2>1 DEF OwnInv, TypeInv, TypeOK
  <2> QED  BY <2>1, <2>2, OwnKept
<1>7. ASSUME NEW o \in Orders, Accept(o) PROVE OnlyOwnOrders'
  BY <1>3, <1>7 DEF Accept
<1>8. ASSUME NEW o \in Orders, NEW kind \in Kinds, Notify(o, kind) PROVE OnlyOwnOrders'
  <2>1. UNCHANGED <<broker, holder, updates, owner>>
    BY <1>8 DEF Notify
  <2>2. \A i \in 1 .. Len(emitted) : emitted'[i] = emitted[i]
    BY <1>8 DEF Notify, OwnInv, TypeInv, TypeOK
  <2> QED  BY <2>1, <2>2, OwnKept
<1>9. ASSUME NEW p \in Processes, OnMessageForwards(p) PROVE OnlyOwnOrders'
  BY <1>9, OwnForwards
<1>10. ASSUME UNCHANGED vars PROVE OnlyOwnOrders'
  BY <1>3, <1>10 DEF vars, atBroker
<1>11. OnlyOwnOrders'
  BY <1>4, <1>5, <1>6, <1>7, <1>8, <1>9, <1>10 DEF Next, ProcessStep, ThreadStep
<1> QED  BY <1>1, <1>2, <1>11 DEF OwnInv

\* Whichever process has the queues, Tradier's listener puts there only updates of
\* orders its own process sent: that of the producer puts none.
THEOREM OnlyOwnOrdersAlways == Spec => []OnlyOwnOrders
<1>1. Init => OwnInv
  BY TypeInit DEF Init, OwnInv, Owned, OnlyOwnOrders
<1>2. OwnInv /\ [Next]_vars => OwnInv'
  BY OwnStep
<1>3. OwnInv => OnlyOwnOrders
  BY DEF OwnInv
<1> QED  BY <1>1, <1>2, <1>3, PTL DEF Spec

-----------------------------------------------------------------------------
(* Closing a listener.                                                      *)

\* A loop that waits for its threads has told them to end: the listener by
\* ws.keep_running, the heartbeat by flags.run.
Told ==
  \A p \in Processes :
    phase[p] \in {"reconnecting", "failing"} => stopping[p] /\ ~flags_run[p]

ClosingInv == TypeInv /\ Told

\* What takes back that a thread was told to end ends the waiting as well.
LEMMA ClosingStep == ASSUME ClosingInv, [Next]_vars PROVE ClosingInv'
<1> USE DEF ClosingInv, TypeInv
<1>1. TypeInv'
  BY TypeStep
<1>2. ASSUME UNCHANGED <<phase, stopping, flags_run>> PROVE Told'
  BY <1>2 DEF Told
<1>3. ASSUME NEW p \in Processes, NEW place, phase' = [phase EXCEPT ![p] = place],
             \A q \in Processes \ {p} : stopping'[q] = stopping[q] /\ flags_run'[q] = flags_run[q],
             place \in {"reconnecting", "failing"} => stopping'[p] /\ ~flags_run'[p]
      PROVE  Told'
  BY <1>3 DEF Told, TypeOK
<1>4. ASSUME ProducerRuns PROVE Told'
  <2>1. Producer \in Processes
    BY DEF Processes
  <2> QED  BY <1>3, <1>4, <2>1 DEF ProducerRuns, Run, TypeOK
<1>5. ASSUME NEW p \in Processes, Subscribe(p) \/ SubmitReturns(p) \/ BookSide(p) PROVE Told'
  BY <1>3, <1>5 DEF Subscribe, SubmitReturns, BookSide, threads
<1>6. ASSUME NEW p \in Processes, Reconnect(p) PROVE Told'
  BY <1>3, <1>6 DEF Reconnect, Run, StopThreads, TypeOK
<1>7. ASSUME NEW p \in Processes, ReconnectJoined(p) \/ FailJoined(p) PROVE Told'
  <2>1. /\ stopping' = [stopping EXCEPT ![p] = FALSE]
        /\ \A q \in Processes \ {p} : flags_run'[q] = flags_run[q]
    BY <1>7 DEF ReconnectJoined, FailJoined, TypeOK
  <2>2. \E place \in {"idle", "subscribing"} : phase' = [phase EXCEPT ![p] = place]
    BY <1>7 DEF ReconnectJoined, FailJoined
  <2> QED  BY <1>3, <2>1, <2>2 DEF TypeOK
<1>8. ASSUME NEW p \in Processes, SubmitFails(p) PROVE Told'
  BY <1>3, <1>8 DEF SubmitFails, StopThreads, TypeOK
<1>9. ASSUME NEW p \in Processes, NEW o \in Orders, Submit(p, o) PROVE Told'
  BY <1>3, <1>9 DEF Submit, threads
<1>10. ASSUME NEW p \in Processes, ThreadStep(p) PROVE Told'
  BY <1>2, <1>10 DEF ThreadStep, ListenerEnds, HeartbeatEnds, OnMessageIgnored,
                    OnMessageForwards, OnMessage, threads, loop
<1>11. ASSUME NEW o \in Orders, Accept(o) \/ \E kind \in Kinds : Notify(o, kind) PROVE Told'
  BY <1>2, <1>11 DEF Accept, Notify, threads, loop
<1>12. ASSUME UNCHANGED vars PROVE Told'
  BY <1>2, <1>12 DEF vars, threads, loop
<1> QED
  BY <1>1, <1>4, <1>5, <1>6, <1>7, <1>8, <1>9, <1>10, <1>11, <1>12 DEF Next, ProcessStep

\* The joins of close() are of threads that can see they must end, whatever other
\* threads, requests and processes do meanwhile: what CloseReturns needs of safety.
THEOREM JoinedThreadsAreTold == Spec => []Told
<1>1. Init => ClosingInv
  BY TypeInit DEF Init, ClosingInv, Told
<1>2. ClosingInv /\ [Next]_vars => ClosingInv'
  BY ClosingStep
<1>3. ClosingInv => Told
  BY DEF ClosingInv
<1> QED  BY <1>1, <1>2, <1>3, PTL DEF Spec
=============================================================================
