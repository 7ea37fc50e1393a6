--------------------------- MODULE TradePlan_proofs --------------------------
(* Proofs about TradePlan, for every value of its constants.                *)
EXTENDS TradePlan, TLAPS

InTable(e) == created[e] \in Time

\* Only what was scanned was sent, and what was scanned is older than last_scan
\* as soon as last_scan is set.
ScanInv ==
  /\ phase # "off" =>
       /\ {first_scan, last_scan} \subseteq Time
       /\ first_scan <= last_scan
       /\ last_scan <= now
  /\ phase \in {"off", "sleep"} => found = {}
  /\ \A e \in Entries :
       /\ InTable(e) => created[e] <= now
       /\ e \in found => /\ InTable(e)
                         /\ dispatched[e] = 0
                         /\ first_scan < created[e]
                         /\ phase = "dispense" => created[e] <= last_scan
       /\ dispatched[e] > 0 => /\ dispatched[e] = 1
                               /\ phase # "off"
                               /\ InTable(e)
                               /\ first_scan < created[e]
                               /\ created[e] <= last_scan

\* An entry waits at one place of one queue, and only if it was sent.
Waits(c, e) == \E i \in 1 .. Len(queues[c]) : queues[c][i] = e

QueueInv ==
  \A e \in Entries, c \in Consumers :
    Waits(c, e) =>
      /\ dispatched[e] > 0
      /\ \A d \in Consumers : Waits(d, e) => d = c
      /\ \A i, j \in 1 .. Len(queues[c]) :
           queues[c][i] = e /\ queues[c][j] = e => i = j

\* Until a consumer takes the message of an entry, the entry runs where it
\* was loaded and nowhere else.
NotTaken(e) == dispatched[e] = 0 \/ \E c \in Consumers : Waits(c, e)

CopiesOf(c, e) ==
  /\ running[c][e] > 0 => InTable(e)
  /\ stage[c] = "file" => remaining[c] \subseteq FileStrategies
                          /\ running[c][e] = 0
  /\ stage[c] = "create" =>
       /\ remaining[c] \subseteq Entries
       /\ e \in remaining[c] => running[c][e] = 0
       /\ running[c][e] > 0 \/ e \in remaining[c] => InTable(e) /\ Loaded(c, e)
  /\ NotTaken(e) /\ running[c][e] > 0 => running[c][e] = 1 /\ Loaded(c, e)

CopiesInv == \A e \in Entries, c \in Consumers : CopiesOf(c, e)

PlanInv == TypeOK /\ ScanInv /\ QueueInv /\ CopiesInv /\ OneCopyOfNew

-----------------------------------------------------------------------------
(* Type correctness.                                                        *)

\* One more copy of a strategy in one consumer, and nothing else.
LEMMA RunsEffect ==
  ASSUME TypeOK, NEW c \in Consumers, NEW s \in Strategies, Runs(c, s)
  PROVE  /\ running' \in [Consumers -> [Strategies -> Nat]]
         /\ running'[c][s] = running[c][s] + 1
         /\ \A d \in Consumers, t \in Strategies :
              d # c \/ t # s => running'[d][t] = running[d][t]
<1> DEFINE f == [running[c] EXCEPT ![s] = @ + 1]
<1>1. running[c] \in [Strategies -> Nat]
  BY DEF TypeOK
<1>2. running[c][s] + 1 \in Nat
  BY <1>1
<1>3. f \in [Strategies -> Nat]
  BY <1>1, <1>2
<1>4. running' = [running EXCEPT ![c] = f]
  BY DEF Runs
<1>5. running'[c] = f /\ \A d \in Consumers \ {c} : running'[d] = running[d]
  BY <1>4 DEF TypeOK
<1>6. running' \in [Consumers -> [Strategies -> Nat]]
  BY <1>3, <1>4 DEF TypeOK
<1>7. f[s] = running[c][s] + 1 /\ \A t \in Strategies \ {s} : f[t] = running[c][t]
  BY <1>1
<1> QED BY <1>5, <1>6, <1>7

LEMMA PositionsType ==
  ASSUME TypeOK, NEW c \in Consumers, NEW p \in Portfolios \cup {None},
         AddPositions(c, p)
  PROVE  positions' \in [Consumers -> [Portfolios -> Nat]]
<1>1. CASE p = None
  BY <1>1 DEF AddPositions, TypeOK
<1>2. CASE p # None
  <2> DEFINE f == [positions[c] EXCEPT ![p] = @ + 1]
  <2>1. positions[c] \in [Portfolios -> Nat]
    BY DEF TypeOK
  <2>2. positions[c][p] + 1 \in Nat
    BY <1>2, <2>1
  <2>3. f \in [Portfolios -> Nat]
    BY <1>2, <2>1, <2>2
  <2>4. positions' = [positions EXCEPT ![c] = f]
    BY <1>2 DEF AddPositions
  <2> QED BY <2>3, <2>4 DEF TypeOK
<1> QED BY <1>1, <1>2

LEMMA TypeStep ==
  ASSUME TypeOK, [Next]_vars
  PROVE  TypeOK'
<1> USE DEF TypeOK
<1>1. CASE Tick
  <2>1. now' \in Time
    BY <1>1, TicksAssumption DEF Tick, Time
  <2> QED BY <1>1, <2>1 DEF Tick, table, scanner, consumer
<1>2. ASSUME NEW e \in Entries, AddEntry(e) PROVE TypeOK'
  <2>1. created' \in [Entries -> Time \cup {None}]
    BY <1>2 DEF AddEntry
  <2>2. {0} \cup now + 1 .. LastTick \subseteq Time
    BY TicksAssumption DEF Time
  <2>3. starts' \in [Entries -> Time]
    BY <1>2, <2>2 DEF AddEntry
  <2>4. unreadable' \subseteq Entries
    BY <1>2 DEF AddEntry
  <2> QED BY <1>2, <2>1, <2>3, <2>4 DEF AddEntry, scanner, consumer
<1>3. ASSUME NEW e \in Entries, ExpireEntry(e) PROVE TypeOK'
  BY <1>3 DEF ExpireEntry, scanner, consumer
<1>4. CASE ScannerStarts
  BY <1>4 DEF ScannerStarts, table, consumer
<1>5. CASE GetNewEntries
  BY <1>5 DEF GetNewEntries, NewEntries, table, consumer
<1>6. CASE ScanFails
  <2>1. failures' \in 0 .. MaxFailures
    BY <1>6, TicksAssumption DEF ScanFails
  <2> QED BY <1>6, <2>1 DEF ScanFails, table, consumer
<1>7. CASE EntriesFetched
  BY <1>7 DEF EntriesFetched, table, consumer
<1>8. ASSUME NEW e \in Entries, NEW c \in Consumers, DispenseStrategy(e, c)
      PROVE  TypeOK'
  <2>1. Append(queues[c], e) \in Seq(Entries)
    OBVIOUS
  <2>2. queues' \in [Consumers -> Seq(Entries)]
    BY <1>8, <2>1 DEF DispenseStrategy
  <2>3. dispatched' \in [Entries -> Nat]
    BY <1>8 DEF DispenseStrategy
  <2>4. found' \subseteq Entries /\ phase' \in {"sleep", "dispense"}
    BY <1>8 DEF DispenseStrategy
  <2> QED BY <1>8, <2>2, <2>3, <2>4 DEF DispenseStrategy, table, consumer
<1>9. ASSUME NEW c \in Consumers, CreateFromFile(c) PROVE TypeOK'
  <2>1. PICK s \in remaining[c] :
          /\ remaining' = [remaining EXCEPT ![c] = @ \ {s}]
          /\ Runs(c, s) \/ UNCHANGED running
          /\ AddPositions(c, PortfolioOf[s])
    BY <1>9 DEF CreateFromFile
  <2>2. s \in Strategies
    OBVIOUS
  <2>3. running' \in [Consumers -> [Strategies -> Nat]]
    BY <2>1, <2>2, RunsEffect
  <2>4. positions' \in [Consumers -> [Portfolios -> Nat]]
    BY <2>1, <2>2, PortfolioAssumption, PositionsType
  <2>5. remaining' \in [Consumers -> SUBSET Strategies]
    BY <2>1
  <2> QED BY <1>9, <2>3, <2>4, <2>5 DEF CreateFromFile, table, scanner
<1>10. ASSUME NEW c \in Consumers, LoadPlan(c) PROVE TypeOK'
  <2> DEFINE rows == {e \in Entries : Current(e)}
  <2>1. rows \in SUBSET Strategies
    BY DEF Strategies
  <2>2. stage' \in [Consumers -> {"file", "create", "run", "dead"}]
    BY <1>10 DEF LoadPlan
  <2>3. remaining' \in [Consumers -> SUBSET Strategies]
    BY <1>10, <2>1 DEF LoadPlan
  <2>4. loaded_at' \in [Consumers -> Time \cup {None}]
    BY <1>10 DEF LoadPlan
  <2> QED BY <1>10, <2>2, <2>3, <2>4 DEF LoadPlan, table, scanner
<1>11. ASSUME NEW c \in Consumers, CreateFromDB(c) PROVE TypeOK'
  <2>1. PICK e \in remaining[c] :
          /\ remaining' = [remaining EXCEPT ![c] = @ \ {e}]
          /\ \/ Runs(c, e) /\ AddPositions(c, PortfolioOf[e])
             \/ UNCHANGED <<running, positions>>
    BY <1>11 DEF CreateFromDB
  <2>2. e \in Strategies
    OBVIOUS
  <2>3. running' \in [Consumers -> [Strategies -> Nat]]
    BY <2>1, <2>2, RunsEffect
  <2>4. positions' \in [Consumers -> [Portfolios -> Nat]]
    BY <2>1, <2>2, PortfolioAssumption, PositionsType
  <2>5. remaining' \in [Consumers -> SUBSET Strategies]
    BY <2>1
  <2> QED BY <1>11, <2>3, <2>4, <2>5 DEF CreateFromDB, table, scanner
<1>12. ASSUME NEW c \in Consumers, StartTasks(c) \/ StartFails(c) PROVE TypeOK'
  BY <1>12 DEF StartTasks, StartFails, table, scanner
<1>13. ASSUME NEW c \in Consumers, HandleNewStrategy(c) PROVE TypeOK'
  <2>1. Head(queues[c]) \in Entries /\ Tail(queues[c]) \in Seq(Entries)
    BY <1>13 DEF HandleNewStrategy
  <2>2. queues' \in [Consumers -> Seq(Entries)]
    BY <1>13, <2>1 DEF HandleNewStrategy
  <2>3. running' \in [Consumers -> [Strategies -> Nat]]
    BY <1>13, <2>1, RunsEffect DEF HandleNewStrategy, Strategies
  <2>4. stage' \in [Consumers -> {"file", "create", "run", "dead"}]
    BY <1>13 DEF HandleNewStrategy
  <2> QED BY <1>13, <2>2, <2>3, <2>4 DEF HandleNewStrategy, table, scanner
<1>14. CASE UNCHANGED vars
  BY <1>14 DEF vars, table, scanner, consumer
<1> QED
  BY <1>1, <1>2, <1>3, <1>4, <1>5, <1>6, <1>7, <1>8, <1>9, <1>10, <1>11, <1>12,
     <1>13, <1>14
  DEF Next, TradeplanScanner, Consumer

LEMMA TypeInit == Init => TypeOK
BY TicksAssumption DEF Init, TypeOK, Time, Strategies

\* Every reachable state of the table, the scanner and the consumers is well
\* typed, however many scans, entries and consumers there are.
THEOREM PlanTypeCorrect == Spec => []TypeOK
BY TypeInit, TypeStep, PTL DEF Spec

-----------------------------------------------------------------------------
(* The scanner.                                                             *)

LEMMA ScanStep ==
  ASSUME TypeOK, ScanInv, [Next]_vars
  PROVE  ScanInv'
<1> USE NoTimeAssumption
<1>0. Time \subseteq Int /\ now \in Time /\ TypeOK'
  BY TicksAssumption, TypeStep DEF TypeOK, Time
<1>1. CASE Tick
  <2>1. now' = now + 1 /\ now \in Int
    BY <1>0, <1>1 DEF Tick
  <2>2. \A t \in Time : t \in Int /\ (t <= now => t <= now')
    BY <1>0, <2>1
  <2>3. UNCHANGED <<created, phase, last_scan, first_scan, found, dispatched>>
    BY <1>1 DEF Tick, table, scanner
  <2>4. \A e \in Entries : InTable(e) => created[e] <= now'
    BY <2>2 DEF ScanInv, InTable
  <2>5. phase # "off" => last_scan <= now'
    BY <2>2 DEF ScanInv
  <2> QED BY <2>3, <2>4, <2>5 DEF ScanInv, InTable
<1>2. ASSUME NEW e \in Entries, AddEntry(e) PROVE ScanInv'
  <2>1. PICK t \in Time : t <= now /\ created' = [created EXCEPT ![e] = t]
    BY <1>2 DEF AddEntry
  <2>2. ~InTable(e)
    BY <1>0, <1>2 DEF AddEntry, InTable
  <2>3. \A f \in Entries \ {e} : created'[f] = created[f]
    BY <2>1 DEF TypeOK
  <2>4. created'[e] = t
    BY <2>1 DEF TypeOK
  <2>5. UNCHANGED <<now, scanner>>
    BY <1>2 DEF AddEntry
  <2>6. e \notin found /\ dispatched[e] = 0
    BY <2>2 DEF ScanInv, TypeOK
  <2> QED BY <2>1, <2>3, <2>4, <2>5, <2>6 DEF ScanInv, InTable, scanner
<1>3. ASSUME NEW e \in Entries, ExpireEntry(e) PROVE ScanInv'
  BY <1>3 DEF ExpireEntry, ScanInv, InTable, scanner
<1>4. CASE ScannerStarts
  <2>1. found = {} /\ \A e \in Entries : dispatched[e] = 0
    BY <1>4 DEF ScannerStarts, ScanInv, TypeOK
  <2> QED BY <1>0, <1>4, <2>1 DEF ScannerStarts, ScanInv, InTable, table
<1>5. CASE GetNewEntries
  <2>1. CASE found' = NewEntries /\ phase' = "fetched"
    <3>1. ASSUME NEW e \in NewEntries
          PROVE  InTable(e) /\ dispatched[e] = 0 /\ first_scan < created[e]
      <4>1. InTable(e)
        BY DEF NewEntries, Current, InTable, TypeOK
      <4>2. {first_scan, last_scan} \subseteq Int /\ first_scan <= last_scan
        BY <1>0, <1>5 DEF GetNewEntries, ScanInv
      <4>3. created[e] \in Int /\ created[e] > last_scan
        BY <1>0, <4>1 DEF NewEntries, InTable
      <4>4. dispatched[e] = 0
        <5>1. e \in Entries /\ dispatched[e] \in Nat
          BY DEF NewEntries, TypeOK
        <5>2. dispatched[e] > 0 => created[e] <= last_scan
          BY <5>1 DEF ScanInv
        <5> QED BY <4>2, <4>3, <5>1, <5>2
      <4> QED BY <4>1, <4>2, <4>3, <4>4
    <3>2. UNCHANGED <<now, created, last_scan, first_scan, dispatched>>
      BY <1>5 DEF GetNewEntries, table
    <3>3. NewEntries \subseteq Entries
      BY DEF NewEntries
    <3> QED BY <1>5, <2>1, <3>1, <3>2, <3>3 DEF GetNewEntries, ScanInv, InTable
  <2>2. CASE UNCHANGED <<found, phase>>
    BY <1>5, <2>2 DEF GetNewEntries, ScanInv, InTable, table
  <2> QED BY <1>5, <2>1, <2>2 DEF GetNewEntries
<1>6. CASE ScanFails
  BY <1>6 DEF ScanFails, ScanInv, InTable, table
<1>7. CASE EntriesFetched
  <2>1. \A e \in Entries : dispatched[e] > 0 => created[e] <= now
    BY DEF ScanInv
  <2>2. first_scan \in Int /\ first_scan <= now
    <3>1. {first_scan, last_scan} \subseteq Int /\ now \in Int
          /\ first_scan <= last_scan /\ last_scan <= now
      BY <1>0, <1>7 DEF EntriesFetched, ScanInv
    <3> QED BY <3>1
  <2>3. last_scan' = now /\ UNCHANGED <<now, created, first_scan, found, dispatched>>
    BY <1>7 DEF EntriesFetched, table
  <2>4. phase' # "off" /\ phase # "off" /\ (found # {} => phase' = "dispense")
    BY <1>7 DEF EntriesFetched
  <2>5. phase' \in {"off", "sleep"} => found' = {}
    BY <2>3, <2>4
  <2> QED BY <1>0, <2>1, <2>2, <2>3, <2>4, <2>5 DEF ScanInv, InTable
<1>8. ASSUME NEW e \in Entries, NEW c \in Consumers, DispenseStrategy(e, c)
      PROVE  ScanInv'
  <2>1. /\ e \in found /\ found' = found \ {e}
        /\ phase = "dispense" /\ phase' \in {"sleep", "dispense"}
        /\ phase' = "sleep" => found' = {}
        /\ UNCHANGED <<now, created, last_scan, first_scan>>
    BY <1>8 DEF DispenseStrategy, table
  <2>2. dispatched[e] = 0 /\ dispatched'[e] = 1
    BY <1>8, <2>1 DEF DispenseStrategy, ScanInv, TypeOK
  <2>3. \A f \in Entries \ {e} : dispatched'[f] = dispatched[f]
    BY <1>8 DEF DispenseStrategy, TypeOK
  <2> QED BY <2>1, <2>2, <2>3 DEF ScanInv, InTable
<1>9. ASSUME NEW c \in Consumers, Consumer(c) \/ StartFails(c) PROVE ScanInv'
  <2>1. UNCHANGED <<now, table, scanner>>
    BY <1>9 DEF Consumer, CreateFromFile, LoadPlan, CreateFromDB, StartTasks,
                HandleNewStrategy, StartFails
  <2> QED BY <2>1 DEF ScanInv, InTable, table, scanner
<1>10. CASE UNCHANGED vars
  BY <1>10 DEF vars, ScanInv, InTable, table, scanner
<1> QED
  BY <1>1, <1>2, <1>3, <1>4, <1>5, <1>6, <1>7, <1>8, <1>9, <1>10
  DEF Next, TradeplanScanner

LEMMA ScanInit == Init => ScanInv
BY NoTimeAssumption, TicksAssumption DEF Init, ScanInv, InTable, Time

\* The producer sends each entry at most once: what a scan finds is newer than
\* last_scan, and last_scan passes it before it is sent.
THEOREM DispatchedOnceHolds == Spec => []DispatchedOnce
<1>1. Init => TypeOK /\ ScanInv
  BY TypeInit, ScanInit
<1>2. TypeOK /\ ScanInv /\ [Next]_vars => (TypeOK /\ ScanInv)'
  BY TypeStep, ScanStep
<1>3. TypeOK /\ ScanInv => DispatchedOnce
  <2> SUFFICES ASSUME TypeOK, ScanInv, NEW e \in Entries
               PROVE  dispatched[e] <= 1
    BY DEF DispatchedOnce
  <2>1. dispatched[e] \in Nat /\ (dispatched[e] > 0 => dispatched[e] = 1)
    BY DEF TypeOK, ScanInv
  <2> QED BY <2>1
<1> QED BY <1>1, <1>2, <1>3, PTL DEF Spec

-----------------------------------------------------------------------------
(* The queues.                                                              *)

LEMMA WaitsSame ==
  ASSUME UNCHANGED queues, NEW c \in Consumers, NEW e \in Entries
  PROVE  Waits(c, e)' <=> Waits(c, e)
BY DEF Waits

LEMMA QueueSame ==
  ASSUME QueueInv, UNCHANGED <<queues, dispatched>>
  PROVE  QueueInv'
BY WaitsSame DEF QueueInv

\* The last place of a queue is taken by what is put there.
LEMMA WaitsAfterPut ==
  ASSUME TypeOK, NEW e \in Entries, NEW c \in Consumers, DispenseStrategy(e, c),
         NEW d \in Consumers, NEW f \in Entries, NEW i \in 1 .. Len(queues'[d]),
         queues'[d][i] = f
  PROVE  \/ i \in 1 .. Len(queues[d]) /\ queues[d][i] = f
         \/ d = c /\ f = e /\ i = Len(queues[c]) + 1
<1>1. queues[d] \in Seq(Entries) /\ queues[c] \in Seq(Entries)
  BY DEF TypeOK
<1>2. queues' = [queues EXCEPT ![c] = Append(queues[c], e)]
  BY DEF DispenseStrategy
<1>3. CASE d # c
  BY <1>2, <1>3 DEF TypeOK
<1>4. CASE d = c
  <2>1. queues'[c] = Append(queues[c], e)
    BY <1>2 DEF TypeOK
  <2>2. i \in 1 .. Len(queues[c]) + 1
    BY <1>1, <1>4, <2>1
  <2>3. CASE i = Len(queues[c]) + 1
    BY <1>1, <1>4, <2>1, <2>3
  <2>4. CASE i \in 1 .. Len(queues[c])
    BY <1>1, <1>4, <2>1, <2>4
  <2> QED BY <1>1, <2>2, <2>3, <2>4
<1> QED BY <1>3, <1>4

\* Taking the head of a queue moves what follows it by one place.
LEMMA WaitsAfterTake ==
  ASSUME TypeOK, NEW c \in Consumers, HandleNewStrategy(c),
         NEW d \in Consumers, NEW i \in 1 .. Len(queues'[d])
  PROVE  IF d = c
         THEN i + 1 \in 1 .. Len(queues[c]) /\ queues'[d][i] = queues[c][i + 1]
         ELSE i \in 1 .. Len(queues[d]) /\ queues'[d][i] = queues[d][i]
<1>1. queues[c] \in Seq(Entries) /\ queues[c] # << >>
  BY DEF TypeOK, HandleNewStrategy
<1>2. queues' = [queues EXCEPT ![c] = Tail(queues[c])]
  BY DEF HandleNewStrategy
<1>3. CASE d # c
  BY <1>2, <1>3 DEF TypeOK
<1>4. CASE d = c
  <2>1. queues'[c] = Tail(queues[c])
    BY <1>2 DEF TypeOK
  <2>2. Len(queues[c]) \in Nat \ {0} /\ Len(queues'[c]) = Len(queues[c]) - 1
    BY <1>1, <2>1
  <2>3. i + 1 \in 1 .. Len(queues[c])
    BY <1>4, <2>2
  <2> QED BY <1>1, <1>4, <2>1, <2>2, <2>3
<1> QED BY <1>3, <1>4

LEMMA QueueStep ==
  ASSUME TypeOK, ScanInv, QueueInv, [Next]_vars
  PROVE  QueueInv'
<1>1. ASSUME NEW e \in Entries, NEW c \in Consumers, DispenseStrategy(e, c)
      PROVE  QueueInv'
  <2>1. dispatched[e] = 0 /\ \A d \in Consumers : ~Waits(d, e)
    BY <1>1 DEF DispenseStrategy, ScanInv, QueueInv
  <2>2. dispatched'[e] = 1 /\ \A f \in Entries \ {e} : dispatched'[f] = dispatched[f]
    BY <1>1, <2>1 DEF DispenseStrategy, TypeOK
  <2>3. ASSUME NEW f \in Entries, NEW d \in Consumers, Waits(d, f)'
        PROVE  IF f = e THEN d = c ELSE Waits(d, f)
    <3>1. PICK i \in 1 .. Len(queues'[d]) : queues'[d][i] = f
      BY <2>3 DEF Waits
    <3> QED BY <1>1, <2>1, <3>1, WaitsAfterPut DEF Waits
  <2>4. ASSUME NEW f \in Entries, NEW d \in Consumers,
               NEW i \in 1 .. Len(queues'[d]), NEW j \in 1 .. Len(queues'[d]),
               queues'[d][i] = f, queues'[d][j] = f
        PROVE  i = j
    <3>1. CASE f = e
      BY <1>1, <2>1, <2>4, <3>1, WaitsAfterPut DEF Waits
    <3>2. CASE f # e
      <4>1. /\ i \in 1 .. Len(queues[d]) /\ queues[d][i] = f
            /\ j \in 1 .. Len(queues[d]) /\ queues[d][j] = f
        BY <1>1, <2>4, <3>2, WaitsAfterPut
      <4> QED BY <4>1 DEF QueueInv, Waits
    <3> QED BY <3>1, <3>2
  <2>5. ASSUME NEW f \in Entries, NEW d \in Consumers, Waits(d, f)'
        PROVE  dispatched'[f] > 0
    BY <2>2, <2>3, <2>5 DEF QueueInv
  <2>6. ASSUME NEW f \in Entries, NEW d \in Consumers, NEW b \in Consumers,
               Waits(d, f)', Waits(b, f)'
        PROVE  b = d
    BY <2>3, <2>6 DEF QueueInv
  <2> QED BY <2>4, <2>5, <2>6 DEF QueueInv
<1>2. ASSUME NEW c \in Consumers, HandleNewStrategy(c) PROVE QueueInv'
  <2>1. ASSUME NEW f \in Entries, NEW d \in Consumers, Waits(d, f)'
        PROVE  Waits(d, f)
    <3>1. PICK i \in 1 .. Len(queues'[d]) : queues'[d][i] = f
      BY <2>1 DEF Waits
    <3> QED BY <1>2, <3>1, WaitsAfterTake DEF Waits
  <2>2. ASSUME NEW f \in Entries, NEW d \in Consumers,
               NEW i \in 1 .. Len(queues'[d]), NEW j \in 1 .. Len(queues'[d]),
               queues'[d][i] = f, queues'[d][j] = f
        PROVE  i = j
    <3>1. Waits(d, f)
      BY <2>1, <2>2 DEF Waits
    <3>2. \A k, l \in 1 .. Len(queues[d]) :
            queues[d][k] = f /\ queues[d][l] = f => k = l
      BY <3>1 DEF QueueInv
    <3>3. CASE d = c
      <4>1. /\ i + 1 \in 1 .. Len(queues[d]) /\ queues[d][i + 1] = f
            /\ j + 1 \in 1 .. Len(queues[d]) /\ queues[d][j + 1] = f
        BY <1>2, <2>2, <3>3, WaitsAfterTake
      <4>2. i + 1 = j + 1
        BY <3>2, <4>1
      <4> QED BY <4>2
    <3>4. CASE d # c
      <4>1. /\ i \in 1 .. Len(queues[d]) /\ queues[d][i] = f
            /\ j \in 1 .. Len(queues[d]) /\ queues[d][j] = f
        BY <1>2, <2>2, <3>4, WaitsAfterTake
      <4> QED BY <3>2, <4>1
    <3> QED BY <3>3, <3>4
  <2>3. UNCHANGED dispatched
    BY <1>2 DEF HandleNewStrategy, scanner
  <2> QED BY <2>1, <2>2, <2>3 DEF QueueInv
<1>3. ASSUME NEW c \in Consumers,
             \/ CreateFromFile(c) \/ LoadPlan(c) \/ CreateFromDB(c)
             \/ StartTasks(c) \/ StartFails(c)
      PROVE  QueueInv'
  <2>1. UNCHANGED <<queues, dispatched>>
    BY <1>3 DEF CreateFromFile, LoadPlan, CreateFromDB, StartTasks, StartFails,
                scanner
  <2> QED BY <2>1, QueueSame
<1>4. ASSUME NEW e \in Entries, AddEntry(e) \/ ExpireEntry(e) PROVE QueueInv'
  <2>1. UNCHANGED <<queues, dispatched>>
    BY <1>4 DEF AddEntry, ExpireEntry, scanner
  <2> QED BY <2>1, QueueSame
<1>5. CASE \/ Tick \/ ScannerStarts \/ GetNewEntries \/ ScanFails
           \/ EntriesFetched \/ UNCHANGED vars
  <2>1. UNCHANGED <<queues, dispatched>>
    BY <1>5 DEF Tick, ScannerStarts, GetNewEntries, ScanFails, EntriesFetched,
                vars, scanner
  <2> QED BY <2>1, QueueSame
<1> QED
  BY <1>1, <1>2, <1>3, <1>4, <1>5 DEF Next, TradeplanScanner, Consumer

-----------------------------------------------------------------------------
(* Copies.                                                                  *)

\* Once the message of an entry is taken, the entry is not sent again.
LEMMA NotTakenStep ==
  ASSUME TypeOK, ScanInv, QueueInv, [Next]_vars, NEW f \in Entries, NotTaken(f)'
  PROVE  NotTaken(f)
<1>1. ASSUME NEW e \in Entries, NEW c \in Consumers, DispenseStrategy(e, c)
      PROVE  NotTaken(f)
  <2>1. dispatched[e] = 0
    BY <1>1 DEF DispenseStrategy, ScanInv
  <2>2. CASE f = e
    BY <2>1, <2>2 DEF NotTaken
  <2>3. CASE f # e
    <3>1. dispatched'[f] = dispatched[f]
      BY <1>1, <2>3 DEF DispenseStrategy, TypeOK
    <3>2. ASSUME NEW d \in Consumers, Waits(d, f)' PROVE Waits(d, f)
      BY <1>1, <2>3, <3>2, WaitsAfterPut DEF Waits
    <3> QED BY <3>1, <3>2 DEF NotTaken
  <2> QED BY <2>2, <2>3
<1>2. ASSUME NEW c \in Consumers, HandleNewStrategy(c) PROVE NotTaken(f)
  <2>1. ASSUME NEW d \in Consumers, Waits(d, f)' PROVE Waits(d, f)
    <3>1. PICK i \in 1 .. Len(queues'[d]) : queues'[d][i] = f
      BY <2>1 DEF Waits
    <3> QED BY <1>2, <3>1, WaitsAfterTake DEF Waits
  <2> QED BY <1>2, <2>1 DEF NotTaken, HandleNewStrategy, scanner
<1>3. ASSUME UNCHANGED <<queues, dispatched>> PROVE NotTaken(f)
  BY <1>3, WaitsSame DEF NotTaken
<1>4. ASSUME NEW c \in Consumers,
             \/ CreateFromFile(c) \/ LoadPlan(c) \/ CreateFromDB(c)
             \/ StartTasks(c) \/ StartFails(c)
      PROVE  UNCHANGED <<queues, dispatched>>
  BY <1>4 DEF CreateFromFile, LoadPlan, CreateFromDB, StartTasks, StartFails,
              scanner
<1>5. ASSUME NEW e \in Entries, AddEntry(e) \/ ExpireEntry(e)
      PROVE  UNCHANGED <<queues, dispatched>>
  BY <1>5 DEF AddEntry, ExpireEntry, scanner
<1>6. CASE \/ Tick \/ ScannerStarts \/ GetNewEntries \/ ScanFails
           \/ EntriesFetched \/ UNCHANGED vars
  <2>1. UNCHANGED <<queues, dispatched>>
    BY <1>6 DEF Tick, ScannerStarts, GetNewEntries, ScanFails, EntriesFetched,
                vars, scanner
  <2> QED BY <1>3, <2>1
<1> QED
  BY <1>1, <1>2, <1>3, <1>4, <1>5, <1>6 DEF Next, TradeplanScanner, Consumer

\* Where the message of an entry is taken, there is at most one copy before,
\* and it was loaded; and so it is in every other consumer.
LEMMA CopiesStep ==
  ASSUME PlanInv, [Next]_vars
  PROVE  CopiesInv' /\ OneCopyOfNew'
<1> DEFINE Goal(c, e) ==
      /\ CopiesOf(c, e)
      /\ running[c][e] > 1 =>
           Loaded(c, e) /\ first_scan # None /\ first_scan < created[e]
      /\ \A d \in Consumers \ {c} :
           running[c][e] > 0 /\ running[d][e] > 0 => Loaded(c, e) \/ Loaded(d, e)
<1>1. TypeOK /\ TypeOK' /\ ScanInv /\ QueueInv
  BY TypeStep DEF PlanInv
<1>2. \A c \in Consumers, e \in Entries : Goal(c, e)
  BY DEF PlanInv, CopiesInv, OneCopyOfNew
<1>3. SUFFICES ASSUME NEW c \in Consumers, NEW e \in Entries
               PROVE  Goal(c, e)'
  BY DEF CopiesInv, OneCopyOfNew
<1>4. NotTaken(e)' => NotTaken(e)
  BY <1>1, NotTakenStep
<1>5. Entries \subseteq Strategies
  BY DEF Strategies
<1>6. \A d \in Consumers : running[d][e] \in Nat /\ running'[d][e] \in Nat
  BY <1>1, <1>5 DEF TypeOK
\* Steps that leave the entry and the consumers as they are.
<1>7. ASSUME UNCHANGED consumer, created'[e] = created[e],
             first_scan' = first_scan \/ \A d \in Consumers : running[d][e] <= 1
      PROVE  Goal(c, e)'
  <2>1. \A d \in Consumers : Loaded(d, e)' <=> Loaded(d, e)
    BY <1>7 DEF Loaded, consumer
  <2>2. InTable(e)' <=> InTable(e)
    BY <1>7 DEF InTable
  <2>3. UNCHANGED <<running, stage, remaining>>
    BY <1>7 DEF consumer
  <2>4. CopiesOf(c, e)'
    BY <1>2, <1>4, <2>1, <2>2, <2>3 DEF CopiesOf
  <2>5. running'[c][e] > 1 =>
          Loaded(c, e)' /\ first_scan' # None /\ first_scan' < created'[e]
    BY <1>2, <1>6, <1>7, <2>1, <2>3
  <2> QED BY <1>2, <2>1, <2>3, <2>4, <2>5
<1>8. CASE Tick \/ GetNewEntries \/ ScanFails \/ EntriesFetched \/ UNCHANGED vars
  <2>1. UNCHANGED <<consumer, created, first_scan>>
    BY <1>8 DEF Tick, GetNewEntries, ScanFails, EntriesFetched, vars, table,
                scanner
  <2> QED BY <1>7, <2>1
<1>9. ASSUME NEW f \in Entries, NEW d \in Consumers, DispenseStrategy(f, d)
      PROVE  Goal(c, e)'
  <2>1. UNCHANGED <<consumer, created, first_scan>>
    BY <1>9 DEF DispenseStrategy, table
  <2> QED BY <1>7, <2>1
<1>10. CASE ScannerStarts
  <2>1. UNCHANGED <<consumer, created>> /\ dispatched[e] = 0
    BY <1>1, <1>10 DEF ScannerStarts, table, ScanInv, TypeOK
  <2>2. \A d \in Consumers : running[d][e] <= 1
    BY <1>2, <1>6, <2>1 DEF CopiesOf, NotTaken
  <2> QED BY <1>7, <2>1, <2>2
<1>11. ASSUME NEW f \in Entries, AddEntry(f) \/ ExpireEntry(f)
       PROVE  Goal(c, e)'
  <2>1. UNCHANGED <<consumer, first_scan>>
    BY <1>11 DEF AddEntry, ExpireEntry, scanner
  <2>2. CASE created'[e] = created[e]
    BY <1>7, <2>1, <2>2
  <2>3. CASE created'[e] # created[e]
    <3>1. created[e] = None
      BY <1>1, <1>11, <2>3 DEF AddEntry, ExpireEntry, TypeOK
    <3>2. ~InTable(e)
      BY <3>1, NoTimeAssumption, TicksAssumption DEF InTable, Time
    <3>3. \A d \in Consumers : running'[d][e] = 0
      BY <1>2, <1>6, <2>1, <3>2 DEF CopiesOf, consumer
    <3>4. stage'[c] = "create" => e \notin remaining'[c]
                                  /\ remaining'[c] \subseteq Entries
      BY <1>2, <2>1, <3>2 DEF CopiesOf, consumer
    <3>5. stage'[c] = "file" => remaining'[c] \subseteq FileStrategies
      BY <1>2, <2>1 DEF CopiesOf, consumer
    <3> QED BY <3>3, <3>4, <3>5 DEF CopiesOf
  <2> QED BY <2>2, <2>3
<1>12. ASSUME NEW d \in Consumers, CreateFromFile(d) PROVE Goal(c, e)'
  <2>1. PICK s \in remaining[d] :
          /\ remaining' = [remaining EXCEPT ![d] = @ \ {s}]
          /\ Runs(d, s) \/ UNCHANGED running
    BY <1>12 DEF CreateFromFile
  <2>2. s \in Strategies /\ s # e
    BY <1>1, <1>2, <1>12, StrategiesAssumption DEF CreateFromFile, CopiesOf, TypeOK
  <2>3. \A b \in Consumers : running'[b][e] = running[b][e]
    BY <1>1, <1>5, <2>1, <2>2, RunsEffect
  <2>4. UNCHANGED <<stage, loaded_at, created, first_scan>>
    BY <1>12 DEF CreateFromFile, table, scanner
  <2>5. remaining'[c] \subseteq remaining[c]
    BY <1>1, <2>1 DEF TypeOK
  <2>6. InTable(e)' <=> InTable(e)
    BY <2>4 DEF InTable
  <2>7. \A b \in Consumers : Loaded(b, e)' <=> Loaded(b, e)
    BY <2>4 DEF Loaded
  <2>8. CopiesOf(c, e)'
    BY <1>2, <1>4, <2>3, <2>4, <2>5, <2>6, <2>7 DEF CopiesOf
  <2> QED BY <1>2, <2>3, <2>4, <2>7, <2>8
<1>13. ASSUME NEW d \in Consumers, LoadPlan(d) PROVE Goal(c, e)'
  <2>1. UNCHANGED <<running, created, first_scan>> /\ now \in Int
    BY <1>1, <1>13, TicksAssumption DEF LoadPlan, table, scanner, TypeOK, Time
  <2>2. running[d][e] = 0
    BY <1>2, <1>13 DEF LoadPlan, CopiesOf
  <2>3. \A b \in Consumers \ {d} : UNCHANGED <<stage[b], remaining[b], loaded_at[b]>>
    BY <1>1, <1>13 DEF LoadPlan, TypeOK
  <2>4. \A b \in Consumers \ {d} : Loaded(b, e)' <=> Loaded(b, e)
    BY <2>1, <2>3 DEF Loaded
  <2>5. InTable(e)' <=> InTable(e)
    BY <2>1 DEF InTable
  <2>6. CASE c # d
    <3>1. CopiesOf(c, e)'
      BY <1>2, <1>4, <2>1, <2>3, <2>4, <2>5, <2>6 DEF CopiesOf
    <3> QED BY <1>2, <2>1, <2>2, <2>4, <2>6, <3>1
  <2>7. CASE c = d
    <3>1. stage'[c] # "file"
      BY <1>1, <1>13, <2>7 DEF LoadPlan, TypeOK
    <3>2. ASSUME stage'[c] = "create"
          PROVE  /\ remaining'[c] \subseteq Entries
                 /\ e \in remaining'[c] => InTable(e)' /\ Loaded(c, e)'
      <4>1. /\ remaining'[c] = {f \in Entries : Current(f)}
            /\ loaded_at'[c] = now
        BY <1>1, <1>13, <2>7, <3>2 DEF LoadPlan, TypeOK
      <4>2. e \in remaining'[c] => InTable(e)
        BY <1>1, <4>1 DEF Current, InTable, TypeOK
      <4>3. e \in remaining'[c] => created[e] <= now
        BY <1>1, <4>2 DEF ScanInv
      <4> QED BY <2>1, <2>5, <4>1, <4>2, <4>3, NoTimeAssumption DEF Loaded
    <3>3. CopiesOf(c, e)'
      BY <2>1, <2>2, <2>7, <3>1, <3>2 DEF CopiesOf
    <3> QED BY <2>1, <2>2, <2>7, <3>3
  <2> QED BY <2>6, <2>7
<1>14. ASSUME NEW d \in Consumers, CreateFromDB(d) PROVE Goal(c, e)'
  <2>1. PICK f \in remaining[d] :
          /\ remaining' = [remaining EXCEPT ![d] = @ \ {f}]
          /\ Runs(d, f) \/ UNCHANGED running
    BY <1>14 DEF CreateFromDB
  <2>2. UNCHANGED <<stage, loaded_at, created, first_scan>> /\ stage[d] = "create"
    BY <1>14 DEF CreateFromDB, table, scanner
  <2>3. f \in Strategies
    BY <1>1, <2>1 DEF TypeOK
  <2>4. InTable(e)' <=> InTable(e)
    BY <2>2 DEF InTable
  <2>5. \A b \in Consumers : Loaded(b, e)' <=> Loaded(b, e)
    BY <2>2 DEF Loaded
  <2>6. remaining'[c] \subseteq remaining[c]
    BY <1>1, <2>1 DEF TypeOK
  <2>7. \A b \in Consumers :
          \/ running'[b][e] = running[b][e]
          \/ /\ b = d /\ e = f
             /\ running'[b][e] = 1 /\ running[b][e] = 0
             /\ InTable(e) /\ Loaded(b, e)
             /\ e \notin remaining'[b]
    <3>1. e = f => /\ running[d][e] = 0 /\ InTable(e) /\ Loaded(d, e)
                   /\ e \notin remaining'[d]
      BY <1>1, <1>2, <2>1, <2>2 DEF CopiesOf, TypeOK
    <3> QED BY <1>1, <1>5, <2>1, <2>3, <3>1, RunsEffect
  <2>8. CopiesOf(c, e)'
    BY <1>2, <1>4, <2>2, <2>4, <2>5, <2>6, <2>7 DEF CopiesOf
  <2>9. running'[c][e] > 1 => running'[c][e] = running[c][e]
    BY <2>7
  <2> QED BY <1>2, <2>2, <2>5, <2>7, <2>8, <2>9
<1>15. ASSUME NEW d \in Consumers, StartTasks(d) \/ StartFails(d)
       PROVE  Goal(c, e)'
  <2>1. /\ UNCHANGED <<remaining, running, loaded_at, created, first_scan>>
        /\ stage'[c] \in {stage[c], "run", "dead"}
    BY <1>1, <1>15 DEF StartTasks, StartFails, table, scanner, TypeOK
  <2>2. InTable(e)' <=> InTable(e)
    BY <2>1 DEF InTable
  <2>3. \A b \in Consumers : Loaded(b, e)' <=> Loaded(b, e)
    BY <2>1 DEF Loaded
  <2>4. CopiesOf(c, e)'
    BY <1>2, <1>4, <2>1, <2>2, <2>3 DEF CopiesOf
  <2> QED BY <1>2, <2>1, <2>3, <2>4
<1>16. ASSUME NEW d \in Consumers, HandleNewStrategy(d) PROVE Goal(c, e)'
  <2> DEFINE f == Head(queues[d])
  <2>1. /\ UNCHANGED <<remaining, loaded_at, created, first_scan, dispatched>>
        /\ Runs(d, f) \/ UNCHANGED running
        /\ stage'[c] \in {stage[c], "dead"}
        /\ stage[d] = "run"
    BY <1>1, <1>16 DEF HandleNewStrategy, table, scanner, TypeOK
  <2>2. /\ f \in Entries /\ 1 \in 1 .. Len(queues[d])
        /\ queues[d][1] = f /\ Waits(d, f)
    BY <1>1, <1>16 DEF HandleNewStrategy, TypeOK, Waits
  <2>3. InTable(e)' <=> InTable(e)
    BY <2>1 DEF InTable
  <2>4. \A b \in Consumers : Loaded(b, e)' <=> Loaded(b, e)
    BY <2>1 DEF Loaded
  <2>5. CASE e # f
    <3>1. \A b \in Consumers : running'[b][e] = running[b][e]
      BY <1>1, <1>5, <2>1, <2>2, <2>5, RunsEffect
    <3>2. CopiesOf(c, e)'
      BY <1>2, <1>4, <2>1, <2>3, <2>4, <3>1 DEF CopiesOf
    <3> QED BY <1>2, <2>1, <2>4, <3>1, <3>2
  <2>6. CASE e = f
    <3>1. /\ NotTaken(e) /\ dispatched[e] > 0
          /\ InTable(e) /\ first_scan # None /\ first_scan < created[e]
      <4>1. NotTaken(e) /\ dispatched[e] > 0
        BY <1>1, <2>2, <2>6 DEF NotTaken, QueueInv
      <4>2. first_scan \in Time
        BY <1>1, <4>1 DEF ScanInv
      <4> QED BY <1>1, <4>1, <4>2, NoTimeAssumption, TicksAssumption
              DEF ScanInv, Time
    <3>2. ~NotTaken(e)'
      <4>1. ASSUME NEW b \in Consumers, Waits(b, e)' PROVE FALSE
        <5>1. PICK i \in 1 .. Len(queues'[b]) : queues'[b][i] = e
          BY <4>1 DEF Waits
        <5>2. CASE b = d
          <6>1. i + 1 \in 1 .. Len(queues[d]) /\ queues[d][i + 1] = e
            BY <1>1, <1>16, <5>1, <5>2, WaitsAfterTake
          <6>2. i + 1 = 1
            BY <1>1, <2>2, <2>6, <6>1 DEF QueueInv
          <6> QED BY <6>2
        <5>3. CASE b # d
          <6>1. Waits(b, e)
            BY <1>1, <1>16, <5>1, <5>3, WaitsAfterTake DEF Waits
          <6> QED BY <1>1, <2>2, <2>6, <5>3, <6>1 DEF QueueInv
        <5> QED BY <5>2, <5>3
      <4> QED BY <2>1, <3>1, <4>1 DEF NotTaken, ScanInv
    <3>3. \A b \in Consumers :
            /\ running[b][e] > 0 => running[b][e] = 1 /\ Loaded(b, e)
            /\ b # d => running'[b][e] = running[b][e]
            /\ running'[b][e] \in {running[b][e], running[b][e] + 1}
      BY <1>1, <1>2, <1>5, <2>1, <2>2, <2>6, <3>1, RunsEffect DEF CopiesOf
    <3>4. stage'[c] = "create" \/ stage'[c] = "file" => c # d /\ stage'[c] = stage[c]
      BY <2>1
    <3>5. CopiesOf(c, e)'
      BY <1>2, <2>1, <2>3, <3>1, <3>2, <3>3, <3>4, <2>4 DEF CopiesOf
    <3>6. running'[c][e] > 1 => Loaded(c, e)
      BY <1>6, <3>3
    <3>7. \A b \in Consumers \ {c} :
            running'[c][e] > 0 /\ running'[b][e] > 0 => Loaded(c, e) \/ Loaded(b, e)
      BY <1>6, <3>3
    <3> QED BY <2>1, <2>4, <3>1, <3>5, <3>6, <3>7
  <2> QED BY <2>5, <2>6
<1> QED
  BY <1>8, <1>9, <1>10, <1>11, <1>12, <1>13, <1>14, <1>15, <1>16
  DEF Next, TradeplanScanner, Consumer

\* A strategy runs in two copies only if a consumer loaded its entry while the
\* scanner was already watching for new ones: every other entry runs once.
THEOREM OneCopyOfNewHolds == Spec => []OneCopyOfNew
<1>1. Init => PlanInv
  <2>1. Init => TypeOK /\ ScanInv
    BY TypeInit, ScanInit
  <2>2. Init => QueueInv
    BY DEF Init, QueueInv, Waits
  <2>3. Init => CopiesInv /\ OneCopyOfNew
    BY DEF Init, CopiesInv, CopiesOf, OneCopyOfNew, Strategies
  <2> QED BY <2>1, <2>2, <2>3 DEF PlanInv
<1>2. PlanInv /\ [Next]_vars => PlanInv'
  BY TypeStep, ScanStep, QueueStep, CopiesStep DEF PlanInv
<1>3. PlanInv => OneCopyOfNew
  BY DEF PlanInv
<1> QED BY <1>1, <1>2, <1>3, PTL DEF Spec

=============================================================================
