------------------------------ MODULE TradePlan ------------------------------
(***************************************************************************)
(* How strategies get to run: every consumer starts those of the           *)
(* configuration file and then the entries of the trade_plan table          *)
(* (consumer.py, create_strategies_from_file and _from_db), and every five  *)
(* minutes the producer sends each entry created since its last scan to one *)
(* consumer (producer.py, tradeplan_scanner), which starts it too           *)
(* (handle_new_strategy).                                                   *)
(*                                                                          *)
(* Processes share the table and the queues.  The clocks of processes and   *)
(* of the database agree, and a tick is shorter than the gap between a      *)
(* query and the assignment of last_scan may be.                            *)
(***************************************************************************)
EXTENDS Integers, Sequences, SequencesExt

CONSTANTS
  Entries,         \* rows that someone may add to trade_plan
  FileStrategies,  \* strategies of tradeplan.toml
  Consumers,
  Portfolios,
  PortfolioOf,     \* the portfolio of an entry or of a strategy, or None
  FileOnly,        \* file_only of tradeplan.toml
  LastTick,        \* bound: when the clock stops
  CommitLag,       \* bound: ticks an insertion into trade_plan takes to commit
  MaxFailures,     \* bound: scans that fail to reach the database
  None

Strategies == Entries \cup FileStrategies
Time == 0 .. LastTick

ASSUME StrategiesAssumption == Entries \cap FileStrategies = {}
ASSUME PortfolioAssumption ==
  /\ None \notin Portfolios
  /\ PortfolioOf \in [Strategies -> Portfolios \cup {None}]
  /\ \A e \in Entries : PortfolioOf[e] # None
ASSUME FileOnlyAssumption == FileOnly \in BOOLEAN
ASSUME TicksAssumption == {LastTick, CommitLag, MaxFailures} \subseteq Nat
ASSUME NoTimeAssumption == None \notin Int

VARIABLES
  now,
  \* The table.
  created,     \* create_tstamp of an entry, None while it is not in the table
  starts,      \* start_date of an entry
  expired,     \* the entries with an expire_tstamp
  unreadable,  \* the entries whose parameters are not JSON (NULL)
  \* tradeplan_scanner.
  phase,       \* where the scanner is suspended
  last_scan,
  found,       \* new_tradeplan_entries, those still to be sent
  failures,
  first_scan,  \* history: the first value of last_scan
  dispatched,  \* history: how often an entry was sent
  \* Each consumer.
  queues,      \* new_strategy messages
  stage,       \* how far consumer_async_main is
  remaining,   \* what its current loop has still to create
  loaded_at,   \* history: when it queried the table
  running,     \* copies of a strategy in trading_data.strategies
  positions    \* how often trading_data.positions holds a portfolio's holdings

table    == <<created, starts, expired, unreadable>>
scanner  == <<phase, last_scan, found, failures, first_scan, dispatched>>
consumer == <<stage, remaining, loaded_at, running, positions>>
vars     == <<now, table, scanner, queues, consumer>>

TypeOK ==
  /\ now \in Time
  /\ created \in [Entries -> Time \cup {None}]
  /\ starts \in [Entries -> Time]
  /\ expired \subseteq Entries
  /\ unreadable \subseteq Entries
  /\ phase \in {"off", "sleep", "fetched", "dispense"}
  /\ last_scan \in Time \cup {None}
  /\ found \subseteq Entries
  /\ failures \in 0 .. MaxFailures
  /\ first_scan \in Time \cup {None}
  /\ dispatched \in [Entries -> Nat]
  /\ queues \in [Consumers -> Seq(Entries)]
  /\ stage \in [Consumers -> {"file", "create", "run", "dead"}]
  /\ remaining \in [Consumers -> SUBSET Strategies]
  /\ loaded_at \in [Consumers -> Time \cup {None}]
  /\ running \in [Consumers -> [Strategies -> Nat]]
  /\ positions \in [Consumers -> [Portfolios -> Nat]]

Init ==
  /\ now = 0
  /\ created = [e \in Entries |-> None]
  /\ starts = [e \in Entries |-> 0]
  /\ expired = {}
  /\ unreadable = {}
  /\ phase = "off"
  /\ last_scan = None
  /\ found = {}
  /\ failures = 0
  /\ first_scan = None
  /\ dispatched = [e \in Entries |-> 0]
  /\ queues = [c \in Consumers |-> << >>]
  /\ stage = [c \in Consumers |-> "file"]
  /\ remaining = [c \in Consumers |-> FileStrategies]
  /\ loaded_at = [c \in Consumers |-> None]
  /\ running = [c \in Consumers |-> [s \in Strategies |-> 0]]
  /\ positions = [c \in Consumers |-> [p \in Portfolios |-> 0]]

-----------------------------------------------------------------------------
(* The clock and the users of the table.                                    *)

Tick ==
  /\ now < LastTick
  /\ now' = now + 1
  /\ UNCHANGED <<table, scanner, queues, consumer>>

\* An insertion commits; create_tstamp is when its transaction began, and
\* start_date is past (0 stands for any day that is) or yet to come.
AddEntry(e) ==
  /\ created[e] = None
  /\ \E t \in Time : /\ t <= now
                     /\ now <= t + CommitLag
                     /\ created' = [created EXCEPT ![e] = t]
  /\ \E t \in {0} \cup now + 1 .. LastTick : starts' = [starts EXCEPT ![e] = t]
  /\ unreadable' \in {unreadable, unreadable \cup {e}}
  /\ UNCHANGED <<now, expired, scanner, queues, consumer>>

ExpireEntry(e) ==
  /\ created[e] # None
  /\ e \notin expired
  /\ expired' = expired \cup {e}
  /\ UNCHANGED <<now, created, starts, unreadable, scanner, queues, consumer>>

\* The conditions the two queries share.
Current(e) ==
  /\ created[e] # None
  /\ e \notin expired
  /\ starts[e] <= now

-----------------------------------------------------------------------------
(* The producer: tradeplan_scanner.                                         *)

\* Mutant: the first scan looks a little further back.
ScannerStarts_LooksBack ==
  /\ phase = "off"
  /\ phase' = "sleep"
  /\ last_scan' = now - 1
  /\ first_scan' = now
  /\ UNCHANGED <<now, table, found, failures, dispatched, queues, consumer>>

\* Mutant: the first scan looks for every entry there is.
ScannerStarts_FromEpoch ==
  /\ phase = "off"
  /\ phase' = "sleep"
  /\ last_scan' = 0
  /\ first_scan' = now
  /\ UNCHANGED <<now, table, found, failures, dispatched, queues, consumer>>

ScannerStarts ==
  /\ phase = "off"
  /\ phase' = "sleep"
  /\ last_scan' = now
  /\ first_scan' = now
  /\ UNCHANGED <<now, table, found, failures, dispatched, queues, consumer>>

NewEntries == {e \in Entries : Current(e) /\ created[e] > last_scan}

\* The database answers get_new_entries.  An entry it cannot parse fails the
\* whole scan, which leaves everything as it is until the next.
GetNewEntries ==
  /\ phase = "sleep"
  /\ IF NewEntries \cap unreadable = {}
     THEN found' = NewEntries /\ phase' = "fetched"
     ELSE UNCHANGED <<found, phase>>
  /\ UNCHANGED <<now, table, last_scan, failures, first_scan, dispatched,
                 queues, consumer>>

\* Mutant: last_scan moves although the query failed.
ScanFails_Moves ==
  /\ phase = "sleep"
  /\ failures < MaxFailures
  /\ failures' = failures + 1
  /\ last_scan' = now
  /\ UNCHANGED <<now, table, phase, found, first_scan, dispatched, queues,
                 consumer>>

ScanFails ==
  /\ phase = "sleep"
  /\ failures < MaxFailures
  /\ failures' = failures + 1
  /\ UNCHANGED <<now, table, phase, last_scan, found, first_scan, dispatched,
                 queues, consumer>>

\* Mutant: last_scan never moves.
EntriesFetched_NoScanTime ==
  /\ phase = "fetched"
  /\ phase' = IF found = {} THEN "sleep" ELSE "dispense"
  /\ UNCHANGED <<now, table, last_scan, found, failures, first_scan,
                 dispatched, queues, consumer>>

\* The answer arrived, perhaps some time after the database gave it.
EntriesFetched ==
  /\ phase = "fetched"
  /\ last_scan' = now
  /\ phase' = IF found = {} THEN "sleep" ELSE "dispense"
  /\ UNCHANGED <<now, table, found, failures, first_scan, dispatched, queues,
                 consumer>>

\* dispense_strategies: the next entry goes to a consumer picked at random,
\* one that is gone included.
DispenseStrategy(e, happy_consumer) ==
  /\ phase = "dispense"
  /\ e \in found
  /\ queues' = [queues EXCEPT ![happy_consumer] = Append(@, e)]
  /\ dispatched' = [dispatched EXCEPT ![e] = @ + 1]
  /\ found' = found \ {e}
  /\ phase' = IF found = {e} THEN "sleep" ELSE "dispense"
  /\ UNCHANGED <<now, table, last_scan, failures, first_scan, consumer>>

TradeplanScanner ==
  \/ ScannerStarts
  \/ GetNewEntries
  \/ ScanFails
  \/ EntriesFetched
  \/ \E e \in Entries, c \in Consumers : DispenseStrategy(e, c)

-----------------------------------------------------------------------------
(* A consumer.                                                              *)

\* load_symbol_position, added to what the consumer already holds.
AddPositions(c, p) ==
  positions' = IF p = None THEN positions
               ELSE [positions EXCEPT ![c][p] = @ + 1]

Runs(c, s) == running' = [running EXCEPT ![c][s] = @ + 1]

\* get_strategy found and created the strategy (runs), or its create()
\* returned False; positions of the file's portfolio are added in both cases.
CreateFromFile(c) ==
  /\ stage[c] = "file"
  /\ \E s \in remaining[c] :
       /\ remaining' = [remaining EXCEPT ![c] = @ \ {s}]
       /\ Runs(c, s) \/ UNCHANGED running
       /\ AddPositions(c, PortfolioOf[s])
  /\ UNCHANGED <<now, table, scanner, queues, stage, loaded_at>>

\* TradePlan.load, unless the configuration says file_only.
LoadPlan(c) ==
  /\ stage[c] = "file"
  /\ remaining[c] = {}
  /\ IF FileOnly
     THEN /\ stage' = [stage EXCEPT ![c] = "run"]
          /\ UNCHANGED <<remaining, loaded_at>>
     ELSE LET rows == {e \in Entries : Current(e)} IN
          /\ loaded_at' = [loaded_at EXCEPT ![c] = now]
          /\ IF rows \cap unreadable = {}
             THEN /\ remaining' = [remaining EXCEPT ![c] = rows]
                  /\ stage' = [stage EXCEPT ![c] = "create"]
             ELSE /\ stage' = [stage EXCEPT ![c] = "dead"]
                  /\ UNCHANGED remaining
  /\ UNCHANGED <<now, table, scanner, queues, running, positions>>

CreateFromDB(c) ==
  /\ stage[c] = "create"
  /\ \E e \in remaining[c] :
       /\ remaining' = [remaining EXCEPT ![c] = @ \ {e}]
       /\ \/ Runs(c, e) /\ AddPositions(c, PortfolioOf[e])
          \/ UNCHANGED <<running, positions>>
  /\ UNCHANGED <<now, table, scanner, queues, stage, loaded_at>>

\* A missing file, any other exception of get_strategy (it calls exit) or of
\* a query ends the process while it starts.
StartFails(c) ==
  /\ stage[c] \in {"file", "create"}
  /\ remaining[c] # {} \/ (stage[c] = "file" /\ ~FileOnly)
  /\ stage' = [stage EXCEPT ![c] = "dead"]
  /\ UNCHANGED <<now, table, scanner, queues, remaining, loaded_at, running,
                 positions>>

\* The tasks of consumer_async_main start.
StartTasks(c) ==
  /\ stage[c] = "create"
  /\ remaining[c] = {}
  /\ stage' = [stage EXCEPT ![c] = "run"]
  /\ UNCHANGED <<now, table, scanner, queues, remaining, loaded_at, running,
                 positions>>

\* handle_new_strategy: the strategy runs, or create() returned False or its
\* file is missing, or get_strategy failed otherwise and ends the process.
HandleNewStrategy(c) ==
  /\ stage[c] = "run"
  /\ queues[c] # << >>
  /\ queues' = [queues EXCEPT ![c] = Tail(@)]
  /\ \/ Runs(c, Head(queues[c])) /\ UNCHANGED stage
     \/ UNCHANGED <<running, stage>>
     \/ stage' = [stage EXCEPT ![c] = "dead"] /\ UNCHANGED running
  /\ UNCHANGED <<now, table, scanner, remaining, loaded_at, positions>>

Consumer(c) ==
  \/ CreateFromFile(c)
  \/ LoadPlan(c)
  \/ CreateFromDB(c)
  \/ StartTasks(c)
  \/ HandleNewStrategy(c)

Next ==
  \/ Tick
  \/ \E e \in Entries : AddEntry(e) \/ ExpireEntry(e)
  \/ TradeplanScanner
  \/ \E c \in Consumers : Consumer(c) \/ StartFails(c)

\* The loops of tradeplan_scanner and queue_consumer go on, whatever fails.
Fairness ==
  /\ WF_vars(TradeplanScanner)
  /\ \A c \in Consumers : WF_vars(Consumer(c))

Spec == Init /\ [][Next]_vars
FairSpec == Spec /\ Fairness

-----------------------------------------------------------------------------
(* Properties.                                                              *)

\* The producer sends an entry at most once, however its queries, the moment
\* it sets last_scan, and insertions that commit late interleave.
DispatchedOnce == \A e \in Entries : dispatched[e] <= 1

Loaded(c, e) == loaded_at[c] # None /\ created[e] <= loaded_at[c]

\* A copy too many is only ever made by a load at start-up that meets the
\* scan: a consumer runs an entry twice only if the entry was created between
\* the producer's first last_scan and the consumer's own load, and two
\* consumers run an entry only if one of them found it when it loaded.
OneCopyOfNew ==
  \A e \in Entries, c \in Consumers :
    /\ running[c][e] > 1 =>
         Loaded(c, e) /\ first_scan # None /\ first_scan < created[e]
    /\ \A d \in Consumers \ {c} :
         running[c][e] > 0 /\ running[d][e] > 0 => Loaded(c, e) \/ Loaded(d, e)

\* An entry of the table that the next scan should find.
Pending(e) ==
  phase = "sleep" /\ Current(e) /\ created[e] > last_scan

\* The entry was sent, and no consumer that is alive has it waiting.
Settled(e) ==
  /\ dispatched[e] > 0
  /\ \A c \in Consumers :
       stage[c] # "dead" => e \notin ToSet(queues[c])

\* An entry that awaits the next scan reaches a consumer and is handled there
\* (or is queued for one that is gone), unless it expires or an unreadable one
\* stops the scanner, even though scans fail.
NewEntryHandled ==
  \A e \in Entries :
    Pending(e) ~> \/ Settled(e)
                  \/ e \in expired
                  \/ \E b \in unreadable : Pending(b)
=============================================================================
