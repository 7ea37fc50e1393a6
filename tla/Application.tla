----------------------------- MODULE Application -----------------------------
(***************************************************************************)
(* The processes of the trader application: main_cli starts the consumers,   *)
(* the producer and the process of the scanners and joins them; the scanners *)
(* put their picks in a queue that the producer reads.                       *)
(*                                                                         *)
(* A multiprocessing.Queue is a buffer in the process that puts, a thread of *)
(* it that feeds a pipe of limited size, and whoever reads the pipe; a       *)
(* process that has put something does not exit before its buffer is empty.  *)
(***************************************************************************)
EXTENDS Integers, Sequences, FiniteSets

CONSTANTS
  Scanners,       \* the scanners a configuration may name
  Recurring,      \* those of them with a recurrence
  Configured,     \* config.num_consumers: 0 for automatic
  CPUs,           \* physical processors, 0 if they cannot be counted
  Loads,          \* what cpu_percent may return
  PipeSize,       \* lists of symbols a pipe holds
  MaxPicks        \* bound: lists of symbols the scanners put

ConstantsAssumption ==
  /\ IsFiniteSet(Scanners) /\ Recurring \subseteq Scanners
  /\ Configured \in Int /\ CPUs \in Nat /\ Loads \subseteq 0..100
  /\ PipeSize \in Nat \ {0} /\ MaxPicks \in Nat

VARIABLES
  n_consumers,  \* num_consumer_processes
  conf,         \* the scanners of the configuration, one set or none
  main,         \* where main_cli is
  state,        \* of each process
  interrupted,  \* whom a KeyboardInterrupt has reached
  scan,         \* of each scanner's task
  buffer,       \* picks put and not yet in the pipe
  pipe,         \* picks the producer can read
  routed        \* picks whose symbols have a consumer

vars ==
  <<n_consumers, conf, main, state, interrupted, scan, buffer, pipe, routed>>
control == <<n_consumers, conf>>
picks == <<buffer, pipe, routed>>

-----------------------------------------------------------------------------
(* calc_num_consumer_processes.                                             *)

ConsumersFor(load) ==
  IF Configured > 0 THEN Configured
  ELSE IF CPUs = 0 THEN 1
  ELSE (5 * (100 - load) * CPUs) \div 100

Most == LET counts == {ConsumersFor(load) : load \in Loads}
        IN CHOOSE n \in counts : \A m \in counts : m <= n
Consumer(i) == <<"consumer", i>>
ProducerProcess == <<"producer", 0>>
ScannersProcess == <<"scanners", 0>>
AllConsumers == {Consumer(i) : i \in 1..Most}
Processes == AllConsumers \cup {ProducerProcess, ScannersProcess}

Started == {i \in 1..Most : state[Consumer(i)] # "none"}
Alive == {p \in Processes : state[p] \notin {"none", "ended"}}

Init ==
  /\ n_consumers \in {ConsumersFor(load) : load \in Loads}
  /\ conf \in {<<s>> : s \in SUBSET Scanners} \cup {<<>>}
  /\ main = "starting"
  /\ state = [p \in Processes |-> "none"]
  /\ interrupted = "no"
  /\ scan = [s \in Scanners |-> "none"]
  /\ buffer = <<>> /\ pipe = <<>> /\ routed = {}

-----------------------------------------------------------------------------
(* main_cli.                                                                *)

Start(p) == state' = [state EXCEPT ![p] = "starting"]

StartConsumer ==
  /\ main = "starting" /\ Cardinality(Started) < n_consumers
  /\ Start(Consumer(Cardinality(Started) + 1))
  /\ UNCHANGED <<control, main, interrupted, scan, picks>>

StartProducer ==
  /\ main = "starting" /\ Cardinality(Started) = n_consumers
  /\ state[ProducerProcess] = "none"
  /\ Start(ProducerProcess)
  /\ UNCHANGED <<control, main, interrupted, scan, picks>>

StartScanners ==
  /\ main = "starting" /\ state[ProducerProcess] # "none"
  /\ IF conf = <<>> THEN UNCHANGED state ELSE Start(ScannersProcess)
  /\ main' = "producer"
  /\ UNCHANGED <<control, interrupted, scan, picks>>

\* The three joins, in the order main_cli has them.
Joins == <<"producer", "scanners", "consumers">>
JoinedBy(phase) ==
  IF phase = "consumers" THEN AllConsumers ELSE {<<phase, 0>>}

Join ==
  \E i \in DOMAIN Joins :
    /\ main = Joins[i]
    /\ JoinedBy(main) \cap Alive = {}
    /\ main' = IF i < Len(Joins) THEN Joins[i + 1] ELSE "exiting"
    /\ UNCHANGED <<control, state, interrupted, scan, picks>>

\* A KeyboardInterrupt: from a terminal it reaches every process that runs.
\* While main_cli joins it is caught; before, it ends the interpreter.
Interrupt(whom) ==
  /\ interrupted = "no" /\ main \notin {"exiting", "exited"}
  /\ interrupted' = whom
  /\ main' = IF main = "starting" THEN "exiting" ELSE "stopping"
  /\ state' = IF whom = "main" THEN state
              ELSE [p \in Processes |->
                      IF p \notin Alive THEN state[p]
                      ELSE IF p = ScannersProcess THEN "closing"
                      ELSE "ended"]
  /\ UNCHANGED <<control, scan, picks>>

\* producer.kill() and the terminate() of the others: nothing is flushed.
Stop_ProducerOnly ==
  /\ main = "stopping"
  /\ state' = [state EXCEPT ![ProducerProcess] = "ended"]
  /\ main' = "exiting"
  /\ UNCHANGED <<control, interrupted, scan, picks>>
Stop ==
  /\ main = "stopping"
  /\ state' = [p \in Processes |-> IF p \in Alive THEN "ended" ELSE state[p]]
  /\ main' = "exiting"
  /\ UNCHANGED <<control, interrupted, scan, picks>>

\* multiprocessing joins the children that are left before the interpreter exits.
Exit ==
  /\ main = "exiting" /\ Alive = {}
  /\ main' = "exited"
  /\ UNCHANGED <<control, state, interrupted, scan, picks>>

-----------------------------------------------------------------------------
(* Consumers and producer.                                                  *)

\* consumer_async_main up to its tasks; whatever raises there ends the process.
ConsumerStarts(i) ==
  /\ state[Consumer(i)] = "starting"
  /\ \E outcome \in {"running", "ended"} :
       state' = [state EXCEPT ![Consumer(i)] = outcome]
  /\ UNCHANGED <<control, main, interrupted, scan, picks>>

\* Its tasks go on for ever, unless a new strategy calls exit(0).
ConsumerExits(i) ==
  /\ state[Consumer(i)] = "running"
  /\ state' = [state EXCEPT ![Consumer(i)] = "ended"]
  /\ UNCHANGED <<control, main, interrupted, scan, picks>>

\* producer_async_main up to its tasks; an exception ends the producer alone.
ProducerStarts ==
  /\ state[ProducerProcess] = "starting"
  /\ \E outcome \in {"running", "ended"} :
       state' = [state EXCEPT ![ProducerProcess] = outcome]
  /\ UNCHANGED <<control, main, interrupted, scan, picks>>

\* scanner_input: without consumers randint(0, -1) raises, and the pick is gone.
ScannerInput ==
  /\ state[ProducerProcess] = "running"
  /\ pipe # <<>>
  /\ pipe' = Tail(pipe)
  /\ routed' = IF n_consumers > 0 THEN routed \cup {Head(pipe)} ELSE routed
  /\ UNCHANGED <<control, main, state, interrupted, scan, buffer>>

-----------------------------------------------------------------------------
(* The process of the scanners.                                             *)

Selected == IF conf = <<>> THEN {} ELSE conf[1]

\* create_scanners: one that cannot be made calls exit(0).  With an empty
\* table of scanners nothing is run.
ScannersStart ==
  /\ state[ScannersProcess] = "starting"
  /\ IF Selected = {}
     THEN /\ state' = [state EXCEPT ![ScannersProcess] = "ended"]
          /\ UNCHANGED scan
     ELSE \E ok \in BOOLEAN :
            /\ state' = [state EXCEPT ![ScannersProcess] =
                           IF ok THEN "running" ELSE "ended"]
            /\ scan' = IF ok THEN [s \in Scanners |->
                                     IF s \in Selected THEN "run" ELSE "none"]
                       ELSE scan
  /\ UNCHANGED <<control, main, interrupted, picks>>

NextPick == Len(buffer) + Len(pipe) + Cardinality(routed) + 1

\* An iteration of scanner_runner, with picks or without.
ScannerRuns(s) ==
  /\ state[ScannersProcess] = "running" /\ scan[s] = "run"
  /\ scan' = [scan EXCEPT ![s] = IF s \in Recurring THEN "sleep" ELSE "done"]
  /\ \/ NextPick <= MaxPicks /\ buffer' = Append(buffer, NextPick)
     \/ UNCHANGED buffer
  /\ UNCHANGED <<control, main, state, interrupted, pipe, routed>>

\* Its exception ends this scanner's task and no other.
ScannerFails(s) ==
  /\ state[ScannersProcess] = "running" /\ scan[s] = "run"
  /\ scan' = [scan EXCEPT ![s] = "done"]
  /\ UNCHANGED <<control, main, state, interrupted, picks>>

ScannerWakes(s) ==
  /\ state[ScannersProcess] = "running" /\ scan[s] = "sleep"
  /\ scan' = [scan EXCEPT ![s] = "run"]
  /\ UNCHANGED <<control, main, state, interrupted, picks>>

\* scanners_runner closes the queue when every task has ended...
ScannersDone_AtOnce ==
  /\ state[ScannersProcess] = "running"
  /\ \A s \in Selected : scan[s] = "done"
  /\ state' = [state EXCEPT ![ScannersProcess] = "ended"]
  /\ UNCHANGED <<control, main, interrupted, scan, picks>>
ScannersDone ==
  /\ state[ScannersProcess] = "running"
  /\ \A s \in Selected : scan[s] = "done"
  /\ state' = [state EXCEPT ![ScannersProcess] = "closing"]
  /\ UNCHANGED <<control, main, interrupted, scan, picks>>

\* ... and the process waits for the thread that feeds the pipe.
ScannersEnd ==
  /\ state[ScannersProcess] = "closing" /\ buffer = <<>>
  /\ state' = [state EXCEPT ![ScannersProcess] = "ended"]
  /\ UNCHANGED <<control, main, interrupted, scan, picks>>

Feed ==
  /\ ScannersProcess \in Alive
  /\ buffer # <<>> /\ Len(pipe) < PipeSize
  /\ buffer' = Tail(buffer) /\ pipe' = Append(pipe, Head(buffer))
  /\ UNCHANGED <<control, main, state, interrupted, scan, routed>>

-----------------------------------------------------------------------------
MainStep == StartConsumer \/ StartProducer \/ StartScanners \/ Join \/ Stop \/ Exit

Next ==
  \/ MainStep
  \/ \E whom \in {"terminal", "main"} : Interrupt(whom)
  \/ \E i \in 1..Most : ConsumerStarts(i) \/ ConsumerExits(i)
  \/ ProducerStarts \/ ScannerInput
  \/ ScannersStart \/ ScannersDone \/ ScannersEnd \/ Feed
  \/ \E s \in Scanners : ScannerRuns(s) \/ ScannerFails(s) \/ ScannerWakes(s)

Spec == Init /\ [][Next]_vars

\* Processes and their threads are scheduled; nobody need interrupt them.
Fairness ==
  /\ WF_vars(MainStep) /\ WF_vars(ProducerStarts) /\ WF_vars(ScannerInput)
  /\ WF_vars(Feed) /\ WF_vars(ScannersEnd)
FairSpec == Spec /\ Fairness

-----------------------------------------------------------------------------
(* Properties.                                                              *)

\* Every variable has its type.
TypeOK ==
  /\ n_consumers \in 0..Most /\ conf \in Seq(SUBSET Scanners)
  /\ main \in {"starting", "producer", "scanners", "consumers", "stopping",
               "exiting", "exited"}
  /\ state \in [Processes -> {"none", "starting", "running", "closing", "ended"}]
  /\ interrupted \in {"no", "terminal", "main"}
  /\ scan \in [Scanners -> {"none", "run", "sleep", "done"}]
  /\ buffer \in Seq(1..MaxPicks) /\ pipe \in Seq(1..MaxPicks)
  /\ routed \subseteq 1..MaxPicks

\* What a scanner picked is routed to a consumer by the producer, also when the
\* process of the scanners has ended in the meantime, as long as nobody
\* interrupts, the producer came up, and there are consumers.
PicksRouted ==
  \A k \in 1..MaxPicks :
    (\E i \in DOMAIN buffer : buffer[i] = k)
      ~> \/ k \in routed
         \/ interrupted # "no" \/ state[ProducerProcess] = "ended" \/ n_consumers = 0

\* An interrupt from the terminal ends the application, whatever each process
\* was doing; so does one that reaches main_cli alone while it joins.
InterruptEnds ==
  interrupted = "terminal" \/ main = "stopping" ~> main = "exited"
=============================================================================
