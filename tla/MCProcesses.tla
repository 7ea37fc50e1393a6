---------------------------- MODULE MCProcesses ----------------------------
(***************************************************************************)
(* Processes and threads that must end: the listeners of a broker's order    *)
(* updates, and the processes of the trader application.  Neither is         *)
(* concerned with the state of the other, so that a state is one of either.  *)
(***************************************************************************)
EXTENDS BrokerListener

VARIABLES
  part,      \* "listener" or "application"
  n_consumers, conf, main, state, interrupted, scan, buffer, pipe, routed

\* One processor under three loads: none, one or two consumers.
App == INSTANCE Application WITH
  Scanners <- {"momentum", "custom"}, Recurring <- {"momentum"},
  Configured <- 0, CPUs <- 1, Loads <- {60, 70, 90}, PipeSize <- 1, MaxPicks <- 2

ASSUME AppAssumption == App!ConstantsAssumption

application ==
  <<n_consumers, conf, main, state, interrupted, scan, buffer, pipe, routed>>

\* An application that has exited.
AtRest ==
  /\ n_consumers = 0 /\ conf = <<>> /\ main = "exited"
  /\ state = [p \in App!Processes |-> "none"] /\ interrupted = "no"
  /\ scan = [s \in {"momentum", "custom"} |-> "none"]
  /\ buffer = <<>> /\ pipe = <<>> /\ routed = {}

MCInit ==
  /\ Init
  /\ \/ part = "listener" /\ AtRest
     \/ part = "application" /\ App!Init

MCNext ==
  \/ part = "listener" /\ Next /\ UNCHANGED <<part, application>>
  \/ part = "application" /\ App!Next /\ UNCHANGED <<part, vars>>

\* At rest neither has a step its fairness is about.
MCSpec ==
  MCInit /\ [][MCNext]_<<part, vars, application>> /\ Fairness /\ App!Fairness


\* What a scanner picked is routed, if nobody interrupts and there is whom to.
PicksRouted == App!PicksRouted

\* An interrupt ends the application.
InterruptEnds == App!InterruptEnds
=============================================================================
