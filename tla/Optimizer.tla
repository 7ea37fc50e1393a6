------------------------------ MODULE Optimizer ------------------------------
(***************************************************************************)
(* The optimizer: a backtest for every combination of the hyper-parameters   *)
(* (common/hyperparameter.py), each in a process of its own, in waves        *)
(* (scripts/optimizer.py, backtesting/optimizer.py).                         *)
(*                                                                         *)
(* The values of a parameter are whole numbers: those of a float parameter   *)
(* are counted in units of its precision.                                   *)
(***************************************************************************)
EXTENDS Integers, Sequences, FiniteSets

CONSTANTS
  NumParams,    \* hyper-parameters, in the order of the configuration
  Bounds,       \* values of min and max
  Deltas,       \* steps of float parameters; an int parameter steps by 1
  Concurrency,  \* --concurrency
  MaxPool,      \* bound: values taken from one parameter
  None

Params == 1 .. NumParams

ConstantsAssumption ==
  /\ NumParams \in Nat \ {0} /\ MaxPool \in Nat \ {0}
  /\ Bounds \subseteq Int /\ Deltas \subseteq Nat \ {0}
  /\ Concurrency \in Int
  /\ None \notin Int

VARIABLES
  param,      \* the configuration of each parameter
  value,      \* Parameter.value
  pools,      \* what itertools.product took from each parameter so far
  phase,      \* "pools", "start", "join", "done" or "failed"
  started,    \* the backtests started, each by its hyper-parameters
  waiting,    \* processes: those not joined yet
  running,    \* the processes that have not ended
  sessions    \* rows of optimizer_run: by backtest

vars == <<param, value, pools, phase, started, waiting, running, sessions>>

Configurations ==
  {c \in [min : Bounds, max : Bounds, delta : Deltas] : c.min <= c.max}

TypeOK ==
  /\ param \in [Params -> Configurations]
  /\ value \in [Params -> Int \cup {None}]
  /\ \A p \in Params : Len(pools[p]) <= MaxPool
  /\ phase \in {"pools", "start", "join", "done", "failed"}
  /\ waiting \cup running \cup sessions \subseteq DOMAIN started

Init ==
  /\ param \in [Params -> Configurations]
  /\ value = [p \in Params |-> None]
  /\ pools = [p \in Params |-> << >>]
  /\ phase = "pools"
  /\ started = << >> /\ waiting = {} /\ running = {} /\ sessions = {}

(***************************************************************************)
(* Parameter: a minimum or maximum of 0 is taken for an absent one, and a     *)
(* value of 0 for the beginning.                                            *)
(***************************************************************************)
Truthy(v) == v # None /\ v # 0

Stops_Late(p) ==
  param[p].max # 0 /\ Truthy(value[p]) /\ value[p] > param[p].max
Stops(p) ==
  param[p].max # 0 /\ Truthy(value[p]) /\ value[p] >= param[p].max

Following(p) == IF Truthy(value[p]) THEN value[p] + param[p].delta ELSE param[p].min

\* itertools.product empties the parameters one after the other.
Current == {p \in Params : \A q \in Params : q < p => Stops(q)}
Drawing(p) ==
  phase = "pools" /\ p \in Current /\ ~Stops(p)

\* __next__; initial_value is missing when min is 0: AttributeError.
NextValue_Again(p) ==
  /\ Drawing(p) /\ Len(pools[p]) < MaxPool
  /\ pools' = [pools EXCEPT ![p] = Append(@, Following(p))]
  /\ UNCHANGED <<param, value, phase, started, waiting, running, sessions>>
NextValue(p) ==
  /\ Drawing(p) /\ Len(pools[p]) < MaxPool
  /\ IF ~Truthy(value[p]) /\ param[p].min = 0
       THEN phase' = "failed" /\ UNCHANGED <<value, pools>>
       ELSE /\ value' = [value EXCEPT ![p] = Following(p)]
            /\ pools' = [pools EXCEPT ![p] = Append(@, value'[p])]
            /\ UNCHANGED phase
  /\ UNCHANGED <<param, started, waiting, running, sessions>>

PoolsFull ==
  /\ phase = "pools" /\ \A p \in Params : Stops(p)
  /\ phase' = "start"
  /\ UNCHANGED <<param, value, pools, started, waiting, running, sessions>>

(***************************************************************************)
(* optimize(): the i-th combination in the order of itertools.product, the    *)
(* last parameter fastest.                                                  *)
(***************************************************************************)
Size[p \in Params \cup {NumParams + 1}] ==
  IF p = NumParams + 1 THEN 1 ELSE Len(pools[p]) * Size[p + 1]
Combinations == Size[1]
Combination(i) ==
  [p \in Params |-> pools[p][(((i - 1) \div Size[p + 1]) % Len(pools[p])) + 1]]

Wave == Cardinality(waiting) = Concurrency

\* A process with its own copy of the configuration.
StartBacktest ==
  LET i == Len(started) + 1 IN
  /\ phase = "start" /\ ~Wave
  /\ i <= Combinations
  /\ started' = Append(started, Combination(i))
  /\ waiting' = waiting \cup {i}
  /\ running' = running \cup {i}
  /\ UNCHANGED <<param, value, pools, phase, sessions>>

JoinWave ==
  /\ phase = "start" /\ Wave
  /\ phase' = "join"
  /\ UNCHANGED <<param, value, pools, started, waiting, running, sessions>>

WaveJoined ==
  /\ phase = "join" /\ waiting \cap running = {}
  /\ waiting' = {}
  /\ phase' = "start"
  /\ UNCHANGED <<param, value, pools, started, running, sessions>>

\* The last wave is not joined here; the interpreter waits for it at its exit.
NoMore ==
  /\ phase = "start" /\ ~Wave
  /\ Len(started) >= Combinations
  /\ phase' = "done"
  /\ UNCHANGED <<param, value, pools, started, waiting, running, sessions>>

\* backtest_iteration: the session is saved after a backtest that succeeded.
BacktestEnds(i) ==
  /\ i \in running
  /\ running' = running \ {i}
  /\ \E ok \in BOOLEAN :
       sessions' = IF ok THEN sessions \cup {i} ELSE sessions
  /\ UNCHANGED <<param, value, pools, phase, started, waiting>>

Next ==
  \/ \E p \in Params : NextValue(p)
  \/ PoolsFull \/ StartBacktest \/ JoinWave \/ WaveJoined \/ NoMore
  \/ \E i \in running : BacktestEnds(i)

Spec == Init /\ [][Next]_vars

\* Backtests end, and the optimizer goes on with its loop.
FairSpec == Spec /\ WF_vars(Next)

(***************************************************************************)
(* Properties.                                                              *)
(***************************************************************************)
Grid(p) ==
  LET steps == (param[p].max - param[p].min + param[p].delta - 1)
                 \div param[p].delta
  IN {param[p].min + k * param[p].delta : k \in 0 .. steps}

\* Zero is neither an end of the range nor a value in it.
Usable(p) ==
  param[p].min # 0 /\ param[p].max # 0 /\ 0 \notin Grid(p)

\* The combinations of the parameters' values.
GridPoints ==
  {f \in [Params -> UNION {Grid(p) : p \in Params}] : \A p \in Params : f[p] \in Grid(p)}

\* With parameters whose range keeps clear of zero, every combination of their
\* values has been started exactly once when the loop ends.  (The last value
\* is the first one that is not below the maximum.)
GridCovered ==
  phase = "done" /\ (\A p \in Params : Usable(p)) =>
    /\ {started[i] : i \in DOMAIN started} = GridPoints
    /\ Len(started) = Cardinality(GridPoints)

\* With such parameters the optimizer comes to an end, with every backtest
\* ended and none left out.
GridReplayed ==
  (\A p \in Params : Usable(p)) ~> (phase = "done" /\ running = {} /\ GridCovered)
=============================================================================
