------------------------------- MODULE Accounts -------------------------------
(***************************************************************************)
(* Cash accounts and the portfolios that own them (models/accounts.py,      *)
(* models/portfolio.py) in the database (database/schema.sql): a trigger    *)
(* adds every transaction to the balance.  Strategies check the balance and *)
(* then withdraw; portfolios are created with an account of their own.      *)
(*                                                                          *)
(* Tasks share the connection pool of their process.  A call takes a        *)
(* connection and gives it back when it returns; some take a second one     *)
(* meanwhile.                                                               *)
(***************************************************************************)
EXTENDS Integers, FiniteSets

CONSTANTS
  Tasks,
  Portfolios,
  MaxAccounts,   \* bound: accounts ever created
  Amounts,       \* of deposits and withdrawals
  Size,          \* portfolio_size of Portfolio.save
  Credit,        \* its credit_line
  Connections,   \* max_size of the pool
  MaxCalls,      \* bound: deposits, withdrawals and clearings begun
  None

Ids == 1 .. MaxAccounts

ASSUME AmountsAssumption == /\ Amounts \subseteq Nat /\ Size \in Nat /\ Credit \in Nat
                            /\ MaxAccounts \in Nat /\ MaxCalls \in Nat
ASSUME NoneAssumption == None \notin Nat \cup Portfolios
\* create_db_connection's ten connections are more than a process has tasks.
ASSUME PoolAssumption == IsFiniteSet(Tasks) /\ Connections \in Nat /\ Cardinality(Tasks) < Connections

VARIABLES
  \* The tables.
  created,    \* accounts created so far
  balance,    \* accounts.balance
  rows,       \* the sum of an account's account_transactions
  account_of, \* portfolio.account_id, None while there is no such row
  locked,     \* the task whose open transaction updated an account's row
  \* The tasks.
  pc, job,    \* where a task is and the arguments of its call
  calls,
  \* History.
  opening,    \* the balance an account was created or last cleared with
  clearing,   \* accounts cleared whose transactions are not
  version,    \* balance changes that a check may have missed
  raced,      \* accounts a stale check withdrew from
  mixed,      \* accounts with a transaction while they were being cleared
  failed      \* accounts whose portfolio was not saved

tables  == <<created, balance, rows, account_of, locked>>
tasks   == <<pc, job, calls>>
history == <<opening, clearing, version, raced, mixed, failed>>
vars    == <<tables, tasks, history>>

Transaction(a, amount, seen) ==
  [account |-> a, amount |-> amount, version |-> seen, portfolio |-> None]
NoJob == Transaction(None, 0, 0)
Jobs == [account : Ids \cup {None}, amount : Int, version : Nat,
         portfolio : Portfolios \cup {None}]

TypeOK ==
  /\ created \in 0 .. MaxAccounts
  /\ balance \in [Ids -> Int]
  /\ rows \in [Ids -> Int]
  /\ account_of \in [Portfolios -> Ids \cup {None}]
  /\ locked \in [Ids -> Tasks \cup {None}]
  /\ pc \in [Tasks -> {"idle", "checked", "adding", "inserted", "failed", "saving", "created"}]
  /\ job \in [Tasks -> Jobs]
  /\ calls \in 0 .. MaxCalls
  /\ opening \in [Ids -> Int]
  /\ clearing \subseteq Ids
  /\ version \in [Ids -> Nat]
  /\ raced \subseteq Ids
  /\ mixed \subseteq Ids
  /\ failed \subseteq Ids

Init ==
  /\ created = 0
  /\ balance = [a \in Ids |-> 0]
  /\ rows = [a \in Ids |-> 0]
  /\ account_of = [p \in Portfolios |-> None]
  /\ locked = [a \in Ids |-> None]
  /\ pc = [t \in Tasks |-> "idle"]
  /\ job = [t \in Tasks |-> NoJob]
  /\ calls = 0
  /\ opening = [a \in Ids |-> 0]
  /\ clearing = {}
  /\ version = [a \in Ids |-> 0]
  /\ raced = {}
  /\ mixed = {}
  /\ failed = {}

-----------------------------------------------------------------------------
(* The pool.                                                                *)

\* Every call in progress holds one connection.
Free == Connections - Cardinality({t \in Tasks : pc[t] \notin {"idle", "checked"}})
CanAcquire_Two == Free > 1
CanAcquire == Free > 0

Goto(t, place) == pc' = [pc EXCEPT ![t] = place]
Done(t) == Goto(t, "idle") /\ job' = [job EXCEPT ![t] = NoJob]
Call == calls < MaxCalls /\ calls' = calls + 1

-----------------------------------------------------------------------------
(* Deposits and withdrawals.                                                *)

Floor == 0 - Credit

\* check_if_enough_balance_to_withdraw: one query.  Only what it approves
\* goes on to a withdrawal.
Enough_AnyCredit(a, amount) == balance[a] > amount \/ Credit > 0
Enough(a, amount) ==
  \/ balance[a] > amount
  \/ Credit > 0 /\ balance[a] + Credit > amount

Check(t, a, amount) ==
  /\ pc[t] = "idle"
  /\ a <= created
  /\ CanAcquire
  /\ Call
  /\ Enough(a, amount)
  /\ Goto(t, "checked")
  /\ job' = [job EXCEPT ![t] = Transaction(a, 0 - amount, version[a])]
  /\ UNCHANGED <<tables, history>>

\* add_transaction begins: of a checked withdrawal, or of a deposit.
BeginWithdrawal(t) ==
  /\ pc[t] = "checked"
  /\ CanAcquire
  /\ Goto(t, "adding")
  /\ UNCHANGED <<tables, job, calls, history>>

BeginDeposit(t, a, amount) ==
  /\ pc[t] = "idle"
  /\ a <= created
  /\ CanAcquire
  /\ Call
  /\ Goto(t, "adding")
  /\ job' = [job EXCEPT ![t] = Transaction(a, amount, 0)]
  /\ UNCHANGED <<tables, history>>

\* The INSERT runs the trigger, whose UPDATE locks the account's row.
Insert(t) ==
  /\ pc[t] = "adding"
  /\ locked[job[t].account] = None
  /\ locked' = [locked EXCEPT ![job[t].account] = t]
  /\ Goto(t, "inserted")
  /\ UNCHANGED <<created, balance, rows, account_of, job, calls, history>>

\* update_balance()
NewBalance_Replaced(a, amount) == amount
NewBalance(a, amount) == balance[a] + amount

Commit(t) ==
  LET a == job[t].account
      withdrawal == job[t].amount < 0
  IN  /\ pc[t] = "inserted"
      /\ balance' = [balance EXCEPT ![a] = NewBalance(a, job[t].amount)]
      /\ rows' = [rows EXCEPT ![a] = @ + job[t].amount]
      /\ locked' = [locked EXCEPT ![a] = None]
      /\ version' = [version EXCEPT ![a] = @ + IF withdrawal THEN 1 ELSE 0]
      /\ raced' = IF withdrawal /\ version[a] # job[t].version THEN raced \cup {a} ELSE raced
      /\ mixed' = IF a \in clearing THEN mixed \cup {a} ELSE mixed
      /\ Done(t)
      /\ UNCHANGED <<created, account_of, calls, opening, clearing, failed>>

\* The INSERT fails: the handler asks for the balance with a connection of its
\* own while it holds the first, and raises.
InsertFails(t) ==
  /\ pc[t] = "adding"
  /\ Goto(t, "failed")
  /\ UNCHANGED <<tables, job, calls, history>>

ReportBalance(t) ==
  /\ pc[t] = "failed"
  /\ CanAcquire
  /\ Done(t)
  /\ UNCHANGED <<tables, calls, history>>

-----------------------------------------------------------------------------
(* Clearing an account, in two statements of two transactions each waiting  *)
(* for a lock on the rows they change.                                      *)

ClearBalance(a, amount) ==
  /\ a <= created
  /\ locked[a] = None
  /\ Call
  /\ balance' = [balance EXCEPT ![a] = amount]
  /\ opening' = [opening EXCEPT ![a] = amount]
  /\ clearing' = clearing \cup {a}
  /\ mixed' = mixed \ {a}
  /\ version' = [version EXCEPT ![a] = @ + 1]
  /\ UNCHANGED <<created, rows, account_of, locked, pc, job, raced, failed>>

\* The trigger is on INSERT and UPDATE: the balance stays.
ClearTransactions(a) ==
  /\ a \in clearing
  /\ rows' = [rows EXCEPT ![a] = 0]
  /\ clearing' = clearing \ {a}
  /\ UNCHANGED <<created, balance, account_of, locked, tasks, opening, version, raced, mixed, failed>>

-----------------------------------------------------------------------------
(* Portfolio.save: within a transaction it creates the account with another *)
(* connection, hence in a transaction of its own.                           *)

BeginSave(t, p) ==
  /\ pc[t] = "idle"
  /\ created + Cardinality({u \in Tasks : pc[u] = "saving"}) < MaxAccounts
  /\ CanAcquire
  /\ Goto(t, "saving")
  /\ job' = [job EXCEPT ![t] = [NoJob EXCEPT !.portfolio = p]]
  /\ UNCHANGED <<tables, calls, history>>

CreateAccount(t) ==
  /\ pc[t] = "saving"
  /\ CanAcquire
  /\ created' = created + 1
  /\ balance' = [balance EXCEPT ![created'] = Size]
  /\ opening' = [opening EXCEPT ![created'] = Size]
  /\ Goto(t, "created")
  /\ job' = [job EXCEPT ![t].account = created']
  /\ UNCHANGED <<rows, account_of, locked, calls, clearing, version, raced, mixed, failed>>

InsertPortfolio_Newest(t) ==
  /\ pc[t] = "created"
  /\ account_of[job[t].portfolio] = None
  /\ account_of' = [account_of EXCEPT ![job[t].portfolio] = created]
  /\ Done(t)
  /\ UNCHANGED <<created, balance, rows, locked, calls, opening, clearing, version, raced, mixed, failed>>
\* portfolio_id is a primary key: a second row raises and leaves the account.
InsertPortfolio(t) ==
  /\ pc[t] = "created"
  /\ \/ /\ account_of[job[t].portfolio] = None
        /\ account_of' = [account_of EXCEPT ![job[t].portfolio] = job[t].account]
        /\ UNCHANGED failed
     \/ /\ account_of[job[t].portfolio] # None
        /\ failed' = failed \cup {job[t].account}
        /\ UNCHANGED account_of
  /\ Done(t)
  /\ UNCHANGED <<created, balance, rows, locked, calls, opening, clearing, version, raced, mixed>>

-----------------------------------------------------------------------------

TaskStep(t) ==
  \/ BeginWithdrawal(t) \/ Insert(t) \/ Commit(t) \/ InsertFails(t) \/ ReportBalance(t)
  \/ CreateAccount(t) \/ InsertPortfolio(t)

Next ==
  \/ \E t \in Tasks : \/ TaskStep(t)
                      \/ \E a \in Ids, amount \in Amounts :
                           Check(t, a, amount) \/ BeginDeposit(t, a, amount)
                      \/ \E p \in Portfolios : BeginSave(t, p)
  \/ \E a \in Ids : \/ \E amount \in {0, Size} : ClearBalance(a, amount)
                    \/ ClearTransactions(a)

Spec == Init /\ [][Next]_vars

\* Statements end, the pool and the locks of the database serve waiters in
\* turn.
FairSpec == Spec /\ \A t \in Tasks : WF_vars(TaskStep(t)) /\ SF_vars(Insert(t))

-----------------------------------------------------------------------------

\* The balance is what the account began with and its transactions, however
\* tasks interleave, while the account is not half cleared and no transaction
\* came between the two statements that clear it.
BalanceAgrees ==
  \A a \in Ids \ (clearing \cup mixed) : balance[a] = opening[a] + rows[a]

\* A check and the withdrawal it approved are two calls: the balance goes below
\* what the credit allows only if another withdrawal came between them.
OverdrawnOnlyByRace ==
  \A a \in Ids \ raced : balance[a] >= Floor

\* A portfolio has an account of its own, and an account has a portfolio unless
\* its saving is under way or failed: save() creates the two in transactions
\* that do not depend on each other.
OneAccountEach ==
  /\ \A p, q \in Portfolios : account_of[p] = account_of[q] /\ account_of[p] # None => p = q
  /\ \A a \in 1 .. created :
       Cardinality({p \in Portfolios : account_of[p] = a}
                   \cup {t \in Tasks : pc[t] = "created" /\ job[t].account = a}
                   \cup ({a} \cap failed)) = 1

\* Every call gives its connection back, also those that need a second one
\* while they hold the first: the pool has more connections than tasks.
CallsReturn == \A t \in Tasks : pc[t] # "idle" ~> pc[t] = "idle"

=============================================================================
