--------------------------- MODULE Accounts_proofs ---------------------------
(***************************************************************************)
(* What Accounts keeps for any number of tasks, accounts and calls: its      *)
(* types, the balance of an account, the only way it is overdrawn, and whose *)
(* it is; and what a brokerage account keeps for any number of orders and    *)
(* of requests that are pushed back.                                         *)
(***************************************************************************)
EXTENDS MCAccounts, FiniteSetTheorems, TLAPS

USE AmountsAssumption, NoneAssumption

Saving == {t \in Tasks : pc[t] = "saving"}

\* There is room for the account of every portfolio that is being saved.
Room == created + Cardinality(Saving) <= MaxAccounts

\* What is done with an account is done with one that was created.
Named ==
  \A t \in Tasks : pc[t] \notin {"idle", "saving"} => job[t].account \in 1 .. created

TypeInv == TypeOK /\ Room /\ Named

\* Only finitely many tasks save a portfolio.
LEMMA SavingIsFinite == IsFiniteSet(Saving) /\ Cardinality(Saving) \in Nat
<1>1. IsFiniteSet(Saving)
  BY PoolAssumption, FS_Subset DEF Saving
<1> QED  BY <1>1, FS_CardinalityType

\* The tables begin empty and the tasks idle.
LEMMA TypeInit == Init => TypeInv
<1> SUFFICES ASSUME Init PROVE TypeInv
  OBVIOUS
<1>1. TypeOK
  BY DEF Init, TypeOK, Ids, Jobs, NoJob, Transaction
<1>2. Saving = {}
  BY DEF Init, Saving
<1>3. Room
  BY <1>2, FS_EmptySet DEF Init, Room
<1>4. Named
  BY DEF Init, Named
<1> QED  BY <1>1, <1>3, <1>4 DEF TypeInv

\* The actions of one task that neither begin nor end the saving of a portfolio.
LEMMA SavingUnchanged ==
  ASSUME TypeOK, NEW t \in Tasks, NEW place,
         pc[t] # "saving", place # "saving", Goto(t, place)
  PROVE  Saving' = Saving
BY DEF TypeOK, Saving, Goto

\* A portfolio begins to be saved only while there is room for its account.
LEMMA RoomStep == ASSUME TypeInv, [Next]_vars PROVE Room'
<1> USE DEF TypeInv
<1>1. CASE Saving' = Saving /\ created' = created
  BY <1>1 DEF Room
<1>2. ASSUME NEW t \in Tasks, NEW p \in Portfolios, BeginSave(t, p) PROVE Room'
  <2>1. Saving' = Saving \cup {t} /\ t \notin Saving
    BY <1>2 DEF BeginSave, Goto, Saving, TypeOK
  <2>2. Cardinality(Saving') = Cardinality(Saving) + 1
    BY <2>1, SavingIsFinite, FS_AddElement
  <2>3. created + Cardinality(Saving) < MaxAccounts /\ created' = created
    BY <1>2 DEF BeginSave, tables, Saving
  <2> QED  BY <2>2, <2>3, SavingIsFinite DEF Room, TypeOK
<1>3. ASSUME NEW t \in Tasks, CreateAccount(t) PROVE Room'
  <2>1. Saving' = Saving \ {t} /\ t \in Saving
    BY <1>3 DEF CreateAccount, Goto, Saving, TypeOK
  <2>2. Cardinality(Saving') = Cardinality(Saving) - 1
    BY <2>1, SavingIsFinite, FS_RemoveElement
  <2> QED  BY <1>3, <2>2, SavingIsFinite DEF Room, TypeOK, CreateAccount
<1>4. ASSUME NEW t \in Tasks, BeginWithdrawal(t) \/ Insert(t) \/ Commit(t)
                \/ InsertFails(t) \/ ReportBalance(t) \/ InsertPortfolio(t)
      PROVE  Saving' = Saving /\ created' = created
  <2>1. PICK place \in {"idle", "adding", "inserted", "failed"} : Goto(t, place)
    BY <1>4 DEF BeginWithdrawal, Insert, Commit, InsertFails, ReportBalance,
                InsertPortfolio, Done
  <2>2. pc[t] # "saving" /\ created' = created
    BY <1>4 DEF BeginWithdrawal, Insert, Commit, InsertFails, ReportBalance,
                InsertPortfolio, tables
  <2> QED  BY <2>1, <2>2, SavingUnchanged
<1>5. ASSUME NEW t \in Tasks, NEW a \in Ids, NEW amount \in Amounts,
             Check(t, a, amount) \/ BeginDeposit(t, a, amount)
      PROVE  Saving' = Saving /\ created' = created
  <2>1. PICK place \in {"checked", "adding"} : Goto(t, place)
    BY <1>5 DEF Check, BeginDeposit
  <2>2. pc[t] # "saving" /\ created' = created
    BY <1>5 DEF Check, BeginDeposit, tables
  <2> QED  BY <2>1, <2>2, SavingUnchanged
<1>6. ASSUME NEW a \in Ids, ClearTransactions(a) \/ \E amount \in {0, Size} : ClearBalance(a, amount)
      PROVE  Saving' = Saving /\ created' = created
  BY <1>6 DEF ClearBalance, ClearTransactions, tasks, Saving
<1>7. CASE UNCHANGED vars
  BY <1>7 DEF vars, tasks, tables, Saving, Room
<1> QED  BY <1>1, <1>2, <1>3, <1>4, <1>5, <1>6, <1>7 DEF Next, TaskStep

\* An account that is created gets a number of its own within the bound.
LEMMA NextNumber == ASSUME TypeInv, NEW t \in Tasks, CreateAccount(t)
                    PROVE  created + 1 \in Ids
<1>1. t \in Saving
  BY DEF CreateAccount, Saving
<1>2. Cardinality(Saving) >= 1
  BY <1>1, SavingIsFinite, FS_EmptySet, Cardinality(Saving) # 0
<1> QED  BY <1>2, SavingIsFinite DEF TypeInv, Room, Ids, TypeOK

Places == {"idle", "checked", "adding", "inserted", "failed", "saving", "created"}

\* A step moves one task.
LEMMA GotoMoves ==
  ASSUME TypeOK, NEW t \in Tasks, NEW place \in Places, Goto(t, place)
  PROVE  /\ pc' \in [Tasks -> Places] /\ pc'[t] = place
         /\ \A u \in Tasks : u # t => pc'[u] = pc[u]
BY DEF TypeOK, Places, Goto

\* What a task does with its arguments: nothing, or it takes others.
LEMMA JobMoves ==
  ASSUME TypeOK, NEW t \in Tasks, NEW new \in Jobs,
         job' = [job EXCEPT ![t] = new]
  PROVE  /\ job' \in [Tasks -> Jobs] /\ job'[t] = new
         /\ \A u \in Tasks : u # t => job'[u] = job[u]
BY DEF TypeOK

\* The arguments a call begins with.
LEMMA NoJobType == NoJob \in Jobs /\ NoJob.amount = 0 /\ NoJob.version = 0
BY DEF NoJob, Transaction, Jobs

\* A call's arguments are of their type.
LEMMA JobType ==
  ASSUME NEW a \in Ids \cup {None}, NEW n \in Int, NEW v \in Nat,
         NEW p \in Portfolios \cup {None}
  PROVE  [account |-> a, amount |-> n, version |-> v, portfolio |-> p] \in Jobs
BY DEF Jobs

\* A task that moves and keeps its arguments, or ends its call.
LEMMA MoveNamed ==
  ASSUME TypeInv, NEW t \in Tasks, NEW place \in Places, Goto(t, place),
         job' = job \/ (place = "idle" /\ job' = [job EXCEPT ![t] = NoJob]),
         place # "idle" => pc[t] \notin {"idle", "saving"},
         created' = created
  PROVE  /\ pc' \in [Tasks -> Places] /\ job' \in [Tasks -> Jobs] /\ Named'
<1>1. /\ pc' \in [Tasks -> Places] /\ pc'[t] = place
      /\ \A u \in Tasks : u # t => pc'[u] = pc[u]
  BY GotoMoves DEF TypeInv
<1>2. job' \in [Tasks -> Jobs] /\ \A u \in Tasks : u # t => job'[u] = job[u]
  <2>1. CASE job' = job
    BY <2>1 DEF TypeInv, TypeOK
  <2>2. CASE job' = [job EXCEPT ![t] = NoJob]
    BY <2>2, NoJobType, JobMoves DEF TypeInv
  <2> QED  BY <2>1, <2>2
<1>3. place # "idle" => job'[t] = job[t]
  OBVIOUS
<1>4. ASSUME NEW u \in Tasks, pc'[u] \notin {"idle", "saving"}
      PROVE  job'[u].account \in 1 .. created'
  <2>1. CASE u = t
    BY <1>1, <1>3, <1>4, <2>1 DEF TypeInv, Named
  <2>2. CASE u # t
    BY <1>1, <1>2, <1>4, <2>2 DEF TypeInv, Named
  <2> QED  BY <2>1, <2>2
<1> QED  BY <1>1, <1>2, <1>4 DEF Named

\* An account that is named is one of the bound.
LEMMA NamedIsId ==
  ASSUME TypeInv, NEW t \in Tasks, pc[t] \notin {"idle", "saving"}
  PROVE  job[t].account \in Ids /\ job[t].account \in 1 .. created
<1>1. job[t].account \in 1 .. created
  BY DEF TypeInv, Named
<1> QED  BY <1>1 DEF TypeInv, TypeOK, Ids

\* Every step keeps the types, and names only accounts that were created.
LEMMA TypeStep == ASSUME TypeInv, [Next]_vars PROVE TypeOK' /\ Named'
<1> USE DEF TypeInv, tables, tasks, history
<1>1. ASSUME NEW t \in Tasks, NEW a \in Ids, NEW amount \in Amounts, Check(t, a, amount)
      PROVE  TypeOK' /\ Named'
  <2>1. PICK new : new = Transaction(a, 0 - amount, version[a])
    OBVIOUS
  <2>2. 0 - amount \in Int /\ version[a] \in Nat
    BY DEF TypeOK
  <2>3. new \in Jobs /\ new.account = a
    BY <2>1, <2>2, JobType DEF Transaction
  <2>4. job' \in [Tasks -> Jobs] /\ job'[t] = new
        /\ \A u \in Tasks : u # t => job'[u] = job[u]
    <3>1. job' = [job EXCEPT ![t] = new]
      BY <1>1, <2>1 DEF Check
    <3> QED  BY <2>3, <3>1, JobMoves
  <2>5. pc' \in [Tasks -> Places] /\ pc[t] = "idle"
        /\ \A u \in Tasks : u # t => pc'[u] = pc[u]
    BY <1>1, GotoMoves DEF Check, Places
  <2>6. TypeOK'
    BY <1>1, <2>4, <2>5 DEF Check, Call, TypeOK, Places
  <2>7. created' = created /\ a \in 1 .. created
    BY <1>1 DEF Check, Ids, TypeOK
  <2>8. ASSUME NEW u \in Tasks, pc'[u] \notin {"idle", "saving"}
        PROVE  job'[u].account \in 1 .. created'
    <3>1. CASE u = t
      BY <2>3, <2>4, <2>7, <3>1
    <3>2. CASE u # t
      BY <2>4, <2>5, <2>7, <2>8, <3>2 DEF Named
    <3> QED  BY <3>1, <3>2
  <2> QED  BY <2>6, <2>8 DEF Named
<1>2. ASSUME NEW t \in Tasks, NEW a \in Ids, NEW amount \in Amounts, BeginDeposit(t, a, amount)
      PROVE  TypeOK' /\ Named'
  <2>1. PICK new : new = Transaction(a, amount, 0)
    OBVIOUS
  <2>2. amount \in Int
    BY DEF TypeOK
  <2>3. new \in Jobs /\ new.account = a
    BY <2>1, <2>2, JobType DEF Transaction
  <2>4. job' \in [Tasks -> Jobs] /\ job'[t] = new
        /\ \A u \in Tasks : u # t => job'[u] = job[u]
    <3>1. job' = [job EXCEPT ![t] = new]
      BY <1>2, <2>1 DEF BeginDeposit
    <3> QED  BY <2>3, <3>1, JobMoves
  <2>5. pc' \in [Tasks -> Places] /\ pc[t] = "idle"
        /\ \A u \in Tasks : u # t => pc'[u] = pc[u]
    BY <1>2, GotoMoves DEF BeginDeposit, Places
  <2>6. TypeOK'
    BY <1>2, <2>4, <2>5 DEF BeginDeposit, Call, TypeOK, Places
  <2>7. created' = created /\ a \in 1 .. created
    BY <1>2 DEF BeginDeposit, Ids, TypeOK
  <2>8. ASSUME NEW u \in Tasks, pc'[u] \notin {"idle", "saving"}
        PROVE  job'[u].account \in 1 .. created'
    <3>1. CASE u = t
      BY <2>3, <2>4, <2>7, <3>1
    <3>2. CASE u # t
      BY <2>4, <2>5, <2>7, <2>8, <3>2 DEF Named
    <3> QED  BY <3>1, <3>2
  <2> QED  BY <2>6, <2>8 DEF Named
<1>3. ASSUME NEW t \in Tasks, BeginWithdrawal(t) PROVE TypeOK' /\ Named'
  <2>1. pc' \in [Tasks -> Places] /\ Named'
    <3>1. Goto(t, "adding") /\ "adding" \in Places /\ created' = created
      BY <1>3 DEF BeginWithdrawal, Places
    <3>2. job' = job \/ ("adding" = "idle" /\ job' = [job EXCEPT ![t] = NoJob])
      BY <1>3 DEF BeginWithdrawal, Places
    <3>3. "adding" # "idle" => pc[t] \notin {"idle", "saving"}
      BY <1>3 DEF BeginWithdrawal
    <3> QED  BY <3>1, <3>2, <3>3, MoveNamed
  <2> QED  BY <1>3, <2>1 DEF BeginWithdrawal, TypeOK, Places
<1>4. ASSUME NEW t \in Tasks, Insert(t) PROVE TypeOK' /\ Named'
  <2>1. pc' \in [Tasks -> Places] /\ Named'
    <3>1. Goto(t, "inserted") /\ "inserted" \in Places /\ created' = created
      BY <1>4 DEF Insert, Places
    <3>2. job' = job \/ ("inserted" = "idle" /\ job' = [job EXCEPT ![t] = NoJob])
      BY <1>4 DEF Insert, Places
    <3>3. "inserted" # "idle" => pc[t] \notin {"idle", "saving"}
      BY <1>4 DEF Insert
    <3> QED  BY <3>1, <3>2, <3>3, MoveNamed
  <2> QED  BY <1>4, <2>1 DEF Insert, TypeOK, Places
<1>5. ASSUME NEW t \in Tasks, Commit(t) PROVE TypeOK' /\ Named'
  <2>1. pc' \in [Tasks -> Places] /\ job' \in [Tasks -> Jobs] /\ Named'
    <3>1. Goto(t, "idle") /\ "idle" \in Places /\ created' = created
      BY <1>5 DEF Commit, Done, Places
    <3>2. job' = job \/ ("idle" = "idle" /\ job' = [job EXCEPT ![t] = NoJob])
      BY <1>5 DEF Commit, Done, Places
    <3>3. "idle" # "idle" => pc[t] \notin {"idle", "saving"}
      BY <1>5 DEF Commit
    <3> QED  BY <3>1, <3>2, <3>3, MoveNamed
  <2>2. job[t].account \in Ids /\ job[t].amount \in Int
    <3>1. job[t].account \in Ids
      BY <1>5, NamedIsId DEF Commit
    <3>2. job[t] \in Jobs
      BY DEF TypeOK
    <3> QED  BY <3>1, <3>2 DEF Jobs
  <2>3. balance' \in [Ids -> Int] /\ rows' \in [Ids -> Int] /\ version' \in [Ids -> Nat]
    BY <1>5, <2>2 DEF Commit, NewBalance, TypeOK
  <2> QED  BY <1>5, <2>1, <2>2, <2>3 DEF Commit, TypeOK, Places
<1>6. ASSUME NEW t \in Tasks, InsertFails(t) PROVE TypeOK' /\ Named'
  <2>1. pc' \in [Tasks -> Places] /\ Named'
    <3>1. Goto(t, "failed") /\ "failed" \in Places /\ created' = created
      BY <1>6 DEF InsertFails, Places
    <3>2. job' = job \/ ("failed" = "idle" /\ job' = [job EXCEPT ![t] = NoJob])
      BY <1>6 DEF InsertFails, Places
    <3>3. "failed" # "idle" => pc[t] \notin {"idle", "saving"}
      BY <1>6 DEF InsertFails
    <3> QED  BY <3>1, <3>2, <3>3, MoveNamed
  <2> QED  BY <1>6, <2>1 DEF InsertFails, TypeOK, Places
<1>7. ASSUME NEW t \in Tasks, ReportBalance(t) PROVE TypeOK' /\ Named'
  <2>1. pc' \in [Tasks -> Places] /\ job' \in [Tasks -> Jobs] /\ Named'
    <3>1. Goto(t, "idle") /\ "idle" \in Places /\ created' = created
      BY <1>7 DEF ReportBalance, Done, Places
    <3>2. job' = job \/ ("idle" = "idle" /\ job' = [job EXCEPT ![t] = NoJob])
      BY <1>7 DEF ReportBalance, Done, Places
    <3>3. "idle" # "idle" => pc[t] \notin {"idle", "saving"}
      BY <1>7 DEF ReportBalance
    <3> QED  BY <3>1, <3>2, <3>3, MoveNamed
  <2> QED  BY <1>7, <2>1 DEF ReportBalance, TypeOK, Places
<1>8. ASSUME NEW t \in Tasks, NEW p \in Portfolios, BeginSave(t, p) PROVE TypeOK' /\ Named'
  <2>1. job' \in [Tasks -> Jobs] /\ \A u \in Tasks : u # t => job'[u] = job[u]
    <3>1. PICK new : new = [account |-> None, amount |-> 0, version |-> 0, portfolio |-> p]
      OBVIOUS
    <3>2. new \in Jobs
      BY <3>1, JobType
    <3>0. new = [NoJob EXCEPT !.portfolio = p]
      BY <3>1 DEF NoJob, Transaction
    <3>3. job' = [job EXCEPT ![t] = new]
      BY <1>8, <3>0 DEF BeginSave
    <3> QED  BY <3>2, <3>3, JobMoves
  <2>2. pc' \in [Tasks -> Places] /\ pc'[t] = "saving"
        /\ \A u \in Tasks : u # t => pc'[u] = pc[u]
    BY <1>8, GotoMoves DEF BeginSave, Places
  <2> QED  BY <1>8, <2>1, <2>2 DEF BeginSave, Named, TypeOK, Places
<1>9. ASSUME NEW t \in Tasks, CreateAccount(t) PROVE TypeOK' /\ Named'
  <2>1. created' = created + 1 /\ created' \in Ids
    BY <1>9, NextNumber DEF CreateAccount
  <2> DEFINE new == [job[t] EXCEPT !.account = created']
  <2>2. new \in Jobs /\ new.account = created'
    BY <2>1 DEF TypeOK, Jobs
  <2>3. job' = [job EXCEPT ![t] = new]
    BY <1>9 DEF CreateAccount
  <2>4. job' \in [Tasks -> Jobs] /\ job'[t] = new
        /\ \A u \in Tasks : u # t => job'[u] = job[u]
    BY <2>2, <2>3, JobMoves
  <2>5. pc' \in [Tasks -> Places] /\ \A u \in Tasks : u # t => pc'[u] = pc[u]
    BY <1>9, GotoMoves DEF CreateAccount, Places
  <2>6. TypeOK'
    <3>1. created' \in 0 .. MaxAccounts
      BY <2>1 DEF Ids
    <3>2. balance' \in [Ids -> Int] /\ opening' \in [Ids -> Int]
      BY <1>9, <2>1 DEF CreateAccount, TypeOK
    <3>3. UNCHANGED <<rows, account_of, locked, calls, clearing, version, raced, mixed, failed>>
      BY <1>9 DEF CreateAccount
    <3> QED  BY <2>4, <2>5, <3>1, <3>2, <3>3 DEF TypeOK, Places
  <2>7. \A u \in Tasks : u # t /\ pc'[u] \notin {"idle", "saving"} =>
          job'[u].account \in 1 .. created'
    BY <2>1, <2>4, <2>5 DEF Named, TypeOK
  <2>8. job'[t].account \in 1 .. created'
    BY <2>1, <2>2, <2>4 DEF Ids
  <2> QED  BY <2>6, <2>7, <2>8 DEF Named
<1>10. ASSUME NEW t \in Tasks, InsertPortfolio(t) PROVE TypeOK' /\ Named'
  <2>1. pc' \in [Tasks -> Places] /\ job' \in [Tasks -> Jobs] /\ Named'
    <3>1. Goto(t, "idle") /\ "idle" \in Places /\ created' = created
      BY <1>10 DEF InsertPortfolio, Done, Places
    <3>2. job' = job \/ ("idle" = "idle" /\ job' = [job EXCEPT ![t] = NoJob])
      BY <1>10 DEF InsertPortfolio, Done, Places
    <3>3. "idle" # "idle" => pc[t] \notin {"idle", "saving"}
      BY <1>10 DEF InsertPortfolio
    <3> QED  BY <3>1, <3>2, <3>3, MoveNamed
  <2>2. job[t].account \in Ids
    BY <1>10, NamedIsId DEF InsertPortfolio
  <2> QED  BY <1>10, <2>1, <2>2 DEF InsertPortfolio, TypeOK, Places
<1>11. ASSUME NEW a \in Ids, NEW amount \in {0, Size}, ClearBalance(a, amount)
       PROVE  TypeOK' /\ Named'
  <2>1. TypeOK'
    BY <1>11 DEF ClearBalance, Call, TypeOK
  <2> QED  BY <1>11, <2>1 DEF ClearBalance, Named
<1>12. ASSUME NEW a \in Ids, ClearTransactions(a) PROVE TypeOK' /\ Named'
  <2>1. TypeOK'
    BY <1>12 DEF ClearTransactions, TypeOK
  <2> QED  BY <1>12, <2>1 DEF ClearTransactions, Named
<1>13. CASE UNCHANGED vars
  BY <1>13 DEF vars, Named, TypeOK
<1> QED  BY <1>1, <1>2, <1>3, <1>4, <1>5, <1>6, <1>7, <1>8, <1>9, <1>10, <1>11, <1>12,
            <1>13 DEF Next, TaskStep

\* Every reachable state is well typed: no account is created beyond the bound,
\* and nothing is done with one that does not exist.
THEOREM AccountsTypeCorrect == Spec => []TypeOK
<1>1. TypeInv /\ [Next]_vars => TypeInv'
  BY TypeStep, RoomStep DEF TypeInv
<1>2. TypeInv => TypeOK
  BY DEF TypeInv
<1> QED  BY TypeInit, <1>1, <1>2, PTL DEF Spec

-----------------------------------------------------------------------------
(* The balance.                                                             *)

\* No transaction is of an account that was not created.
Fresh == \A a \in Ids : a > created => rows[a] = 0

\* Between the two statements that clear it, an account has the balance of the
\* first one unless a transaction came.
Cleared == \A a \in clearing \ mixed : balance[a] = opening[a]

BalanceInv == TypeInv /\ Fresh /\ Cleared /\ BalanceAgrees

\* What a transaction changes, account by account.
LEMMA CommitMoves ==
  ASSUME TypeInv, NEW t \in Tasks, Commit(t)
  PROVE  LET a == job[t].account
         IN /\ a \in Ids /\ a <= created /\ job[t].amount \in Int
            /\ balance'[a] = balance[a] + job[t].amount
            /\ rows'[a] = rows[a] + job[t].amount
            /\ \A b \in Ids : b # a => balance'[b] = balance[b] /\ rows'[b] = rows[b]
<1> DEFINE a == job[t].account
<1>1. a \in Ids /\ a \in 1 .. created
  BY NamedIsId DEF Commit
<1>2. job[t] \in Jobs
  BY DEF TypeInv, TypeOK
<1>3. job[t].amount \in Int
  BY <1>2 DEF Jobs
<1>4. /\ balance' = [balance EXCEPT ![a] = balance[a] + job[t].amount]
      /\ rows' = [rows EXCEPT ![a] = @ + job[t].amount]
  BY DEF Commit, NewBalance
<1>5. a <= created
  BY <1>1 DEF TypeInv, TypeOK
<1> QED  BY <1>1, <1>3, <1>4, <1>5 DEF TypeInv, TypeOK

\* What keeps the balances and the rows, and clears no account.
LEMMA BalanceUnchanged ==
  ASSUME BalanceInv,
         UNCHANGED <<created, balance, rows, opening, clearing, mixed>>
  PROVE  (Fresh /\ Cleared /\ BalanceAgrees)'
BY DEF BalanceInv, Fresh, Cleared, BalanceAgrees

\* Every step keeps balances, transactions and clearings together.
LEMMA BalanceStep == ASSUME BalanceInv, [Next]_vars PROVE (Fresh /\ Cleared /\ BalanceAgrees)'
<1> USE DEF BalanceInv, tables, tasks, history
<1>1. ASSUME NEW t \in Tasks, Commit(t) PROVE (Fresh /\ Cleared /\ BalanceAgrees)'
  <2> DEFINE a == job[t].account
  <2>1. /\ a \in Ids /\ a <= created /\ job[t].amount \in Int
        /\ balance'[a] = balance[a] + job[t].amount
        /\ rows'[a] = rows[a] + job[t].amount
        /\ \A b \in Ids : b # a => balance'[b] = balance[b] /\ rows'[b] = rows[b]
    BY <1>1, CommitMoves
  <2>2. /\ UNCHANGED <<created, opening, clearing>>
        /\ mixed' = IF a \in clearing THEN mixed \cup {a} ELSE mixed
    BY <1>1 DEF Commit
  <2> HIDE DEF a
  <2>3. Fresh'
    <3>1. ASSUME NEW b \in Ids, b > created PROVE b # a /\ rows[b] = 0
      BY <2>1, <3>1 DEF Fresh, TypeInv, TypeOK, Ids
    <3> QED  BY <2>1, <2>2, <3>1 DEF Fresh
  <2>4. Cleared'
    BY <2>1, <2>2 DEF Cleared, TypeInv, TypeOK
  <2>5. ASSUME NEW b \in Ids, b \notin clearing', b \notin mixed'
        PROVE  balance'[b] = opening'[b] + rows'[b]
    <3>1. b \notin clearing /\ b \notin mixed
      BY <2>2, <2>5
    <3>2. /\ balance[b] = opening[b] + rows[b]
          /\ balance[b] \in Int /\ opening[b] \in Int /\ rows[b] \in Int
      BY <3>1 DEF BalanceAgrees, TypeInv, TypeOK
    <3>3. CASE b = a
      BY <2>1, <2>2, <3>2, <3>3
    <3>4. CASE b # a
      BY <2>1, <2>2, <3>2, <3>4
    <3> QED  BY <3>3, <3>4
  <2>6. BalanceAgrees'
    BY <2>5 DEF BalanceAgrees
  <2> QED  BY <2>3, <2>4, <2>6
<1>2. ASSUME NEW a \in Ids, NEW amount \in {0, Size}, ClearBalance(a, amount)
      PROVE  (Fresh /\ Cleared /\ BalanceAgrees)'
  <2>1. /\ balance' = [balance EXCEPT ![a] = amount] /\ opening' = [opening EXCEPT ![a] = amount]
        /\ clearing' = clearing \cup {a} /\ mixed' = mixed \ {a}
        /\ UNCHANGED <<created, rows>>
    BY <1>2 DEF ClearBalance
  <2>2. Fresh'
    BY <2>1 DEF Fresh
  <2>3. balance'[a] = opening'[a]
        /\ \A b \in Ids : b # a => balance'[b] = balance[b] /\ opening'[b] = opening[b]
    BY <2>1 DEF TypeInv, TypeOK
  <2>4. Cleared'
    BY <2>1, <2>3 DEF Cleared, TypeInv, TypeOK
  <2>5. BalanceAgrees'
    BY <2>1, <2>3 DEF BalanceAgrees
  <2> QED  BY <2>2, <2>4, <2>5
<1>3. ASSUME NEW a \in Ids, ClearTransactions(a) PROVE (Fresh /\ Cleared /\ BalanceAgrees)'
  <2>1. /\ a \in clearing /\ rows' = [rows EXCEPT ![a] = 0] /\ clearing' = clearing \ {a}
        /\ UNCHANGED <<created, balance, opening, mixed>>
    BY <1>3 DEF ClearTransactions
  <2>2. Fresh'
    BY <2>1 DEF Fresh, TypeInv, TypeOK
  <2>3. Cleared'
    BY <2>1 DEF Cleared
  <2>4. ASSUME NEW b \in Ids, b \notin clearing', b \notin mixed'
        PROVE  balance'[b] = opening'[b] + rows'[b]
    <3>1. CASE b = a
      <4>1. balance[a] = opening[a] /\ opening[a] \in Int
        BY <2>1, <2>4, <3>1 DEF Cleared, TypeInv, TypeOK
      <4>2. rows'[a] = 0
        BY <2>1 DEF TypeInv, TypeOK
      <4> QED  BY <2>1, <3>1, <4>1, <4>2
    <3>2. CASE b # a
      <4>1. b \notin clearing /\ b \notin mixed
        BY <2>1, <2>4, <3>2
      <4>2. rows'[b] = rows[b]
        BY <2>1, <3>2 DEF TypeInv, TypeOK
      <4> QED  BY <2>1, <4>1, <4>2 DEF BalanceAgrees
    <3> QED  BY <3>1, <3>2
  <2>5. BalanceAgrees'
    BY <2>4 DEF BalanceAgrees
  <2> QED  BY <2>2, <2>3, <2>5
<1>4. ASSUME NEW t \in Tasks, CreateAccount(t) PROVE (Fresh /\ Cleared /\ BalanceAgrees)'
  <2>1. /\ created' = created + 1 /\ created + 1 \in Ids
        /\ balance' = [balance EXCEPT ![created + 1] = Size]
        /\ opening' = [opening EXCEPT ![created + 1] = Size]
        /\ UNCHANGED <<rows, clearing, mixed>>
    BY <1>4, NextNumber DEF CreateAccount
  <2>2. rows[created + 1] = 0
    BY <2>1 DEF Fresh, TypeInv, TypeOK
  <2>3. Fresh'
    BY <2>1 DEF Fresh, TypeInv, TypeOK, Ids
  <2>4. Cleared'
    BY <2>1 DEF Cleared, TypeInv, TypeOK
  <2>5. BalanceAgrees'
    BY <2>1, <2>2 DEF BalanceAgrees, TypeInv, TypeOK
  <2> QED  BY <2>3, <2>4, <2>5
<1>5. ASSUME NEW t \in Tasks, BeginWithdrawal(t) \/ Insert(t) \/ InsertFails(t) \/ ReportBalance(t)
                              \/ InsertPortfolio(t)
      PROVE  UNCHANGED <<created, balance, rows, opening, clearing, mixed>>
  BY <1>5 DEF BeginWithdrawal, Insert, InsertFails, ReportBalance, InsertPortfolio
<1>6. ASSUME NEW t \in Tasks, NEW p \in Portfolios, BeginSave(t, p)
      PROVE  UNCHANGED <<created, balance, rows, opening, clearing, mixed>>
  BY <1>6 DEF BeginSave
<1>7. ASSUME NEW t \in Tasks, NEW a \in Ids, NEW amount \in Amounts,
             Check(t, a, amount) \/ BeginDeposit(t, a, amount)
      PROVE  UNCHANGED <<created, balance, rows, opening, clearing, mixed>>
  BY <1>7 DEF Check, BeginDeposit
<1>8. CASE UNCHANGED vars
  BY <1>8, BalanceUnchanged DEF vars
<1> QED  BY <1>1, <1>2, <1>3, <1>4, <1>5, <1>6, <1>7, <1>8, BalanceUnchanged DEF Next, TaskStep

\* For any number of tasks, accounts and calls, the balance the trigger keeps is
\* what the account began with and its transactions, unless it is half cleared or
\* a transaction came while it was.
THEOREM BalanceAgreesAlways == Spec => []BalanceAgrees
<1>1. Init => BalanceInv
  <2> SUFFICES ASSUME Init PROVE BalanceInv
    OBVIOUS
  <2>1. Fresh /\ Cleared /\ BalanceAgrees
    BY DEF Init, Fresh, Cleared, BalanceAgrees
  <2> QED  BY <2>1, TypeInit DEF BalanceInv
<1>2. BalanceInv /\ [Next]_vars => BalanceInv'
  BY BalanceStep, TypeStep, RoomStep DEF BalanceInv, TypeInv
<1>3. BalanceInv => BalanceAgrees
  BY DEF BalanceInv
<1> QED  BY <1>1, <1>2, <1>3, PTL DEF Spec

-----------------------------------------------------------------------------
(* Withdrawals.                                                             *)

Withdrawing(t) == pc[t] \in {"checked", "adding", "inserted"} /\ job[t].amount < 0

\* While nothing took from an account since it was checked, it covers the
\* withdrawal that the check approved.
CoveredBy(at, now, left) == at <= now /\ (at = now => left >= Floor)
Covered ==
  \A t \in Tasks : Withdrawing(t) =>
    CoveredBy(job[t].version, version[job[t].account],
              balance[job[t].account] + job[t].amount)

CreditInv == TypeInv /\ Covered /\ OverdrawnOnlyByRace

\* Steps that keep every account, and every withdrawal that goes on.
LEMMA CreditUnchanged ==
  ASSUME CreditInv, UNCHANGED <<balance, version, raced>>,
         \A t \in Tasks : Withdrawing(t)' => Withdrawing(t) /\ job'[t] = job[t]
  PROVE  (Covered /\ OverdrawnOnlyByRace)'
<1>1. OverdrawnOnlyByRace'
  BY DEF CreditInv, OverdrawnOnlyByRace
<1>2. ASSUME NEW t \in Tasks, Withdrawing(t)'
      PROVE  CoveredBy(job[t].version, version[job[t].account],
                       balance[job[t].account] + job[t].amount)' 
  <2>1. Withdrawing(t) /\ job'[t] = job[t]
    BY <1>2
  <2>2. CoveredBy(job[t].version, version[job[t].account],
                  balance[job[t].account] + job[t].amount)
    BY <2>1 DEF CreditInv, Covered
  <2> QED  BY <2>1, <2>2
<1>3. Covered'
  BY <1>2 DEF Covered
<1> QED  BY <1>1, <1>3

\* What a withdrawal rests on is of an account that was created.
LEMMA WithdrawalIsNamed ==
  ASSUME TypeInv, NEW t \in Tasks, Withdrawing(t)
  PROVE  /\ job[t].account \in Ids /\ job[t].account <= created
         /\ job[t].amount \in Int /\ job[t].version \in Nat
         /\ version[job[t].account] \in Nat /\ balance[job[t].account] \in Int
<1>1. job[t].account \in Ids /\ job[t].account \in 1 .. created
  BY NamedIsId DEF Withdrawing
<1>2. job[t] \in Jobs
  BY DEF TypeInv, TypeOK
<1>3. job[t].amount \in Int /\ job[t].version \in Nat
  BY <1>2 DEF Jobs
<1>4. job[t].account <= created
  BY <1>1 DEF TypeInv, TypeOK
<1> QED  BY <1>1, <1>3, <1>4 DEF TypeInv, TypeOK

\* A task that moves without other arguments withdraws only what it withdrew.
LEMMA MoveWithdraws ==
  ASSUME TypeInv, NEW t \in Tasks, NEW place \in Places, Goto(t, place),
         \/ place \notin {"checked", "adding", "inserted"}
         \/ pc[t] \in {"checked", "adding", "inserted"},
         \A u \in Tasks : u # t => job'[u] = job[u],
         place \in {"checked", "adding", "inserted"} => job' = job
  PROVE  \A u \in Tasks : Withdrawing(u)' => Withdrawing(u) /\ job'[u] = job[u]
<1>1. pc'[t] = place /\ \A u \in Tasks : u # t => pc'[u] = pc[u]
  BY GotoMoves DEF TypeInv
<1>2. ASSUME NEW u \in Tasks, Withdrawing(u)' PROVE Withdrawing(u) /\ job'[u] = job[u]
  <2>1. CASE u = t
    <3>1. place \in {"checked", "adding", "inserted"}
      BY <1>1, <1>2, <2>1 DEF Withdrawing
    <3>2. job' = job /\ pc[t] \in {"checked", "adding", "inserted"}
      BY <3>1
    <3> QED  BY <1>2, <2>1, <3>2 DEF Withdrawing
  <2>2. CASE u # t
    BY <1>1, <1>2, <2>2 DEF Withdrawing
  <2> QED  BY <2>1, <2>2
<1> QED  BY <1>2
\* A transaction: its own withdrawal is covered, and another of the same account
\* is covered still or no longer fresh.
LEMMA CreditCommit ==
  ASSUME CreditInv, NEW t \in Tasks, Commit(t)
  PROVE  (Covered /\ OverdrawnOnlyByRace)'
<1> USE DEF CreditInv
<1> DEFINE a == job[t].account
           n == job[t].amount
<1>1. /\ a \in Ids /\ n \in Int /\ balance'[a] = balance[a] + n
      /\ \A b \in Ids : b # a => balance'[b] = balance[b]
  BY CommitMoves
<1>2. /\ version' = [version EXCEPT ![a] = @ + IF n < 0 THEN 1 ELSE 0]
      /\ raced' = IF n < 0 /\ version[a] # job[t].version THEN raced \cup {a} ELSE raced
      /\ pc[t] = "inserted" /\ Goto(t, "idle") /\ job' = [job EXCEPT ![t] = NoJob]
  BY DEF Commit, Done
<1>3. /\ version[a] \in Nat /\ balance[a] \in Int
      /\ version'[a] = IF n < 0 THEN version[a] + 1 ELSE version[a]
      /\ \A b \in Ids : b # a => version'[b] = version[b]
  BY <1>1, <1>2 DEF TypeInv, TypeOK
<1>4. \A u \in Tasks : Withdrawing(u)' => u # t /\ Withdrawing(u) /\ job'[u] = job[u]
  <2>1. pc'[t] = "idle" /\ \A u \in Tasks : u # t => pc'[u] = pc[u]
    BY <1>2, GotoMoves DEF TypeInv, Places
  <2>2. \A u \in Tasks : u # t => job'[u] = job[u]
    BY <1>2, NoJobType, JobMoves DEF TypeInv
  <2> QED  BY <2>1, <2>2 DEF Withdrawing
<1>5. Withdrawing(t) => CoveredBy(job[t].version, version[a], balance[a] + n)
  BY DEF Covered
<1>6. n < 0 => Withdrawing(t) /\ job[t].version \in Nat
  BY <1>2, WithdrawalIsNamed DEF Withdrawing
<1>7. Floor \in Int
  BY DEF Floor
<1> HIDE DEF a, n
<1>8. ASSUME NEW b \in Ids, b \notin raced' PROVE balance'[b] >= Floor
  <2>1. b \notin raced /\ balance[b] >= Floor /\ balance[b] \in Int
    BY <1>2, <1>8 DEF OverdrawnOnlyByRace, TypeInv, TypeOK
  <2>2. CASE b # a
    BY <1>1, <2>1, <2>2
  <2>3. CASE b = a /\ n >= 0
    BY <1>1, <1>7, <2>1, <2>3
  <2>4. CASE b = a /\ n < 0
    <3>1. version[a] = job[t].version
      BY <1>2, <1>8, <2>4
    <3> QED  BY <1>1, <1>5, <1>6, <2>4, <3>1 DEF CoveredBy
  <2> QED  BY <1>1, <2>2, <2>3, <2>4
<1>9. ASSUME NEW u \in Tasks, Withdrawing(u)'
      PROVE  CoveredBy(job[u].version, version[job[u].account],
                       balance[job[u].account] + job[u].amount)'
  <2> DEFINE b == job[u].account
  <2>1. Withdrawing(u) /\ job'[u] = job[u]
    BY <1>4, <1>9
  <2>2. CoveredBy(job[u].version, version[b], balance[b] + job[u].amount)
    BY <2>1 DEF Covered
  <2>3. /\ b \in Ids /\ job[u].amount \in Int /\ job[u].version \in Nat
        /\ version[b] \in Nat /\ balance[b] \in Int
    BY <2>1, WithdrawalIsNamed
  <2> HIDE DEF b
  <2>4. CoveredBy(job[u].version, version'[b], balance'[b] + job[u].amount)
    <3>1. CASE b # a
      BY <1>1, <1>3, <2>2, <2>3, <3>1
    <3>2. CASE b = a /\ n < 0
      BY <1>1, <1>3, <2>2, <2>3, <3>2 DEF CoveredBy
    <3>3. CASE b = a /\ n >= 0
      BY <1>1, <1>3, <1>7, <2>2, <2>3, <3>3 DEF CoveredBy
    <3> QED  BY <1>1, <3>1, <3>2, <3>3
  <2> QED  BY <2>1, <2>4 DEF b
<1> QED  BY <1>8, <1>9 DEF Covered, OverdrawnOnlyByRace

\* A balance that is set, by clearing or creating an account, to no less than
\* the credit allows, where no withdrawal still rests on the old one.
LEMMA CreditSet ==
  ASSUME CreditInv, NEW a \in Ids, NEW amount \in Int, amount >= Floor,
         balance' = [balance EXCEPT ![a] = amount], raced' = raced,
         \A b \in Ids : b # a => version'[b] = version[b],
         \A t \in Tasks : Withdrawing(t)' => Withdrawing(t) /\ job'[t] = job[t],
         \/ version'[a] = version[a] + 1
         \/ \A t \in Tasks : Withdrawing(t) => job[t].account # a
  PROVE  (Covered /\ OverdrawnOnlyByRace)'
<1> USE DEF CreditInv
<1>1. balance'[a] = amount /\ \A b \in Ids : b # a => balance'[b] = balance[b]
  BY DEF TypeInv, TypeOK
<1>2. OverdrawnOnlyByRace'
  BY <1>1 DEF OverdrawnOnlyByRace
<1>3. ASSUME NEW u \in Tasks, Withdrawing(u)'
      PROVE  CoveredBy(job[u].version, version[job[u].account],
                       balance[job[u].account] + job[u].amount)'
  <2> DEFINE b == job[u].account
  <2>1. Withdrawing(u) /\ job'[u] = job[u]
    BY <1>3
  <2>2. CoveredBy(job[u].version, version[b], balance[b] + job[u].amount)
    BY <2>1 DEF Covered
  <2>3. b \in Ids /\ job[u].version \in Nat /\ version[b] \in Nat
    BY <2>1, WithdrawalIsNamed
  <2> HIDE DEF b
  <2>4. CoveredBy(job[u].version, version'[b], balance'[b] + job[u].amount)
    <3>1. CASE b # a
      BY <1>1, <2>2, <2>3, <3>1
    <3>2. CASE b = a
      <4>1. version'[b] = version[b] + 1
        BY <2>1, <3>2 DEF b
      <4> QED  BY <2>2, <2>3, <4>1 DEF CoveredBy
    <3> QED  BY <3>1, <3>2
  <2> QED  BY <2>1, <2>4 DEF b
<1>4. Covered'
  BY <1>3 DEF Covered
<1> QED  BY <1>2, <1>4

\* Every step keeps what withdrawals rest on.
LEMMA CreditStep == ASSUME CreditInv, [Next]_vars PROVE (Covered /\ OverdrawnOnlyByRace)'
<1> USE DEF tables, tasks, history
<1>0. TypeInv
  BY DEF CreditInv
<1>1. ASSUME NEW t \in Tasks, BeginWithdrawal(t) PROVE (Covered /\ OverdrawnOnlyByRace)'
  <2>1. /\ Goto(t, "adding") /\ pc[t] = "checked" /\ job' = job
        /\ UNCHANGED <<balance, version, raced>>
    BY <1>1 DEF BeginWithdrawal
  <2>2. \A u \in Tasks : Withdrawing(u)' => Withdrawing(u) /\ job'[u] = job[u]
    BY <1>0, <2>1, MoveWithdraws DEF Places
  <2> QED  BY <2>1, <2>2, CreditUnchanged
<1>2. ASSUME NEW t \in Tasks, Insert(t) PROVE (Covered /\ OverdrawnOnlyByRace)'
  <2>1. /\ Goto(t, "inserted") /\ pc[t] = "adding" /\ job' = job
        /\ UNCHANGED <<balance, version, raced>>
    BY <1>2 DEF Insert
  <2>2. \A u \in Tasks : Withdrawing(u)' => Withdrawing(u) /\ job'[u] = job[u]
    BY <1>0, <2>1, MoveWithdraws DEF Places
  <2> QED  BY <2>1, <2>2, CreditUnchanged
<1>3. ASSUME NEW t \in Tasks, InsertFails(t) PROVE (Covered /\ OverdrawnOnlyByRace)'
  <2>1. Goto(t, "failed") /\ job' = job /\ UNCHANGED <<balance, version, raced>>
    BY <1>3 DEF InsertFails
  <2>2. \A u \in Tasks : Withdrawing(u)' => Withdrawing(u) /\ job'[u] = job[u]
    BY <1>0, <2>1, MoveWithdraws DEF Places
  <2> QED  BY <2>1, <2>2, CreditUnchanged
<1>4. ASSUME NEW t \in Tasks, ReportBalance(t) \/ InsertPortfolio(t)
      PROVE  (Covered /\ OverdrawnOnlyByRace)'
  <2>1. /\ Goto(t, "idle") /\ job' = [job EXCEPT ![t] = NoJob]
        /\ UNCHANGED <<balance, version, raced>>
    BY <1>4 DEF ReportBalance, InsertPortfolio, Done
  <2>2. \A u \in Tasks : u # t => job'[u] = job[u]
    BY <1>0, <2>1, NoJobType, JobMoves DEF TypeInv
  <2>3. \A u \in Tasks : Withdrawing(u)' => Withdrawing(u) /\ job'[u] = job[u]
    BY <1>0, <2>1, <2>2, MoveWithdraws DEF Places
  <2> QED  BY <2>1, <2>3, CreditUnchanged
<1>5. ASSUME NEW t \in Tasks, NEW p \in Portfolios, BeginSave(t, p)
      PROVE  (Covered /\ OverdrawnOnlyByRace)'
  <2>1. Goto(t, "saving") /\ UNCHANGED <<balance, version, raced>>
        /\ job' = [job EXCEPT ![t] = [NoJob EXCEPT !.portfolio = p]]
    BY <1>5 DEF BeginSave
  <2>2. \A u \in Tasks : u # t => job'[u] = job[u]
    BY <1>0, <2>1 DEF TypeInv, TypeOK
  <2>3. \A u \in Tasks : Withdrawing(u)' => Withdrawing(u) /\ job'[u] = job[u]
    BY <1>0, <2>1, <2>2, MoveWithdraws DEF Places
  <2> QED  BY <2>1, <2>3, CreditUnchanged
<1>6. ASSUME NEW t \in Tasks, NEW a \in Ids, NEW amount \in Amounts, BeginDeposit(t, a, amount)
      PROVE  (Covered /\ OverdrawnOnlyByRace)'
  <2>1. /\ Goto(t, "adding") /\ UNCHANGED <<balance, version, raced>>
        /\ job' = [job EXCEPT ![t] = Transaction(a, amount, 0)]
    BY <1>6 DEF BeginDeposit
  <2>2. job'[t] = Transaction(a, amount, 0) /\ \A u \in Tasks : u # t => job'[u] = job[u]
    BY <1>0, <2>1 DEF TypeInv, TypeOK
  <2>3. job'[t].amount = amount /\ amount \in Nat
    <3>1. Transaction(a, amount, 0).amount = amount
      BY DEF Transaction
    <3>2. amount \in Nat
      OBVIOUS
    <3> QED  BY <2>2, <3>1, <3>2
  <2>4. \A u \in Tasks : u # t => pc'[u] = pc[u]
    BY <1>0, <2>1, GotoMoves DEF TypeInv, Places
  <2>5. \A u \in Tasks : Withdrawing(u)' => Withdrawing(u) /\ job'[u] = job[u]
    BY <2>2, <2>3, <2>4 DEF Withdrawing
  <2> QED  BY <2>1, <2>5, CreditUnchanged
<1>7. ASSUME NEW t \in Tasks, NEW a \in Ids, NEW amount \in Amounts, Check(t, a, amount)
      PROVE  (Covered /\ OverdrawnOnlyByRace)'
  <2>1. /\ Goto(t, "checked") /\ UNCHANGED <<balance, version, raced>>
        /\ job' = [job EXCEPT ![t] = Transaction(a, 0 - amount, version[a])]
        /\ Enough(a, amount)
    BY <1>7 DEF Check
  <2>2. /\ job'[t] = Transaction(a, 0 - amount, version[a])
        /\ \A u \in Tasks : u # t => job'[u] = job[u]
    BY <1>0, <2>1 DEF TypeInv, TypeOK
  <2>3. \A u \in Tasks : u # t => pc'[u] = pc[u]
    BY <1>0, <2>1, GotoMoves DEF TypeInv, Places
  <2>4. job'[t].account = a /\ job'[t].amount = 0 - amount /\ job'[t].version = version[a]
    BY <2>2 DEF Transaction
  <2>5. amount \in Nat /\ version[a] \in Nat /\ balance[a] \in Int
    BY <1>0 DEF TypeInv, TypeOK
  <2>6. CoveredBy(version[a], version[a], balance[a] + (0 - amount))
    BY <2>1, <2>5 DEF Enough, CoveredBy, Floor
  <2>7. ASSUME NEW u \in Tasks, Withdrawing(u)'
        PROVE  CoveredBy(job[u].version, version[job[u].account],
                         balance[job[u].account] + job[u].amount)'
    <3>1. CASE u = t
      BY <2>1, <2>4, <2>6, <3>1
    <3>2. CASE u # t
      <4>1. Withdrawing(u) /\ job'[u] = job[u]
        BY <2>2, <2>3, <2>7, <3>2 DEF Withdrawing
      <4>2. CoveredBy(job[u].version, version[job[u].account],
                      balance[job[u].account] + job[u].amount)
        BY <4>1 DEF CreditInv, Covered
      <4> QED  BY <2>1, <4>1, <4>2
    <3> QED  BY <3>1, <3>2
  <2>8. OverdrawnOnlyByRace'
    BY <2>1 DEF CreditInv, OverdrawnOnlyByRace
  <2> QED  BY <2>7, <2>8 DEF Covered
<1>8. ASSUME NEW t \in Tasks, CreateAccount(t) PROVE (Covered /\ OverdrawnOnlyByRace)'
  <2>1. /\ created' = created + 1 /\ created + 1 \in Ids
        /\ balance' = [balance EXCEPT ![created + 1] = Size]
        /\ raced' = raced /\ version' = version /\ Goto(t, "created")
        /\ job' = [job EXCEPT ![t] = [job[t] EXCEPT !.account = created + 1]]
    BY <1>0, <1>8, NextNumber DEF CreateAccount
  <2>2. \A u \in Tasks : u # t => job'[u] = job[u]
    BY <1>0, <2>1 DEF TypeInv, TypeOK
  <2>3. \A u \in Tasks : Withdrawing(u)' => Withdrawing(u) /\ job'[u] = job[u]
    BY <1>0, <2>1, <2>2, MoveWithdraws DEF Places
  <2>4. ASSUME NEW u \in Tasks, Withdrawing(u) PROVE job[u].account # created + 1
    <3>1. job[u].account \in Ids /\ job[u].account <= created
      BY <1>0, <2>4, WithdrawalIsNamed
    <3> QED  BY <1>0, <3>1 DEF TypeInv, TypeOK, Ids
  <2>5. Size \in Int /\ Size >= Floor
    BY DEF Floor
  <2> QED  BY <2>1, <2>3, <2>4, <2>5, CreditSet
<1>9. ASSUME NEW a \in Ids, NEW amount \in {0, Size}, ClearBalance(a, amount)
      PROVE  (Covered /\ OverdrawnOnlyByRace)'
  <2>1. /\ balance' = [balance EXCEPT ![a] = amount] /\ raced' = raced
        /\ version' = [version EXCEPT ![a] = @ + 1] /\ pc' = pc /\ job' = job
    BY <1>9 DEF ClearBalance
  <2>2. version'[a] = version[a] + 1 /\ \A b \in Ids : b # a => version'[b] = version[b]
    BY <1>0, <2>1 DEF TypeInv, TypeOK
  <2>3. \A u \in Tasks : Withdrawing(u)' => Withdrawing(u) /\ job'[u] = job[u]
    BY <2>1 DEF Withdrawing
  <2>4. amount \in Int /\ amount >= Floor
    BY DEF Floor
  <2> QED  BY <2>1, <2>2, <2>3, <2>4, CreditSet
<1>10. CASE UNCHANGED vars \/ \E a \in Ids : ClearTransactions(a)
  <2>1. UNCHANGED <<balance, version, raced, pc, job>>
    BY <1>10 DEF vars, ClearTransactions
  <2>2. \A u \in Tasks : Withdrawing(u)' => Withdrawing(u) /\ job'[u] = job[u]
    BY <2>1 DEF Withdrawing
  <2> QED  BY <2>1, <2>2, CreditUnchanged
<1> QED  BY <1>1, <1>2, <1>3, <1>4, <1>5, <1>6, <1>7, <1>8, <1>9, <1>10, CreditCommit
         DEF Next, TaskStep

\* For any number of tasks, accounts and calls, an account is below what its
\* credit allows only if a withdrawal rested on a check that another change of
\* its balance had made stale.
THEOREM OverdrawnOnlyByRaceAlways == Spec => []OverdrawnOnlyByRace
<1>1. Init => CreditInv
  <2> SUFFICES ASSUME Init PROVE CreditInv
    OBVIOUS
  <2>1. Covered /\ OverdrawnOnlyByRace
    BY DEF Init, Covered, Withdrawing, OverdrawnOnlyByRace, Floor
  <2> QED  BY <2>1, TypeInit DEF CreditInv
<1>2. CreditInv /\ [Next]_vars => CreditInv'
  BY CreditStep, TypeStep, RoomStep DEF CreditInv, TypeInv
<1>3. CreditInv => OverdrawnOnlyByRace
  BY DEF CreditInv
<1> QED  BY <1>1, <1>2, <1>3, PTL DEF Spec

-----------------------------------------------------------------------------
(* Portfolios and their accounts.                                           *)

Owners(a) == {p \in Portfolios : account_of[p] = a}
Makers(a) == {t \in Tasks : pc[t] = "created" /\ job[t].account = a}

\* An account is a portfolio's, or that of a call that is to insert the
\* portfolio, or that of one that could not.
OneHolder(a) ==
  \/ a \notin failed /\ Makers(a) = {} /\ \E p \in Portfolios : Owners(a) = {p}
  \/ a \notin failed /\ Owners(a) = {} /\ \E t \in Tasks : Makers(a) = {t}
  \/ a \in failed /\ Owners(a) = {} /\ Makers(a) = {}

NoHolder(a) == a \notin failed /\ Owners(a) = {} /\ Makers(a) = {}

\* A call that saves a portfolio knows which.
SavesPortfolio ==
  \A t \in Tasks : pc[t] \in {"saving", "created"} => job[t].portfolio \in Portfolios

HolderInv ==
  /\ TypeInv
  /\ SavesPortfolio
  /\ \A a \in Ids : IF a <= created THEN OneHolder(a) ELSE NoHolder(a)

LEMMA HolderInit == Init => HolderInv
<1> SUFFICES ASSUME Init PROVE HolderInv
  OBVIOUS
<1>1. TypeInv /\ SavesPortfolio /\ created = 0
  BY TypeInit DEF Init, SavesPortfolio
<1>2. ASSUME NEW a \in Ids PROVE ~(a <= created) /\ NoHolder(a)
  BY <1>1 DEF Init, NoHolder, Owners, Makers, Ids
<1> QED  BY <1>1, <1>2 DEF HolderInv

\* A step of a task that is not about a portfolio.
LEMMA HoldersUnchanged ==
  ASSUME HolderInv, UNCHANGED <<created, account_of, failed>>,
         NEW t \in Tasks, pc[t] \notin {"saving", "created"},
         pc'[t] # "created",
         pc'[t] = "saving" => job'[t].portfolio \in Portfolios,
         \A u \in Tasks : u # t => pc'[u] = pc[u] /\ job'[u] = job[u]
  PROVE  /\ SavesPortfolio'
         /\ \A a \in Ids : IF a <= created' THEN OneHolder(a)' ELSE NoHolder(a)'
<1>1. SavesPortfolio'
  BY DEF HolderInv, SavesPortfolio
<1>2. ASSUME NEW a \in Ids PROVE Owners(a)' = Owners(a) /\ Makers(a)' = Makers(a)
  BY DEF Owners, Makers
<1>3. ASSUME NEW a \in Ids PROVE OneHolder(a)' = OneHolder(a) /\ NoHolder(a)' = NoHolder(a)
  BY <1>2 DEF OneHolder, NoHolder
<1> QED  BY <1>1, <1>3 DEF HolderInv

\* A portfolio's account is created, and is to be inserted with it.
LEMMA CreateHolds ==
  ASSUME HolderInv, NEW t \in Tasks, CreateAccount(t)
  PROVE  /\ SavesPortfolio'
         /\ \A a \in Ids : IF a <= created' THEN OneHolder(a)' ELSE NoHolder(a)'
<1> USE DEF HolderInv
<1>1. created' = created + 1 /\ created' \in Ids /\ created \in Nat
  <2>1. created + 1 \in Ids
    BY NextNumber
  <2> QED  BY <2>1 DEF CreateAccount, TypeInv, TypeOK
<1>2. /\ pc[t] = "saving" /\ pc'[t] = "created"
      /\ job'[t].account = created' /\ job'[t].portfolio = job[t].portfolio
      /\ \A u \in Tasks : u # t => pc'[u] = pc[u] /\ job'[u] = job[u]
  <2>1. job \in [Tasks -> Jobs] /\ pc \in [Tasks -> Places]
    BY DEF TypeInv, TypeOK, Places
  <2>2. job[t] \in Jobs
    BY <2>1
  <2> QED  BY <2>1, <2>2 DEF CreateAccount, Goto, Jobs
<1>3. SavesPortfolio'
  BY <1>2 DEF SavesPortfolio
<1>4. ASSUME NEW a \in Ids
      PROVE  /\ Owners(a)' = Owners(a)
             /\ a # created' => Makers(a)' = Makers(a)
             /\ a = created' => Makers(a)' = Makers(a) \cup {t}
  <2>1. Owners(a)' = Owners(a)
    BY DEF CreateAccount, Owners
  <2>2. CASE a # created'
    BY <1>2, <2>1, <2>2 DEF Makers
  <2>3. CASE a = created'
    BY <1>2, <2>1, <2>3 DEF Makers
  <2> QED  BY <2>2, <2>3
<1>5. failed' = failed
  BY DEF CreateAccount
<1>6. ASSUME NEW a \in Ids
      PROVE  IF a <= created' THEN OneHolder(a)' ELSE NoHolder(a)'
  <2>1. CASE a = created'
    <3>1. NoHolder(a)
      BY <1>1, <2>1
    <3>2. a <= created' /\ Makers(a)' = {t} /\ Owners(a)' = {} /\ a \notin failed'
      BY <1>1, <1>4, <1>5, <2>1, <3>1 DEF NoHolder
    <3> QED  BY <3>2 DEF OneHolder
  <2>2. CASE a # created'
    <3>1. OneHolder(a)' = OneHolder(a) /\ NoHolder(a)' = NoHolder(a)
      BY <1>4, <1>5, <2>2 DEF OneHolder, NoHolder
    <3>2. (a <= created') = (a <= created)
      BY <1>1, <2>2 DEF Ids
    <3> QED  BY <3>1, <3>2
  <2> QED  BY <2>1, <2>2
<1> QED  BY <1>3, <1>6

\* The portfolio is inserted with the account of the call, or the account is
\* left without one.
LEMMA InsertHolds ==
  ASSUME HolderInv, NEW t \in Tasks, InsertPortfolio(t)
  PROVE  /\ SavesPortfolio'
         /\ \A a \in Ids : IF a <= created' THEN OneHolder(a)' ELSE NoHolder(a)'
<1> USE DEF HolderInv
<1>0. PICK mine, p : mine = job[t].account /\ p = job[t].portfolio
  OBVIOUS
<1>1. mine \in Ids /\ mine <= created /\ p \in Portfolios /\ created' = created
  <2>1. mine \in Ids /\ mine \in 1 .. created
    BY <1>0, NamedIsId DEF InsertPortfolio
  <2>2. p \in Portfolios
    BY <1>0 DEF InsertPortfolio, SavesPortfolio
  <2> QED  BY <2>1, <2>2 DEF InsertPortfolio, TypeInv, TypeOK
<1>2. /\ pc[t] = "created" /\ pc'[t] = "idle"
      /\ \A u \in Tasks : u # t => pc'[u] = pc[u] /\ job'[u] = job[u]
  BY DEF InsertPortfolio, Done, Goto, TypeInv, TypeOK
<1>3. SavesPortfolio'
  BY <1>2 DEF SavesPortfolio
<1>4. Owners(mine) = {} /\ mine \notin failed /\ Makers(mine) = {t}
  <2>1. t \in Makers(mine) /\ OneHolder(mine)
    BY <1>0, <1>1, <1>2 DEF Makers
  <2> QED  BY <2>1 DEF OneHolder
<1>5. ASSUME NEW a \in Ids
      PROVE  /\ a # mine => Makers(a)' = Makers(a)
             /\ a = mine => Makers(a)' = {}
  <2>1. CASE a # mine
    BY <1>0, <1>2, <2>1 DEF Makers
  <2>2. CASE a = mine
    BY <1>2, <1>4, <2>2 DEF Makers
  <2> QED  BY <2>1, <2>2
<1>6. CASE /\ account_of[p] = None /\ UNCHANGED failed
           /\ account_of' = [account_of EXCEPT ![p] = mine]
  <2>1. account_of'[p] = mine /\ \A q \in Portfolios : q # p => account_of'[q] = account_of[q]
    BY <1>1, <1>6 DEF TypeInv, TypeOK
  <2>2. Owners(mine)' = {p}
    BY <1>1, <1>4, <2>1 DEF Owners
  <2>3. OneHolder(mine)'
    BY <1>1, <1>4, <1>5, <1>6, <2>2 DEF OneHolder
  <2>4. ASSUME NEW a \in Ids, a # mine
        PROVE  OneHolder(a)' = OneHolder(a) /\ NoHolder(a)' = NoHolder(a)
    <3>1. a # None
      BY DEF Ids
    <3>2. Owners(a)' = Owners(a)
      BY <1>6, <2>1, <2>4, <3>1 DEF Owners
    <3> QED  BY <1>5, <1>6, <2>4, <3>2 DEF OneHolder, NoHolder
  <2> QED  BY <1>1, <1>3, <2>3, <2>4
<1>7. CASE /\ account_of[p] # None /\ UNCHANGED account_of
           /\ failed' = failed \cup {mine}
  <2>1. ASSUME NEW a \in Ids PROVE Owners(a)' = Owners(a)
    BY <1>7 DEF Owners
  <2>2. OneHolder(mine)'
    BY <1>1, <1>4, <1>5, <1>7, <2>1 DEF OneHolder
  <2>3. ASSUME NEW a \in Ids, a # mine
        PROVE  OneHolder(a)' = OneHolder(a) /\ NoHolder(a)' = NoHolder(a)
    BY <1>5, <1>7, <2>1, <2>3 DEF OneHolder, NoHolder
  <2> QED  BY <1>1, <1>3, <2>2, <2>3
<1> QED  BY <1>0, <1>6, <1>7 DEF InsertPortfolio

LEMMA HolderStep == HolderInv /\ [Next]_vars => HolderInv'
<1> SUFFICES ASSUME HolderInv, [Next]_vars
             PROVE  /\ SavesPortfolio'
                    /\ \A a \in Ids : IF a <= created' THEN OneHolder(a)'
                                      ELSE NoHolder(a)'
  BY TypeStep, RoomStep DEF HolderInv, TypeInv
<1> USE DEF HolderInv, tables, tasks, history
<1>1. ASSUME NEW t \in Tasks, CreateAccount(t)
      PROVE  /\ SavesPortfolio'
             /\ \A a \in Ids : IF a <= created' THEN OneHolder(a)' ELSE NoHolder(a)'
  BY <1>1, CreateHolds
<1>2. ASSUME NEW t \in Tasks, InsertPortfolio(t)
      PROVE  /\ SavesPortfolio'
             /\ \A a \in Ids : IF a <= created' THEN OneHolder(a)' ELSE NoHolder(a)'
  BY <1>2, InsertHolds
<1>3. ASSUME NEW t \in Tasks, BeginWithdrawal(t) \/ Insert(t) \/ InsertFails(t)
      PROVE  /\ SavesPortfolio'
             /\ \A a \in Ids : IF a <= created' THEN OneHolder(a)' ELSE NoHolder(a)'
  <2>1. /\ pc[t] \in {"checked", "adding"} /\ pc'[t] \in {"adding", "inserted", "failed"}
        /\ \A u \in Tasks : u # t => pc'[u] = pc[u] /\ job'[u] = job[u]
    BY <1>3 DEF BeginWithdrawal, Insert, InsertFails, Goto, TypeInv, TypeOK
  <2>2. UNCHANGED <<created, account_of, failed>>
    BY <1>3 DEF BeginWithdrawal, Insert, InsertFails
  <2> QED  BY <2>1, <2>2, HoldersUnchanged
<1>4. ASSUME NEW t \in Tasks, Commit(t) \/ ReportBalance(t)
      PROVE  /\ SavesPortfolio'
             /\ \A a \in Ids : IF a <= created' THEN OneHolder(a)' ELSE NoHolder(a)'
  <2>1. /\ pc[t] \in {"inserted", "failed"} /\ pc'[t] = "idle"
        /\ \A u \in Tasks : u # t => pc'[u] = pc[u] /\ job'[u] = job[u]
    BY <1>4 DEF Commit, ReportBalance, Done, Goto, TypeInv, TypeOK
  <2>2. UNCHANGED <<created, account_of, failed>>
    BY <1>4 DEF Commit, ReportBalance
  <2> QED  BY <2>1, <2>2, HoldersUnchanged
<1>5. ASSUME NEW t \in Tasks, NEW a \in Ids, NEW amount \in Amounts,
             Check(t, a, amount) \/ BeginDeposit(t, a, amount)
      PROVE  /\ SavesPortfolio'
             /\ \A b \in Ids : IF b <= created' THEN OneHolder(b)' ELSE NoHolder(b)'
  <2>1. /\ pc[t] = "idle" /\ pc'[t] \in {"checked", "adding"}
        /\ \A u \in Tasks : u # t => pc'[u] = pc[u] /\ job'[u] = job[u]
    BY <1>5 DEF Check, BeginDeposit, Goto, TypeInv, TypeOK
  <2>2. UNCHANGED <<created, account_of, failed>>
    BY <1>5 DEF Check, BeginDeposit
  <2> QED  BY <2>1, <2>2, HoldersUnchanged
<1>6. ASSUME NEW t \in Tasks, NEW p \in Portfolios, BeginSave(t, p)
      PROVE  /\ SavesPortfolio'
             /\ \A a \in Ids : IF a <= created' THEN OneHolder(a)' ELSE NoHolder(a)'
  <2>1. /\ pc[t] = "idle" /\ pc'[t] = "saving"
        /\ \A u \in Tasks : u # t => pc'[u] = pc[u] /\ job'[u] = job[u]
    BY <1>6 DEF BeginSave, Goto, TypeInv, TypeOK
  <2>2. job'[t].portfolio = p
    BY <1>6 DEF BeginSave, NoJob, Transaction, TypeInv, TypeOK
  <2>3. UNCHANGED <<created, account_of, failed>>
    BY <1>6 DEF BeginSave
  <2> QED  BY <2>1, <2>2, <2>3, HoldersUnchanged
<1>7. CASE UNCHANGED <<created, account_of, failed, pc, job>>
  <2>1. ASSUME NEW a \in Ids PROVE OneHolder(a)' = OneHolder(a) /\ NoHolder(a)' = NoHolder(a)
    BY <1>7 DEF OneHolder, NoHolder, Owners, Makers
  <2> QED  BY <1>7, <2>1 DEF SavesPortfolio
<1>8. ASSUME NEW a \in Ids,
             ClearTransactions(a) \/ \E amount \in {0, Size} : ClearBalance(a, amount)
      PROVE  UNCHANGED <<created, account_of, failed, pc, job>>
  BY <1>8 DEF ClearTransactions, ClearBalance
<1>9. CASE UNCHANGED vars
  BY <1>7, <1>9 DEF vars
<1> QED
  BY <1>1, <1>2, <1>3, <1>4, <1>5, <1>6, <1>7, <1>8, <1>9 DEF Next, TaskStep

\* One holder is one element, whatever sets tasks, portfolios and numbers are.
LEMMA HolderIsOne ==
  ASSUME HolderInv
  PROVE  OneAccountEach
<1>1. ASSUME NEW a \in Ids, a <= created
      PROVE  OneHolder(a)
  BY <1>1 DEF HolderInv
<1>2. ASSUME NEW p \in Portfolios, account_of[p] # None
      PROVE  account_of[p] \in Ids /\ account_of[p] <= created
  <2>1. account_of[p] \in Ids /\ p \in Owners(account_of[p])
    BY <1>2 DEF HolderInv, TypeInv, TypeOK, Owners
  <2> QED  BY <2>1 DEF HolderInv, NoHolder
<1>3. ASSUME NEW p \in Portfolios, NEW q \in Portfolios,
             account_of[p] = account_of[q], account_of[p] # None
      PROVE  p = q
  <2>1. OneHolder(account_of[p])
    BY <1>1, <1>2, <1>3
  <2>2. p \in Owners(account_of[p]) /\ q \in Owners(account_of[p])
    BY <1>3 DEF Owners
  <2> QED  BY <2>1, <2>2 DEF OneHolder
<1>4. ASSUME NEW a \in 1 .. created
      PROVE  Cardinality(Owners(a) \cup Makers(a) \cup ({a} \cap failed)) = 1
  <2>1. OneHolder(a)
    BY <1>1 DEF HolderInv, TypeInv, TypeOK, Ids
  <2>2. \E x : Owners(a) \cup Makers(a) \cup ({a} \cap failed) = {x}
    BY <2>1 DEF OneHolder
  <2> QED  BY <2>2, FS_Singleton
<1> QED  BY <1>3, <1>4 DEF OneAccountEach, Owners, Makers

\* A portfolio has an account of its own, and an account one holder: a
\* portfolio, the call that is saving one, or a call that could not.
THEOREM OneAccountEachAlways == Spec => []OneAccountEach
  BY HolderInit, HolderStep, HolderIsOne, PTL DEF Spec

(***************************************************************************)
(* Orders on behalf of a brokerage account.                                 *)
(***************************************************************************)

\* The poll is in the middle of an order that is not the symbol's any more.
Overtaken == IF existing \in {None, open_order} THEN 0 ELSE 1

Known ==
  /\ \A o \in Brokerage!Ids : order[o] = "none" <=> accepted < o
  /\ open_order # None => open_order <= accepted
  /\ existing # None => existing <= accepted /\ open_order # None
  /\ existing = None <=> poll = "idle"

\* Of the orders that are looked at only the one being popped was counted.
CountedWhen ==
  \A o \in Brokerage!Ids :
    /\ o = existing => counted[o] = IF poll = "filled" THEN 1 ELSE 0
    /\ o = open_order /\ o # existing => counted[o] = 0

\* A submission that sleeps will overwrite an order once, and an order that was
\* overtaken is going to be popped once.
Budget ==
  Cardinality(Brokerage!Forgotten) + Cardinality(posting) + Overtaken
    <= hidden + delayed

BrokerageInv ==
  /\ Brokerage!TypeOK /\ Known /\ CountedWhen /\ Brokerage!ExecutionCountedOnce
  /\ Budget

LEMMA BrokerageSets ==
  ASSUME Brokerage!TypeOK
  PROVE  /\ MaxOrders \in Nat /\ Brokerage!Ids = 1 .. MaxOrders /\ None \notin Nat
         /\ Brokerage!Forgotten \subseteq Brokerage!Ids
         /\ IsFiniteSet(Brokerage!Forgotten) /\ IsFiniteSet(posting)
         /\ Cardinality(Brokerage!Forgotten) \in Nat /\ Cardinality(posting) \in Nat
         /\ hidden \in Nat /\ delayed \in Nat /\ accepted \in Nat
<1>1. MaxOrders \in Nat /\ MaxPushbacks \in Nat /\ None \notin Nat
  BY BrokerageAssumption DEF Brokerage!ConstantsAssumption
<1>2. Brokerage!Ids = 1 .. MaxOrders
  BY DEF Brokerage!Ids
<1>3. IsFiniteSet(Brokerage!Ids)
  BY <1>1, <1>2, FS_Interval
<1>4. Brokerage!Forgotten \subseteq Brokerage!Ids
  BY DEF Brokerage!Forgotten
<1>5. IsFiniteSet(Brokerage!Submitters)
  <2>1. IsFiniteSet({} \cup {"strategy"} \cup {"run_all"})
    BY FS_EmptySet, FS_AddElement
  <2>2. Brokerage!Submitters = {} \cup {"strategy"} \cup {"run_all"}
    BY DEF Brokerage!Submitters
  <2> QED  BY <2>1, <2>2
<1>6. posting \subseteq Brokerage!Submitters
  BY DEF Brokerage!TypeOK
<1>7. IsFiniteSet(Brokerage!Forgotten) /\ IsFiniteSet(posting)
  BY <1>3, <1>4, <1>5, <1>6, FS_Subset
<1>8. Cardinality(Brokerage!Forgotten) \in Nat /\ Cardinality(posting) \in Nat
  BY <1>7, FS_CardinalityType
<1>9. hidden \in Nat /\ delayed \in Nat /\ accepted \in Nat
  BY <1>1 DEF Brokerage!TypeOK
<1> QED  BY <1>1, <1>2, <1>4, <1>7, <1>8, <1>9

LEMMA BrokerageInit == Brokerage!Init => BrokerageInv
<1> SUFFICES ASSUME Brokerage!Init PROVE BrokerageInv
  OBVIOUS
<1>1. MaxOrders \in Nat /\ MaxPushbacks \in Nat /\ None \notin Nat
  BY BrokerageAssumption DEF Brokerage!ConstantsAssumption
<1>2. Brokerage!TypeOK
  BY <1>1 DEF Brokerage!Init, Brokerage!TypeOK
<1>3. Known /\ CountedWhen /\ Brokerage!ExecutionCountedOnce
  BY <1>1 DEF Brokerage!Init, Known, CountedWhen, Brokerage!ExecutionCountedOnce,
              Brokerage!Ids
<1>4. Budget
  <2>1. Brokerage!Forgotten = {} /\ posting = {} /\ Overtaken = 0
    BY DEF Brokerage!Init, Brokerage!Forgotten, Overtaken
  <2>2. hidden = 0 /\ delayed = 0
    BY DEF Brokerage!Init
  <2> QED  BY <2>1, <2>2, FS_EmptySet DEF Budget
<1> QED  BY <1>2, <1>3, <1>4 DEF BrokerageInv

LEMMA BrokerageTypeStep ==
  ASSUME BrokerageInv, Brokerage!Next
  PROVE  Brokerage!TypeOK'
<1> USE DEF Brokerage!broker, Brokerage!replies
<1>1. /\ MaxOrders \in Nat /\ MaxPushbacks \in Nat /\ None \notin Nat
      /\ Brokerage!TypeOK /\ Known /\ Brokerage!Ids = 1 .. MaxOrders
  BY BrokerageAssumption DEF Brokerage!ConstantsAssumption, BrokerageInv, Brokerage!Ids
<1>2. ASSUME NEW t \in Brokerage!Submitters, Brokerage!Post(t)
      PROVE  Brokerage!TypeOK'
  BY <1>1, <1>2 DEF Brokerage!TypeOK, Brokerage!Post, Brokerage!AcceptNew
<1>3. ASSUME NEW t \in Brokerage!Submitters, Brokerage!PostPushedBack(t)
      PROVE  Brokerage!TypeOK'
  <2>1. CASE Brokerage!AcceptNew /\ hidden' = hidden + 1
    BY <1>1, <1>3, <2>1 DEF Brokerage!TypeOK, Brokerage!PostPushedBack,
                            Brokerage!PushedBack, Brokerage!AcceptNew
  <2>2. CASE UNCHANGED <<order, accepted, hidden>>
    BY <1>1, <1>3, <2>2 DEF Brokerage!TypeOK, Brokerage!PostPushedBack,
                            Brokerage!PushedBack
  <2> QED  BY <1>3, <2>1, <2>2 DEF Brokerage!PostPushedBack
<1>4. ASSUME NEW t \in Brokerage!Submitters, Brokerage!PostRefused(t)
      PROVE  Brokerage!TypeOK'
  BY <1>1, <1>4 DEF Brokerage!TypeOK, Brokerage!PostRefused
<1>5. CASE Brokerage!PollWakes
  BY <1>1, <1>5 DEF Brokerage!TypeOK, Brokerage!PollWakes
<1>6. CASE Brokerage!Completed
  <2>1. existing \in Brokerage!Ids
    BY <1>1, <1>6 DEF Brokerage!TypeOK, Brokerage!Completed, Known
  <2> QED  BY <1>1, <1>6, <2>1 DEF Brokerage!TypeOK, Brokerage!Completed
<1>7. CASE Brokerage!FilledPopped
  BY <1>1, <1>7 DEF Brokerage!TypeOK, Brokerage!FilledPopped
<1>8. CASE Brokerage!NotCompleted
  BY <1>1, <1>8 DEF Brokerage!TypeOK, Brokerage!NotCompleted
<1>9. CASE Brokerage!Deleted
  BY <1>1, <1>9 DEF Brokerage!TypeOK, Brokerage!Deleted
<1>10. CASE Brokerage!NotDeleted
  BY <1>1, <1>10 DEF Brokerage!TypeOK, Brokerage!NotDeleted
<1>11. CASE Brokerage!PollPushedBack
  BY <1>1, <1>11 DEF Brokerage!TypeOK, Brokerage!PollPushedBack, Brokerage!PushedBack
<1>12. ASSUME NEW o \in Brokerage!Ids, Brokerage!BrokerEnds(o)
       PROVE  Brokerage!TypeOK'
  BY <1>1, <1>12 DEF Brokerage!TypeOK, Brokerage!BrokerEnds
<1> QED  BY <1>2, <1>3, <1>4, <1>5, <1>6, <1>7, <1>8, <1>9, <1>10, <1>11, <1>12
         DEF Brokerage!Next

\* Orders are looked at one after the other, and counted once.
LEMMA KnownStep ==
  ASSUME BrokerageInv, Brokerage!Next
  PROVE  Known' /\ CountedWhen' /\ Brokerage!ExecutionCountedOnce'
<1> USE DEF Brokerage!broker, Brokerage!replies, Known, CountedWhen,
            Brokerage!ExecutionCountedOnce, Brokerage!Ids
<1>1. /\ MaxOrders \in Nat /\ None \notin Nat
      /\ Brokerage!TypeOK /\ Known /\ CountedWhen /\ Brokerage!ExecutionCountedOnce
  BY BrokerageAssumption DEF Brokerage!ConstantsAssumption, BrokerageInv
\* An order that is accepted is a new one.
<1>2. ASSUME Brokerage!AcceptNew, UNCHANGED <<poll, existing, counted>>,
             open_order' \in {open_order, accepted'}
      PROVE  Known' /\ CountedWhen' /\ Brokerage!ExecutionCountedOnce'
  <2>1. /\ accepted \in Nat /\ accepted < MaxOrders /\ accepted' = accepted + 1
        /\ order' = [order EXCEPT ![accepted + 1] = "live"]
        /\ order[accepted + 1] = "none" /\ counted[accepted + 1] = 0
    <3>1. accepted \in Nat /\ accepted < MaxOrders /\ accepted' = accepted + 1
      BY <1>1, <1>2 DEF Brokerage!AcceptNew, Brokerage!TypeOK
    <3>2. order[accepted + 1] = "none"
      BY <1>1, <3>1
    <3>3. counted[accepted + 1] = 0
      BY <1>1, <3>1, <3>2 DEF Brokerage!TypeOK
    <3> QED  BY <1>2, <3>1, <3>2, <3>3 DEF Brokerage!AcceptNew
  <2>2. \A o \in 1 .. MaxOrders :
          order'[o] = IF o = accepted + 1 THEN "live" ELSE order[o]
    BY <1>1, <2>1 DEF Brokerage!TypeOK
  <2>3. Known'
    BY <1>1, <1>2, <2>1, <2>2 DEF Brokerage!TypeOK
  <2>4. CountedWhen'
    BY <1>1, <1>2, <2>1 DEF Brokerage!TypeOK
  <2>5. Brokerage!ExecutionCountedOnce'
    BY <1>1, <1>2, <2>1, <2>2
  <2> QED  BY <2>3, <2>4, <2>5
\* An order that ends was not counted before it did.
<1>3. ASSUME NEW o \in Brokerage!Ids, order[o] = "live",
             NEW s \in {"filled", "canceled"}, order' = [order EXCEPT ![o] = s],
             UNCHANGED <<open_order, poll, existing, counted, accepted>>
      PROVE  Known' /\ CountedWhen' /\ Brokerage!ExecutionCountedOnce'
  <2>1. \A i \in 1 .. MaxOrders : order'[i] = IF i = o THEN s ELSE order[i]
    BY <1>1, <1>3 DEF Brokerage!TypeOK
  <2> QED  BY <1>1, <1>3, <2>1
<1>4. ASSUME NEW t \in Brokerage!Submitters, Brokerage!Post(t)
      PROVE  Known' /\ CountedWhen' /\ Brokerage!ExecutionCountedOnce'
  BY <1>2, <1>4 DEF Brokerage!Post
<1>5. ASSUME NEW t \in Brokerage!Submitters, Brokerage!PostPushedBack(t)
      PROVE  Known' /\ CountedWhen' /\ Brokerage!ExecutionCountedOnce'
  <2>1. CASE Brokerage!AcceptNew
    BY <1>2, <1>5, <2>1 DEF Brokerage!PostPushedBack
  <2>2. CASE UNCHANGED <<order, accepted>>
    BY <1>1, <1>5, <2>2 DEF Brokerage!PostPushedBack
  <2> QED  BY <1>5, <2>1, <2>2 DEF Brokerage!PostPushedBack
<1>6. ASSUME NEW t \in Brokerage!Submitters, Brokerage!PostRefused(t)
      PROVE  Known' /\ CountedWhen' /\ Brokerage!ExecutionCountedOnce'
  BY <1>1, <1>6 DEF Brokerage!PostRefused
<1>7. CASE Brokerage!PollWakes
  BY <1>1, <1>7 DEF Brokerage!PollWakes, Brokerage!TypeOK
<1>8. CASE Brokerage!Completed
  <2>1. existing \in 1 .. MaxOrders /\ counted[existing] = 0
    BY <1>1, <1>8 DEF Brokerage!TypeOK, Brokerage!Completed
  <2>2. \A o \in 1 .. MaxOrders : counted'[o] = IF o = existing THEN 1 ELSE counted[o]
    BY <1>1, <1>8, <2>1 DEF Brokerage!TypeOK, Brokerage!Completed
  <2> QED  BY <1>1, <1>8, <2>1, <2>2 DEF Brokerage!Completed
<1>9. CASE Brokerage!FilledPopped
  BY <1>1, <1>9 DEF Brokerage!FilledPopped
<1>10. CASE Brokerage!NotCompleted
  BY <1>1, <1>10 DEF Brokerage!NotCompleted
<1>11. CASE Brokerage!Deleted
  <2>1. existing \in 1 .. MaxOrders
    BY <1>1, <1>11 DEF Brokerage!TypeOK, Brokerage!Deleted
  <2>2. \A i \in 1 .. MaxOrders :
          order'[i] = IF i = existing THEN "canceled" ELSE order[i]
    BY <1>1, <1>11 DEF Brokerage!TypeOK, Brokerage!Deleted
  <2> QED  BY <1>1, <1>11, <2>1, <2>2 DEF Brokerage!Deleted
<1>12. CASE Brokerage!NotDeleted
  BY <1>1, <1>12 DEF Brokerage!NotDeleted
<1>13. CASE Brokerage!PollPushedBack
  <2>1. CASE UNCHANGED order
    BY <1>1, <1>13, <2>1 DEF Brokerage!PollPushedBack
  <2>2. CASE order[existing] = "live" /\ order' = [order EXCEPT ![existing] = "canceled"]
    <3>1. existing \in Brokerage!Ids
      BY <1>1, <1>13 DEF Brokerage!TypeOK, Brokerage!PollPushedBack
    <3> QED  BY <1>3, <1>13, <2>2, <3>1 DEF Brokerage!PollPushedBack
  <2> QED  BY <1>13, <2>1, <2>2 DEF Brokerage!PollPushedBack
<1>14. ASSUME NEW o \in Brokerage!Ids, Brokerage!BrokerEnds(o)
       PROVE  Known' /\ CountedWhen' /\ Brokerage!ExecutionCountedOnce'
  BY <1>3, <1>14 DEF Brokerage!BrokerEnds
<1> QED  BY <1>4, <1>5, <1>6, <1>7, <1>8, <1>9, <1>10, <1>11, <1>12, <1>13, <1>14
         DEF Brokerage!Next

LEMMA CountsChange ==
  ASSUME NEW S, IsFiniteSet(S), NEW x, NEW T \in SUBSET (S \cup {x})
  PROVE  /\ Cardinality(T) \in Nat /\ Cardinality(S) \in Nat
         /\ Cardinality(T) <= Cardinality(S) + 1
         /\ x \notin T => Cardinality(T) <= Cardinality(S)
         /\ x \in S => Cardinality(S \ {x}) = Cardinality(S) - 1
<1>1. IsFiniteSet(S \cup {x}) /\ Cardinality(S \cup {x}) <= Cardinality(S) + 1
      /\ Cardinality(S) \in Nat
  <2>1. Cardinality(S) \in Nat
    BY FS_CardinalityType
  <2>2. IsFiniteSet(S \cup {x})
    BY FS_AddElement
  <2>3. CASE x \in S
    <3>1. S \cup {x} = S
      BY <2>3
    <3>2. Cardinality(S \cup {x}) = Cardinality(S)
      BY <3>1, Zenon
    <3> QED  BY <2>1, <2>2, <3>2
  <2>4. CASE x \notin S
    <3>1. Cardinality(S \cup {x}) = Cardinality(S) + 1
      BY <2>4, FS_AddElement
    <3> QED  BY <2>1, <2>2, <3>1
  <2> QED  BY <2>3, <2>4
<1>2. Cardinality(T) \in Nat /\ Cardinality(T) <= Cardinality(S \cup {x})
      /\ Cardinality(S \cup {x}) \in Nat
  BY <1>1, FS_Subset, FS_CardinalityType
<1>3. x \notin T => Cardinality(T) <= Cardinality(S)
  <2>1. x \notin T => T \subseteq S
    OBVIOUS
  <2> QED  BY <2>1, FS_Subset
<1>4. x \in S => Cardinality(S \ {x}) = Cardinality(S) - 1
  BY FS_RemoveElement
<1> QED  BY <1>1, <1>2, <1>3, <1>4

\* What is lost sight of was posted by a submission that had slept, is left by
\* one that is going to be repeated, or was popped in the place of another.
LEMMA BudgetStep ==
  ASSUME BrokerageInv, Brokerage!Next
  PROVE  Budget'
<1> USE DEF Brokerage!broker, Brokerage!replies
<1> DEFINE F == Brokerage!Forgotten
           f == Cardinality(F)
           p == Cardinality(posting)
<1>1. /\ MaxOrders \in Nat /\ None \notin Nat /\ Brokerage!Ids = 1 .. MaxOrders
      /\ Brokerage!TypeOK /\ Known /\ CountedWhen /\ Brokerage!ExecutionCountedOnce
      /\ IsFiniteSet(F) /\ IsFiniteSet(posting)
      /\ f \in Nat /\ p \in Nat /\ hidden \in Nat /\ delayed \in Nat /\ accepted \in Nat
      /\ Overtaken \in 0 .. 1 /\ Overtaken' \in 0 .. 1
      /\ f + p + Overtaken <= hidden + delayed
  BY BrokerageSets DEF BrokerageInv, Overtaken, Budget
<1>2. Budget' <=> Cardinality(F') + Cardinality(posting') + Overtaken'
                    <= hidden' + delayed'
  BY DEF Budget
<1>3. ASSUME NEW x, F' \subseteq F \cup {x}
      PROVE  /\ Cardinality(F') \in Nat /\ Cardinality(F') <= f + 1
             /\ x \notin F' => Cardinality(F') <= f
  <2> HIDE DEF F
  <2> QED  BY <1>1, <1>3, CountsChange
\* Nothing is lost sight of, and the order of the symbol stays what it was.
<1>4. ASSUME F' \subseteq F, posting' = posting, Overtaken' <= Overtaken,
             hidden' = hidden, delayed' = delayed
      PROVE  Budget'
  <2>1. Cardinality(F') \in Nat /\ Cardinality(F') <= f
    <3>1. F' \subseteq F \cup {None} /\ None \notin F'
      BY <1>1, <1>4 DEF Brokerage!Forgotten
    <3> QED  BY <1>3, <3>1
  <2> HIDE DEF F, f, p
  <2> QED  BY <1>1, <1>2, <1>4, <2>1 DEF p
\* The order the poll had begun with is not the symbol's any more.
<1>5. ASSUME NEW x, F' \subseteq F \cup {x}, existing # None, existing' = None,
             open_order = existing => x \notin F',
             posting' = posting, hidden' = hidden, delayed' = delayed
      PROVE  Budget'
  <2>1. Overtaken' = 0 /\ (open_order # existing => Overtaken = 1)
    BY <1>5 DEF Overtaken
  <2>2. /\ Cardinality(F') \in Nat /\ Cardinality(F') <= f + 1
        /\ x \notin F' => Cardinality(F') <= f
    BY <1>3, <1>5
  <2> HIDE DEF F, f, p
  <2> QED  BY <1>1, <1>2, <1>5, <2>1, <2>2 DEF p
<1>6. ASSUME Brokerage!AcceptNew
      PROVE  /\ accepted' = accepted + 1 /\ accepted + 1 \in 1 .. MaxOrders
             /\ \A o \in 1 .. MaxOrders :
                  order'[o] = IF o = accepted + 1 THEN "live" ELSE order[o]
             /\ open_order # accepted + 1 /\ existing # accepted + 1
  <2>1. /\ accepted' = accepted + 1 /\ accepted + 1 \in 1 .. MaxOrders
        /\ \A o \in 1 .. MaxOrders :
             order'[o] = IF o = accepted + 1 THEN "live" ELSE order[o]
    BY <1>1, <1>6 DEF Brokerage!AcceptNew, Brokerage!TypeOK
  <2>2. open_order # accepted + 1 /\ existing # accepted + 1
    BY <1>1 DEF Known, Brokerage!TypeOK
  <2> QED  BY <2>1, <2>2
<1>7. ASSUME NEW t \in Brokerage!Submitters, Brokerage!Post(t)
      PROVE  Budget'
  <2>1. /\ Brokerage!AcceptNew /\ open_order' = accepted'
        /\ posting' = posting \ {t} /\ existing' = existing /\ counted' = counted
        /\ hidden' = hidden /\ delayed' = delayed
        /\ t \in posting \/ open_order = None
    BY <1>7 DEF Brokerage!Post, Brokerage!Asks
  <2>2. F' \subseteq F \cup {open_order} /\ None \notin F' /\ existing \notin F'
    BY <1>1, <1>6, <2>1 DEF Brokerage!Forgotten
  <2>3. /\ Cardinality(F') \in Nat /\ Cardinality(F') <= f + 1
        /\ open_order \in {None, existing} => Cardinality(F') <= f
    BY <1>3, <2>2
  <2>4. CASE t \in posting
    <3>1. Cardinality(posting') = p - 1
      BY <1>1, <2>1, <2>4, FS_RemoveElement
    <3>2. open_order \notin {None, existing} => Overtaken' <= Overtaken
      BY <2>1 DEF Overtaken
    <3> HIDE DEF F, f, p
    <3> QED  BY <1>1, <1>2, <2>1, <2>3, <3>1, <3>2
  <2>5. CASE t \notin posting
    <3>1. posting' = posting /\ open_order = None /\ existing' = None
      BY <1>1, <2>1, <2>5 DEF Known
    <3>2. Overtaken' = 0
      BY <3>1 DEF Overtaken
    <3>3. Cardinality(posting') = p
      BY <3>1
    <3> HIDE DEF F, f, p
    <3> QED  BY <1>1, <1>2, <2>1, <2>3, <3>1, <3>2, <3>3
  <2> QED  BY <2>4, <2>5
<1>8. ASSUME NEW t \in Brokerage!Submitters, Brokerage!PostPushedBack(t)
      PROVE  Budget'
  <2>1. /\ posting' = posting \cup {t} /\ delayed' = delayed + 1
        /\ UNCHANGED <<open_order, existing, counted>>
    BY <1>8 DEF Brokerage!PostPushedBack
  <2>2. Overtaken' = Overtaken
    BY <2>1 DEF Overtaken
  <2>3. Cardinality(posting') \in Nat /\ Cardinality(posting') <= p + 1
    BY <1>1, <2>1, CountsChange
  <2>4. CASE Brokerage!AcceptNew /\ hidden' = hidden + 1
    <3>1. F' \subseteq F \cup {accepted + 1}
      BY <1>1, <1>6, <2>1, <2>4 DEF Brokerage!Forgotten
    <3>2. Cardinality(F') \in Nat /\ Cardinality(F') <= f + 1
      BY <1>3, <3>1
    <3> HIDE DEF F, f, p
    <3> QED  BY <1>1, <1>2, <2>1, <2>2, <2>3, <2>4, <3>2
  <2>5. CASE UNCHANGED <<order, accepted, hidden>>
    <3>1. F' = F
      BY <2>1, <2>5 DEF Brokerage!Forgotten
    <3> HIDE DEF F, p
    <3> QED  BY <1>1, <1>2, <2>1, <2>2, <2>3, <2>5, <3>1
  <2> QED  BY <1>8, <2>4, <2>5 DEF Brokerage!PostPushedBack
<1>9. ASSUME NEW t \in Brokerage!Submitters, Brokerage!PostRefused(t)
      PROVE  Budget'
  <2>1. /\ t \in posting /\ posting' = posting \ {t} /\ hidden' = hidden /\ delayed' = delayed
        /\ UNCHANGED <<open_order, existing, counted, order>>
    BY <1>9 DEF Brokerage!PostRefused
  <2>2. F' = F /\ Overtaken' = Overtaken
    BY <2>1 DEF Brokerage!Forgotten, Overtaken
  <2>3. Cardinality(posting') = p - 1
    BY <1>1, <2>1, FS_RemoveElement
  <2> HIDE DEF F, p
  <2> QED  BY <1>1, <1>2, <2>1, <2>2, <2>3
<1>10. CASE Brokerage!PollWakes
  <2>1. /\ existing = None /\ existing' = open_order /\ open_order' = open_order
        /\ UNCHANGED <<order, counted, posting, hidden, delayed>>
    BY <1>1, <1>10 DEF Brokerage!PollWakes, Known
  <2>2. F' \subseteq F
    BY <1>1, <2>1 DEF Brokerage!Forgotten
  <2>3. Overtaken' = 0
    BY <2>1 DEF Overtaken
  <2>4. Overtaken' <= Overtaken
    BY <1>1, <2>3
  <2> QED  BY <1>4, <2>1, <2>2, <2>4
<1>11. CASE Brokerage!Completed
  <2>1. existing \in 1 .. MaxOrders
    BY <1>1, <1>11 DEF Brokerage!TypeOK, Brokerage!Completed, Known
  <2>2. \A o \in 1 .. MaxOrders \ {existing} : counted'[o] = counted[o]
    BY <1>1, <1>11, <2>1 DEF Brokerage!TypeOK, Brokerage!Completed
  <2>3. F' \subseteq F /\ Overtaken' = Overtaken
    BY <1>1, <1>11, <2>2 DEF Brokerage!Completed, Brokerage!Forgotten, Overtaken
  <2> QED  BY <1>1, <1>4, <1>11, <2>3 DEF Brokerage!Completed
<1>12. CASE Brokerage!FilledPopped
  <2>1. /\ existing \in 1 .. MaxOrders /\ existing # None /\ counted[existing] = 1
    BY <1>1, <1>12 DEF Brokerage!TypeOK, Brokerage!FilledPopped, Known, CountedWhen
  <2>2. order[existing] = "filled"
    BY <1>1, <2>1 DEF Brokerage!ExecutionCountedOnce
  <2>3. F' \subseteq F \cup {open_order} /\ existing \notin F'
    BY <1>1, <1>12, <2>1, <2>2 DEF Brokerage!FilledPopped, Brokerage!Forgotten
  <2> QED  BY <1>5, <1>12, <2>1, <2>3 DEF Brokerage!FilledPopped
<1>13. CASE Brokerage!NotCompleted
  <2>1. F' = F /\ Overtaken' = Overtaken
    BY <1>13 DEF Brokerage!NotCompleted, Brokerage!Forgotten, Overtaken
  <2> QED  BY <1>1, <1>4, <1>13, <2>1 DEF Brokerage!NotCompleted
<1>14. CASE Brokerage!Deleted
  <2>1. existing \in 1 .. MaxOrders /\ existing # None
    BY <1>1, <1>14 DEF Brokerage!TypeOK, Brokerage!Deleted, Known
  <2>2. \A i \in 1 .. MaxOrders :
          order'[i] = IF i = existing THEN "canceled" ELSE order[i]
    BY <1>1, <1>14 DEF Brokerage!TypeOK, Brokerage!Deleted
  <2>3. F' \subseteq F \cup {open_order} /\ existing \notin F'
    BY <1>1, <1>14, <2>1, <2>2 DEF Brokerage!Deleted, Brokerage!Forgotten
  <2> QED  BY <1>5, <1>14, <2>1, <2>3 DEF Brokerage!Deleted
<1>15. CASE Brokerage!NotDeleted
  <2>1. existing # None
    BY <1>1, <1>15 DEF Brokerage!NotDeleted, Known
  <2>2. F' \subseteq F \cup {existing} /\ (open_order = existing => existing \notin F')
    BY <1>15 DEF Brokerage!NotDeleted, Brokerage!Forgotten
  <2> QED  BY <1>5, <1>15, <2>1, <2>2 DEF Brokerage!NotDeleted
\* An order that ends was in view, or was lost sight of before.
<1>16. ASSUME NEW o \in 1 .. MaxOrders, order[o] = "live",
              NEW s \in {"filled", "canceled"}, order' = [order EXCEPT ![o] = s],
              UNCHANGED <<open_order, posting, existing, counted, hidden, delayed>>
       PROVE  Budget'
  <2>1. \A i \in 1 .. MaxOrders : order'[i] = IF i = o THEN s ELSE order[i]
    BY <1>1, <1>16 DEF Brokerage!TypeOK
  <2>2. F' \subseteq F /\ Overtaken' = Overtaken
    BY <1>1, <1>16, <2>1 DEF Brokerage!Forgotten, Overtaken
  <2> QED  BY <1>1, <1>4, <1>16, <2>2
<1>17. CASE Brokerage!PollPushedBack
  <2>1. UNCHANGED <<open_order, posting, existing, counted, hidden, delayed>>
    BY <1>17 DEF Brokerage!PollPushedBack
  <2>2. CASE UNCHANGED order
    <3>1. F' = F /\ Overtaken' = Overtaken
      BY <2>1, <2>2 DEF Brokerage!Forgotten, Overtaken
    <3> QED  BY <1>1, <1>4, <2>1, <3>1
  <2>3. CASE order[existing] = "live" /\ order' = [order EXCEPT ![existing] = "canceled"]
    <3>1. existing \in 1 .. MaxOrders
      BY <1>1, <1>17 DEF Brokerage!TypeOK, Brokerage!PollPushedBack, Known
    <3> QED  BY <1>16, <2>1, <2>3, <3>1
  <2> QED  BY <1>17, <2>2, <2>3 DEF Brokerage!PollPushedBack
<1>18. ASSUME NEW o \in Brokerage!Ids, Brokerage!BrokerEnds(o)
       PROVE  Budget'
  BY <1>1, <1>16, <1>18 DEF Brokerage!BrokerEnds
<1> QED  BY <1>7, <1>8, <1>9, <1>10, <1>11, <1>12, <1>13, <1>14, <1>15, <1>17, <1>18
         DEF Brokerage!Next

\* PushbacksAccounted, for any numbers of orders and of pushed-back requests:
\* orders out of sight are at most the submissions that were pushed back, an
\* accepted one counting twice, and no execution moves the position twice.
THEOREM PushbacksAccountedAlways == Brokerage!Spec => []PushbacksAccounted
<1>1. Brokerage!Init => BrokerageInv
  BY BrokerageInit
<1>2. BrokerageInv /\ [Brokerage!Next]_(Brokerage!vars) => BrokerageInv'
  <2>1. BrokerageInv /\ Brokerage!Next => BrokerageInv'
    BY BrokerageTypeStep, KnownStep, BudgetStep DEF BrokerageInv
  <2>2. BrokerageInv /\ UNCHANGED Brokerage!vars => BrokerageInv'
    BY DEF BrokerageInv, Brokerage!vars, Brokerage!broker, Brokerage!replies,
           Brokerage!TypeOK, Known, CountedWhen, Brokerage!ExecutionCountedOnce, Budget,
           Brokerage!Forgotten, Overtaken
  <2> QED  BY <2>1, <2>2
<1>3. BrokerageInv => PushbacksAccounted
  <2> SUFFICES ASSUME BrokerageInv PROVE PushbacksAccounted
    OBVIOUS
  <2> DEFINE f == Cardinality(Brokerage!Forgotten)
             p == Cardinality(posting)
  <2>1. f \in Nat /\ p \in Nat /\ hidden \in Nat /\ delayed \in Nat
    BY BrokerageSets DEF BrokerageInv
  <2>2. Overtaken \in 0 .. 1
    BY DEF Overtaken
  <2>3. f + p + Overtaken <= hidden + delayed
    BY DEF BrokerageInv, Budget
  <2>4. f <= hidden + delayed
    <3> HIDE DEF f, p
    <3> QED  BY <2>1, <2>2, <2>3
  <2>5. Brokerage!ForgottenPerPushback
    BY <2>4 DEF Brokerage!ForgottenPerPushback, Brokerage!Cardinality, Cardinality
  <2>6. Brokerage!ExecutionCountedOnce
    BY DEF BrokerageInv
  <2> QED  BY <2>5, <2>6 DEF PushbacksAccounted
<1> QED  BY <1>1, <1>2, <1>3, PTL DEF Brokerage!Spec
=============================================================================
