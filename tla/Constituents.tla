---------------------------- MODULE Constituents ----------------------------
(***************************************************************************)
(* sp500_historical_constituents: from the present symbols of the index back *)
(* to those of a date, by two loops that go through the changes since then   *)
(* until a pass of them changes nothing.                                     *)
(***************************************************************************)
EXTENDS Integers, FiniteSets, SequencesExt

CONSTANTS
  Symbols,
  MaxRows,  \* bound: rows of a table
  None      \* an empty cell

ConstantsAssumption == IsFiniteSet(Symbols) /\ None \notin Symbols /\ MaxRows \in Nat

VARIABLES
  changes,     \* rows of a later date: [added, removed]
  renames,     \* rows of m_and_a_data: [from, to, later]
  symbols,     \* the present index
  unadjusted,
  loop         \* which is running: "changes", "renames", then "done" or "failed"
tables == <<changes, renames, symbols>>
vars == <<tables, unadjusted, loop>>

Change == [added : Symbols \cup {None}, removed : Symbols \cup {None}]
Rename == [from : Symbols, to : Symbols, later : BOOLEAN]
Rows(row) == UNION {[1 .. n -> row] : n \in 0 .. MaxRows}

\* One of the tables is empty: the loops follow one another.
Init ==
  /\ \/ changes \in Rows(Change) /\ renames = <<>>
     \/ changes = <<>> /\ renames \in Rows(Rename)
  /\ symbols \in SUBSET Symbols
  /\ unadjusted = symbols
  /\ loop = "changes"

-----------------------------------------------------------------------------
(* A pass goes through the rows with a set and whether it changed something. *)

Pass(Step(_, _), rows, set) ==
  FoldLeft(Step, [set |-> set, changed |-> FALSE, failed |-> FALSE], rows)

\* What was added since is removed; what was removed is only added if it is
\* there, which changes nothing and makes another pass.
Undo_AddsAgain(acc, row) ==
  LET added == row.added \in acc.set
      less == IF added THEN acc.set \ {row.added} ELSE acc.set
      removed == row.removed \in less
  IN [acc EXCEPT !.set = less, !.changed = @ \/ added \/ removed \/ row.removed # None]
Undo(acc, row) ==
  LET added == row.added \in acc.set
      less == IF added THEN acc.set \ {row.added} ELSE acc.set
      removed == row.removed \in less
  IN [acc EXCEPT !.set = less, !.changed = @ \/ added \/ removed]

UndoChanges ==
  /\ loop = "changes"
  /\ LET pass == Pass(Undo, changes, unadjusted)
     IN /\ unadjusted' = pass.set
        /\ loop' = IF pass.changed THEN "changes" ELSE "renames"
  /\ UNCHANGED tables

\* The names that became a symbol, whenever they did.
FormerNames(s) == {i \in DOMAIN renames : renames[i].to = s}
FormerName(s) == renames[CHOOSE i \in FormerNames(s) : TRUE].from

\* Only rows of a later date count (adjusted_symbols); item() wants exactly one
\* name.
Restore(acc, row) ==
  IF ~row.later \/ row.to \notin acc.set \/ acc.failed THEN acc
  ELSE IF Cardinality(FormerNames(row.to)) # 1 THEN [acc EXCEPT !.failed = TRUE]
  ELSE [acc EXCEPT !.set = (@ \cup {FormerName(row.to)}) \ {row.to},
                   !.changed = TRUE]

RestoreNames ==
  /\ loop = "renames"
  /\ LET pass == Pass(Restore, renames, unadjusted)
     IN /\ unadjusted' = pass.set
        /\ loop' = IF pass.failed THEN "failed"
                   ELSE IF pass.changed THEN "renames" ELSE "done"
  /\ UNCHANGED tables

Next == UndoChanges \/ RestoreNames

Spec == Init /\ [][Next]_vars
FairSpec == Spec /\ WF_vars(Next)

-----------------------------------------------------------------------------

\* Every variable has its type.
TypeOK ==
  /\ changes \in Rows(Change) /\ renames \in Rows(Rename)
  /\ symbols \subseteq Symbols /\ unadjusted \subseteq Symbols
  /\ loop \in {"changes", "renames", "done", "failed"}

AddedSince == {changes[i].added : i \in DOMAIN changes}
RemovedSince == {changes[i].removed : i \in DOMAIN changes}
Left == symbols \ AddedSince

\* Each symbol has one former name, which is not itself a later name.
PlainRenames ==
  \A i, j \in DOMAIN renames :
    (i # j => renames[i].to # renames[j].to) /\ renames[i].from # renames[j].to
NameThen(s) ==
  IF \E i \in FormerNames(s) : renames[i].later THEN FormerName(s) ELSE s

\* When the loops have ended, what is left is the present index less what was added
\* since, under its names of then, and no ambiguous name was met.
EndsThen ==
  PlainRenames =>
    /\ loop # "failed"
    /\ loop = "done" => unadjusted = {NameThen(s) : s \in Left}

\* The loops end, unless a symbol that was removed since is back in the index,
\* or a name went round; and then what is left is the present index less what was
\* added, under its names of then.  (What was removed is not brought back.)
ConstituentsOfThen ==
  PlainRenames /\ RemovedSince \cap Left = {}
    ~> loop = "done" /\ unadjusted = {NameThen(s) : s \in Left}
=============================================================================
