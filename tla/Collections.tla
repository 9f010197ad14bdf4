----------------------------- MODULE Collections -----------------------------
(***************************************************************************)
(* The collections of the provider (internal/store/store.go): a table of    *)
(* records under a primary key, and the five operations that handlers use.  *)
(* Each is one database statement.  A table is a function from keys to a    *)
(* record or None; keys are UUIDs, whose order is that of numbers taken in  *)
(* any order.  Records have a field "created".                              *)
(***************************************************************************)
EXTENDS Naturals

CONSTANTS Ids, None

ASSUME KeysAreNumbers == Ids \subseteq Nat /\ None \notin Ids

\* List: the rows that there are, ORDER BY created_at, id.
Rows(table) == {i \in Ids : table[i] # None}

Before(table, i, j) ==
    \/ table[i].created < table[j].created
    \/ table[i].created = table[j].created /\ i < j

\* what a search of a list stops at that goes forwards, or backwards
IsFirst(table, i, S) == i \in S /\ \A j \in S \ {i} : Before(table, i, j)
IsLast(table, i, S) == i \in S /\ \A j \in S \ {i} : Before(table, j, i)

\* Get: found, or gorm.ErrRecordNotFound.
Has(table, i) == table[i] # None

\* Create: an INSERT, which the primary key refuses when the row is there.
Created(table, i, row) == [table EXCEPT ![i] = IF @ = None THEN row ELSE @]

\* Mutant of Saved: the fields of the record that are not given are dropped.
SavedOnly(table, i, row) == [table EXCEPT ![i] = [created |-> row.created]]

\* Mutant of Saved: that the statement failed is not noticed.
SavedNowhere(table, i, row) == table

\* Update: Save writes every column, and inserts the row if it is not there.
Saved(table, i, row) == [table EXCEPT ![i] = row]

\* Delete: no error when there is no such row.
Deleted(table, i) == [table EXCEPT ![i] = None]
===============================================================================
