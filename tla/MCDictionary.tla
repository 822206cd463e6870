----------------------------- MODULE MCDictionary -----------------------------
(***************************************************************************)
(* One dictionary on a database that gives a transaction one snapshot.     *)
(***************************************************************************)
EXTENDS Dictionary

\* Every item has the same length, and a result of all the items is within its budget.
ItemSizes == [v \in Value |-> 1]
=============================================================================
