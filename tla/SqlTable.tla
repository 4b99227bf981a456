------------------------------ MODULE SqlTable ------------------------------
(***************************************************************************)
(* A table of the database with an INTEGER PRIMARY KEY, as a function from *)
(* the ids in it to the rows, and what INSERT and DELETE make of it.  The  *)
(* schema has no AUTOINCREMENT, so SQLite gives a new row the largest id   *)
(* in the table plus one, and the id of a deleted row can come back.       *)
(***************************************************************************)
EXTENDS Integers, FiniteSetsExt

Table(Ids, Row) == UNION {[S -> Row] : S \in SUBSET Ids}

FirstFreeId(table) == Min({i \in 1 .. Cardinality(DOMAIN table) + 1 : i \notin DOMAIN table})

NewId(table) == Max({0} \cup DOMAIN table) + 1

Put(table, id, row) == [i \in DOMAIN table \cup {id} |-> IF i = id THEN row ELSE table[i]]

Without(table, ids) == [i \in DOMAIN table \ ids |-> table[i]]
=============================================================================
