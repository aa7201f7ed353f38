-------------------------- MODULE MCDatabaseSession --------------------------
(***************************************************************************)
(* A database of rows under a primary key: an INSERT of a row that is      *)
(* there is refused, a DELETE of one that is not changes nothing.          *)
(***************************************************************************)
EXTENDS DatabaseSession

CONSTANTS r1, r2

Rows == {r1, r2}

Tables == SUBSET Rows

RowStatements == [verb : {"insert", "delete"}, row : Rows]

RowEffect(d, s) ==
  CASE s.verb = "delete" -> {d \ {s.row}}
    [] s.verb = "insert" /\ s.row \notin d -> {d \cup {s.row}}
    [] OTHER -> {}
===============================================================================
