----------------------------- MODULE StatementApi -----------------------------
(***************************************************************************)
(* What QueryExecutor promises the repositories, whatever its connection   *)
(* and its transactions do: a call is one step between being asked and     *)
(* being answered, and that step                                           *)
(*   - returns, all statements of the call being committed, or             *)
(*   - throws, none of them being committed, or                            *)
(*   - throws because the connection is gone, all or none being committed. *)
(* It is what ProfileService takes a Query or a Modify to be.              *)
(***************************************************************************)
EXTENDS Statements

VARIABLES
  store,      \* the tables, as committed
  available,  \* the connection works
  asked,      \* the call in progress, or None
  answer      \* "ok" when it returns, "error" when it throws, else None

vars == <<store, available, asked, answer>>

Init ==
  /\ store \in Databases
  /\ available = TRUE
  /\ asked = None
  /\ answer = None

Ask ==
  /\ asked = None
  /\ asked' \in Calls
  /\ UNCHANGED <<store, available, answer>>

InProgress == asked # None /\ answer = None

Perform ==
  /\ InProgress /\ available /\ asked.ending = "return"
  /\ store' \in Effects(store, asked)
  /\ answer' = "ok"
  /\ UNCHANGED <<available, asked>>

\* An operation that rolled back returns as well; that is what it asked for.
Discard ==
  /\ InProgress /\ asked.ending = "rollback"
  /\ answer' = "ok"
  /\ UNCHANGED <<store, available, asked>>

Refuse ==
  /\ InProgress
  /\ Refusable(store, asked) \/ asked.ending \in {"throw", "nested"}
  /\ answer' = "error"
  /\ UNCHANGED <<store, available, asked>>

Abandon ==
  /\ InProgress /\ available' = FALSE
  /\ \/ UNCHANGED store
     \/ available /\ asked.ending = "return" /\ store' \in Effects(store, asked)
  /\ answer' = "error"
  /\ UNCHANGED asked

Finish ==
  /\ answer # None
  /\ asked' = None
  /\ answer' = None
  /\ UNCHANGED <<store, available>>

Outage == available' = FALSE /\ UNCHANGED <<store, asked, answer>>

\* The process dies or closes its connection, and another one connects.
Die ==
  /\ available' = FALSE
  /\ asked' = None
  /\ answer' = None
  /\ UNCHANGED store

Recover ==
  /\ asked = None
  /\ available' = TRUE
  /\ UNCHANGED <<store, asked, answer>>

Next == Ask \/ Perform \/ Discard \/ Refuse \/ Abandon \/ Finish \/ Outage \/ Die \/ Recover

Spec == Init /\ [][Next]_vars
===============================================================================
