------------------------------ MODULE Statements ------------------------------
(***************************************************************************)
(* The calls of QueryExecutor (src/include/profile_service/repository/     *)
(* query_executor.hpp) and what their statements do to the database.       *)
(* Repository has the statements themselves; here any will do.             *)
(***************************************************************************)
EXTENDS Integers, Sequences

CONSTANTS
  Databases,      \* what the tables can hold
  Statements,     \* SQL statements with their parameters
  Effect(_, _),   \* the databases a statement can leave, none if it is refused
  MaxStatements,  \* bound on the statements of one transaction
  None            \* no call, no answer

ASSUME EffectAssumption ==
  \A d \in Databases, s \in Statements : Effect(d, s) \subseteq Databases

ASSUME BoundAssumption == MaxStatements \in Nat \ {0}

(***************************************************************************)
(* A call is one statement (ExecuteSelect, ExecuteModify) or an operation  *)
(* given to ExecuteInTransaction, which executes some and then returns,    *)
(* rolls back and returns, throws, or calls the executor again.            *)
(***************************************************************************)
Endings == {"return", "rollback", "throw", "nested"}

StatementSeqs == UNION {[1..n -> Statements] : n \in 1..MaxStatements}

Calls ==
  [kind : {"statement"}, statements : [1..1 -> Statements], ending : {"return"}]
  \cup [kind : {"transaction"}, statements : StatementSeqs, ending : Endings]

ASSUME NoneAssumption == None \notin Calls /\ None \notin {"ok", "error"}

\* The databases the first n statements of call can leave, run on d in turn.
Outcomes(d, call, n) ==
  {e \in Databases :
     \E path \in [0..n -> Databases] :
       /\ path[0] = d /\ path[n] = e
       /\ \A i \in 1..n : path[i] \in Effect(path[i - 1], call.statements[i])}

Effects(d, call) == Outcomes(d, call, Len(call.statements))

\* Some statement of call can be refused.
Refusable(d, call) ==
  \E n \in 1..Len(call.statements) :
    \E e \in Outcomes(d, call, n - 1) : Effect(e, call.statements[n]) = {}
===============================================================================
