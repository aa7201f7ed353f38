--------------------------- MODULE DatabaseSession ---------------------------
(***************************************************************************)
(* One call of QueryExecutor as the code performs it on its one            *)
(* PostgresConnection (src/src/repository/query_executor.cpp,              *)
(* postgres_connection.cpp, query_executor.hpp): look whether the          *)
(* connection is open, BEGIN, the statements, COMMIT, and the destructors  *)
(* that end a transaction an exception leaves behind.                      *)
(*                                                                         *)
(* The other side is a session of PostgreSQL; it ends when the connection  *)
(* breaks and takes its transaction with it, which libpqxx notices the     *)
(* next time it uses the connection.  No code calls ExecuteInTransaction   *)
(* yet: an operation given to it is taken to leave the commit to it and to *)
(* let exceptions pass.                                                    *)
(***************************************************************************)
EXTENDS Statements

VARIABLES
  store,      \* the tables, as committed
  pc,         \* where the call is
  call,       \* the call in progress, or None
  done,       \* how many of its statements were executed
  committed,  \* PostgresTransaction::m_committed
  work,       \* the pqxx::work of the call, as libpqxx sees it
  link,       \* the connection, as libpqxx sees it, and "cut": broken, unnoticed
  session,    \* the session of the server
  pending     \* the tables as the transaction of the session sees them

vars == <<store, pc, call, done, committed, work, link, session, pending>>

PcStates ==
  {"down", "ready", "check", "begin", "execute", "rollback", "commit",
   "unwind", "release", "thrown", "returned"}

WorkStates    == {"none", "active", "committed", "aborted", "in_doubt"}
LinkStates    == {"none", "up", "cut", "lost"}
SessionStates == {"none", "idle", "open", "failed"}

Init ==
  /\ store \in Databases
  /\ pc = "ready" /\ call = None
  /\ done = 0 /\ committed = FALSE /\ work = "none"
  /\ link = "up" /\ session = "idle"
  /\ pending = store

\* Using a connection that broke: libpqxx reports it and is_open() turns false.
Notice == link = "cut" /\ link' = "lost" /\ UNCHANGED <<session, pending>>

-------------------------------------------------------------------------------
(***************************************************************************)
(* The call                                                                *)
(***************************************************************************)
Call ==
  /\ pc = "ready"
  /\ call' \in Calls
  /\ pc' = "check"
  /\ UNCHANGED <<store, done, committed, work, link, session, pending>>

\* Mutant of CheckOpen: wait for the connection to come back.
CheckOpen_Waits ==
  /\ pc = "check" /\ link # "lost"
  /\ pc' = "begin"
  /\ UNCHANGED <<store, call, done, committed, work, link, session, pending>>

\* m_connection->IsOpen(), in QueryExecutor and again in PostgresConnection.
CheckOpen ==
  /\ pc = "check"
  /\ pc' = IF link = "lost" THEN "thrown" ELSE "begin"
  /\ UNCHANGED <<store, call, done, committed, work, link, session, pending>>

\* The constructor of pqxx::work sends BEGIN; when it throws there is no object
\* to destroy.
Begin ==
  /\ pc = "begin"
  /\ done' = 0 /\ committed' = FALSE
  /\ \/ /\ link = "up"
        /\ work' = "active" /\ session' = "open" /\ pending' = store
        /\ pc' = "execute"
        /\ UNCHANGED link
     \/ Notice /\ work' = "none" /\ pc' = "thrown"
  /\ UNCHANGED <<store, call>>

\* Mutant of Execute: no return after exec(query), so that a statement without
\* parameters is sent again by exec_params.
Execute_FallsThrough ==
  /\ pc = "execute" /\ done < Len(call.statements)
  /\ LET after == Effect(pending, call.statements[done + 1]) IN
     \/ link = "up" /\ pending' \in after /\ done' = done + 1 /\ UNCHANGED <<pc, link, session>>
     \/ /\ link = "up"
        /\ \E first \in after : pending' \in Effect(first, call.statements[done + 1])
        /\ done' = done + 2
        /\ UNCHANGED <<pc, link, session>>
     \/ /\ link = "up" /\ after = {} /\ session' = "failed"
        /\ pc' = "unwind" /\ UNCHANGED <<done, link, pending>>
     \/ Notice /\ pc' = "unwind" /\ UNCHANGED done
  /\ UNCHANGED <<store, call, committed, work>>

\* exec or exec_params: done, refused by the server, or never arrived.
Execute ==
  /\ pc = "execute" /\ done < Len(call.statements)
  /\ \/ /\ link = "up"
        /\ pending' \in Effect(pending, call.statements[done + 1])
        /\ done' = done + 1
        /\ UNCHANGED <<pc, link, session>>
     \/ /\ link = "up" /\ Effect(pending, call.statements[done + 1]) = {}
        /\ session' = "failed"
        /\ pc' = "unwind"
        /\ UNCHANGED <<done, link, pending>>
     \/ Notice /\ pc' = "unwind" /\ UNCHANGED done
  /\ UNCHANGED <<store, call, committed, work>>

\* What the operation does after its statements.  A call of the executor from
\* inside it meets the pqxx::work that is active and throws.
OperationEnds ==
  /\ pc = "execute" /\ done = Len(call.statements)
  /\ pc' = IF call.ending = "return" THEN "commit"
           ELSE IF call.ending = "rollback" THEN "rollback"
           ELSE "unwind"
  /\ UNCHANGED <<store, call, done, committed, work, link, session, pending>>

\* The abort of a pqxx::work: ROLLBACK, or nothing over a broken connection,
\* which it does not report.
Abort ==
  \/ link = "up" /\ session' = "idle" /\ UNCHANGED <<link, pending>>
  \/ Notice
  \/ link = "lost" /\ UNCHANGED <<link, session, pending>>

\* PostgresTransaction::Rollback
Rollback ==
  /\ pc = "rollback"
  /\ Abort
  /\ work' = "aborted" /\ committed' = TRUE
  /\ pc' = "commit"
  /\ UNCHANGED <<store, call, done>>

(***************************************************************************)
(* COMMIT: acknowledged; done, but the acknowledgement lost with the       *)
(* connection; or never arrived.  PostgresTransaction::Commit sets         *)
(* m_committed after commit() returned, and after a Rollback does nothing. *)
(***************************************************************************)
Commit ==
  /\ pc = "commit"
  /\ \/ /\ ~committed /\ link = "up"
        /\ store' = pending
        /\ \/ /\ work' = "committed" /\ session' = "idle"
              /\ committed' = TRUE
              /\ pc' = "release"
              /\ UNCHANGED link
           \/ /\ work' = "in_doubt" /\ session' = "none"
              /\ link' = "lost"
              /\ pc' = "unwind"
              /\ UNCHANGED committed
        /\ UNCHANGED pending
     \/ /\ ~committed /\ Notice
        /\ work' = "in_doubt" /\ pc' = "unwind"
        /\ UNCHANGED <<store, committed>>
     \/ /\ committed /\ pc' = "release"
        /\ UNCHANGED <<store, committed, work, link, session, pending>>
  /\ UNCHANGED <<call, done>>

\* Mutant of Unwind: a destructor that does not abort.
Unwind_Leaks ==
  /\ pc = "unwind"
  /\ work' = "none"
  /\ pc' = "thrown"
  /\ UNCHANGED <<store, call, done, committed, link, session, pending>>

\* Mutant of Unwind: a destructor that commits what it finds.
Unwind_Commits ==
  /\ pc = "unwind"
  /\ IF work = "active" /\ link = "up"
     THEN store' = pending /\ session' = "idle" /\ UNCHANGED <<link, pending>>
     ELSE UNCHANGED <<store, link, session, pending>>
  /\ work' = "none"
  /\ pc' = "thrown"
  /\ UNCHANGED <<call, done, committed>>

\* An exception leaves the call: ~PostgresTransaction, or ~work alone for a
\* single statement, aborts the transaction that is still active.
Unwind ==
  /\ pc = "unwind"
  /\ IF work = "active" THEN Abort ELSE UNCHANGED <<link, session, pending>>
  /\ work' = "none"
  /\ pc' = "thrown"
  /\ UNCHANGED <<store, call, done, committed>>

\* The call returns; no transaction is left to abort.
Release ==
  /\ pc = "release"
  /\ work' = "none"
  /\ pc' = "returned"
  /\ UNCHANGED <<store, call, done, committed, link, session, pending>>

Finish ==
  /\ pc \in {"thrown", "returned"}
  /\ call' = None
  /\ pc' = "ready"
  /\ UNCHANGED <<store, done, committed, work, link, session, pending>>

-------------------------------------------------------------------------------
(***************************************************************************)
(* The connection and the process                                          *)
(***************************************************************************)
\* The network or the server ends the session, and with it its transaction.
Break ==
  /\ link = "up"
  /\ link' = "cut" /\ session' = "none"
  /\ UNCHANGED <<store, pc, call, done, committed, work, pending>>

\* The process closes the connection (~PostgresConnection) between two calls, or
\* dies at any point.
Disconnect ==
  /\ pc # "down"
  /\ pc' = "down" /\ call' = None
  /\ link' = "none" /\ session' = "none" /\ work' = "none"
  /\ UNCHANGED <<store, done, committed, pending>>

\* The constructor of PostgresConnection in a new process connects; one that
\* cannot throws, and the process ends again.
Connect ==
  /\ pc = "down"
  /\ pc' = "ready"
  /\ link' = "up" /\ session' = "idle"
  /\ UNCHANGED <<store, call, done, committed, work, pending>>

Step ==
  \/ CheckOpen \/ Begin \/ Execute \/ OperationEnds \/ Rollback \/ Commit
  \/ Unwind \/ Release \/ Finish

Next == Call \/ Step \/ Break \/ Disconnect \/ Connect

\* Every call of libpqxx returns or throws, so the thread goes on.
Spec == Init /\ [][Next]_vars /\ WF_vars(Step)

-------------------------------------------------------------------------------
\* Types of the client's and the server's view.
TypeOK ==
  /\ store \in Databases /\ pending \in Databases
  /\ pc \in PcStates
  /\ call \in Calls \cup {None}
  /\ done \in 0..MaxStatements
  /\ committed \in BOOLEAN
  /\ work \in WorkStates
  /\ link \in LinkStates
  /\ session \in SessionStates

\* No transaction outlives its call, however the call ended: between two calls
\* the session of a working connection is idle and no pqxx::work is left, so the
\* next statement neither joins an old transaction nor is refused for it.
NoTransactionLeft ==
  pc \in {"ready", "check", "begin", "thrown", "returned"} =>
    /\ work = "none"
    /\ link = "up" => session = "idle"

\* A call ends: nothing waits for a lost connection.
EveryCallEnds == call # None ~> call = None

\* What the caller has been told: COMMIT decided, or an exception is under way.
Answer ==
  IF pc \in {"release", "returned"} THEN "ok"
  ELSE IF pc \in {"unwind", "thrown"} THEN "error"
  ELSE None

Api == INSTANCE StatementApi
         WITH available <- link = "up", asked <- call, answer <- Answer

\* DatabaseSession implements StatementApi: whatever the connection does, a call
\* of the executor commits all its statements or none, and says which unless
\* the connection was lost.
ImplementsStatementApi == Api!Spec
===============================================================================
