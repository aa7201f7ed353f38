------------------------ MODULE DatabaseSessionProofs ------------------------
(***************************************************************************)
(* Theorems about DatabaseSession: types, no transaction outlives its      *)
(* call, and every step is a step of StatementApi.                         *)
(***************************************************************************)
EXTENDS DatabaseSession, TLAPS

\* Server and client agree on the transaction while they are connected: the
\* session is in one exactly when libpqxx holds an active pqxx::work.
ViewsAgree ==
  /\ pc = "down" <=> link = "none"
  /\ link = "up" <=> session # "none"
  /\ link = "up" => (work = "active" <=> session \in {"open", "failed"})

\* What each point of the call knows of its transaction.
Progress ==
  /\ pc \in {"down", "ready"} <=> call = None
  /\ pc = "down" => work = "none"
  /\ pc \in {"execute", "rollback"} => work = "active" /\ ~committed
  /\ pc = "commit" =>
       IF committed THEN work = "aborted" /\ call.ending = "rollback"
                    ELSE work = "active" /\ call.ending = "return"
  /\ pc = "rollback" => call.ending = "rollback"
  /\ pc = "unwind" => work \in {"active", "in_doubt"}
  /\ pc = "release" => work \in {"committed", "aborted"}
  /\ pc \in {"execute", "rollback"} => done <= Len(call.statements)
  /\ pc = "commit" /\ ~committed => done = Len(call.statements)

\* The transaction has done the first statements of the call, and no others.
Uncommitted ==
  pc = "execute" \/ (pc = "commit" /\ ~committed) =>
    pending \in Outcomes(store, call, done)

IInv == TypeOK /\ NoTransactionLeft /\ ViewsAgree /\ Progress /\ Uncommitted

(***************************************************************************)
(* Calls and their outcomes                                                *)
(***************************************************************************)
LEMMA CallTypes ==
  ASSUME NEW c \in Calls
  PROVE  /\ c.statements \in Seq(Statements)
         /\ Len(c.statements) \in 1..MaxStatements
         /\ \A i \in 1..Len(c.statements) : c.statements[i] \in Statements
         /\ c.ending \in Endings
         /\ c # None
<1>1. \E n \in 1..MaxStatements : c.statements \in [1..n -> Statements]
  <2>1. CASE c.kind = "statement"
    <3>1. c.statements \in [1..1 -> Statements]
      BY <2>1 DEF Calls
    <3>2. 1 \in 1..MaxStatements
      BY BoundAssumption
    <3> QED BY <3>1, <3>2
  <2>2. CASE c.kind # "statement"
    <3>1. c.statements \in StatementSeqs
      BY <2>2 DEF Calls
    <3> QED BY <3>1 DEF StatementSeqs
  <2> QED BY <2>1, <2>2
<1>2. PICK n \in 1..MaxStatements : c.statements \in [1..n -> Statements]
  BY <1>1
<1>4. c.statements \in Seq(Statements) /\ Len(c.statements) = n
  BY <1>2, BoundAssumption
<1>3. c.ending \in Endings
  BY DEF Calls, Endings
<1> QED BY <1>2, <1>3, <1>4, NoneAssumption

\* Nothing executed leaves the database as it was.
LEMMA NothingDone ==
  ASSUME NEW d \in Databases, NEW c \in Calls
  PROVE  d \in Outcomes(d, c, 0)
<1> DEFINE path == [i \in 0..0 |-> d]
<1>1. path \in [0..0 -> Databases] /\ path[0] = d
  OBVIOUS
<1>2. \A i \in 1..0 : path[i] \in Effect(path[i - 1], c.statements[i])
  OBVIOUS
<1> QED BY <1>1, <1>2 DEF Outcomes

\* One statement more.
LEMMA OneMore ==
  ASSUME NEW d \in Databases, NEW c \in Calls, NEW n \in Nat, n < Len(c.statements),
         NEW e \in Outcomes(d, c, n), NEW f \in Effect(e, c.statements[n + 1])
  PROVE  f \in Databases /\ f \in Outcomes(d, c, n + 1)
<1>1. Len(c.statements) \in Nat /\ c.statements[n + 1] \in Statements
  BY CallTypes, BoundAssumption
<1>2. e \in Databases
  BY DEF Outcomes
<1>3. f \in Databases
  BY <1>1, <1>2, EffectAssumption
<1>4. PICK path \in [0..n -> Databases] :
        /\ path[0] = d /\ path[n] = e
        /\ \A i \in 1..n : path[i] \in Effect(path[i - 1], c.statements[i])
  BY DEF Outcomes
<1> DEFINE longer == [i \in 0..(n + 1) |-> IF i = n + 1 THEN f ELSE path[i]]
<1>5. longer \in [0..(n + 1) -> Databases]
  BY <1>3, <1>4
<1>6. longer[0] = d /\ longer[n + 1] = f
  BY <1>4
<1>7. ASSUME NEW i \in 1..(n + 1)
      PROVE  longer[i] \in Effect(longer[i - 1], c.statements[i])
  <2>1. CASE i = n + 1
    BY <1>4, <2>1
  <2>2. CASE i # n + 1
    <3>1. i \in 1..n /\ longer[i] = path[i] /\ longer[i - 1] = path[i - 1]
      BY <2>2
    <3> QED BY <1>4, <3>1
  <2> QED BY <2>1, <2>2
<1> HIDE DEF longer
<1> QED BY <1>3, <1>5, <1>6, <1>7 DEF Outcomes

(***************************************************************************)
(* Every step keeps the invariant                                          *)
(***************************************************************************)
LEMMA InitIInv == Init => IInv
<1>1. 0 \in 0..MaxStatements
  BY BoundAssumption
<1> QED
  BY <1>1
     DEF Init, IInv, TypeOK, PcStates, WorkStates, LinkStates, SessionStates,
         NoTransactionLeft, ViewsAgree, Progress, Uncommitted

LEMMA CallKeeps ==
  ASSUME IInv, Call \/ CheckOpen \/ Begin
  PROVE  IInv'
<1> USE DEF IInv, TypeOK, PcStates, WorkStates, LinkStates, SessionStates,
            NoTransactionLeft, ViewsAgree, Progress, Uncommitted
<1>1. CASE Call
  BY <1>1, CallTypes DEF Call
<1>2. CASE CheckOpen
  BY <1>2 DEF CheckOpen
<1>3. CASE Begin
  <2>1. call \in Calls /\ call' = call /\ Len(call.statements) \in 1..MaxStatements
    BY <1>3, CallTypes DEF Begin
  <2>2. /\ done' = 0 /\ committed' = FALSE /\ done' \in 0..MaxStatements
        /\ done' <= Len(call.statements)
        /\ pc = "begin" /\ store' = store
    BY <1>3, <2>1, BoundAssumption DEF Begin
  <2>3. CASE link = "up"
    <3>1. /\ work' = "active" /\ session' = "open" /\ pending' = store
          /\ pc' = "execute" /\ link' = link
      BY <1>3, <2>3 DEF Begin, Notice
    <3>2. pending' \in Outcomes(store', call', done')
      BY <2>1, <2>2, <3>1, NothingDone
    <3> QED BY <2>1, <2>2, <2>3, <3>1, <3>2
  <2>4. CASE Notice
    <3>1. /\ work' = "none" /\ pc' = "thrown" /\ link = "cut" /\ link' = "lost"
          /\ UNCHANGED <<session, pending>>
      BY <1>3, <2>4 DEF Begin, Notice
    <3> QED BY <2>1, <2>2, <3>1
  <2> QED BY <1>3, <2>3, <2>4 DEF Begin
<1> QED BY <1>1, <1>2, <1>3

LEMMA ExecuteKeeps ==
  ASSUME IInv, Execute \/ OperationEnds
  PROVE  IInv'
<1> USE DEF IInv, TypeOK, PcStates, WorkStates, LinkStates, SessionStates,
            NoTransactionLeft, ViewsAgree, Progress, Uncommitted
<1>1. call \in Calls /\ Len(call.statements) \in 1..MaxStatements
  BY CallTypes DEF Execute, OperationEnds
<1>2. CASE Execute
  <2>1. CASE link = "up" /\ pending' \in Effect(pending, call.statements[done + 1])
    <3>1. /\ done < Len(call.statements) /\ done' = done + 1 /\ done \in Nat
          /\ pc = "execute" /\ pending \in Outcomes(store, call, done)
          /\ UNCHANGED <<pc, link, session, store, call, committed, work>>
      BY <1>2, <2>1 DEF Execute, Notice
    <3>2. pending' \in Databases /\ pending' \in Outcomes(store, call, done + 1)
      BY <1>1, <2>1, <3>1, OneMore
    <3>3. done' \in 0..MaxStatements /\ done' <= Len(call.statements)
      BY <1>1, <3>1, BoundAssumption
    <3> QED BY <3>1, <3>2, <3>3
  <2>2. CASE ~(link = "up" /\ pending' \in Effect(pending, call.statements[done + 1]))
    <3>1. /\ pc = "execute" /\ pc' = "unwind"
          /\ \/ link = "up" /\ session' = "failed" /\ UNCHANGED link
             \/ link = "cut" /\ link' = "lost" /\ UNCHANGED session
          /\ UNCHANGED <<pending, done, store, call, committed, work>>
      BY <1>2, <2>2 DEF Execute, Notice
    <3> QED BY <3>1
  <2> QED BY <2>1, <2>2
<1>3. CASE OperationEnds
  BY <1>1, <1>3 DEF OperationEnds, Endings
<1> QED BY <1>2, <1>3

LEMMA EndKeeps ==
  ASSUME IInv, Rollback \/ Commit \/ Unwind \/ Release \/ Finish
  PROVE  IInv'
<1> USE DEF IInv, TypeOK, PcStates, WorkStates, LinkStates, SessionStates,
            NoTransactionLeft, ViewsAgree, Progress, Uncommitted
<1>1. CASE Rollback
  BY <1>1 DEF Rollback, Abort, Notice
<1>2. CASE Commit
  BY <1>2 DEF Commit, Notice
<1>3. CASE Unwind
  BY <1>3 DEF Unwind, Abort, Notice
<1>4. CASE Release
  BY <1>4 DEF Release
<1>5. CASE Finish
  BY <1>5 DEF Finish
<1> QED BY <1>1, <1>2, <1>3, <1>4, <1>5

LEMMA ConnectionKeeps ==
  ASSUME IInv, Break \/ Disconnect \/ Connect
  PROVE  IInv'
<1> USE DEF IInv, TypeOK, PcStates, WorkStates, LinkStates, SessionStates,
            NoTransactionLeft, ViewsAgree, Progress, Uncommitted
<1>1. CASE Break
  BY <1>1 DEF Break
<1>2. CASE Disconnect
  BY <1>2 DEF Disconnect
<1>3. CASE Connect
  BY <1>3 DEF Connect
<1> QED BY <1>1, <1>2, <1>3

LEMMA NextIInv == IInv /\ [Next]_vars => IInv'
<1> SUFFICES ASSUME IInv, [Next]_vars PROVE IInv'
  OBVIOUS
<1>1. CASE UNCHANGED vars
  BY <1>1 DEF vars, IInv, TypeOK, NoTransactionLeft, ViewsAgree, Progress, Uncommitted
<1> QED BY <1>1, CallKeeps, ExecuteKeeps, EndKeeps, ConnectionKeeps DEF Next, Step

LEMMA Invariance == Spec => []IInv
  BY InitIInv, NextIInv, PTL DEF Spec

\* The database, the call and both views of the transaction keep their types
\* for any statements and any bound on a transaction.
THEOREM SessionTypes == Spec => []TypeOK
<1>1. IInv => TypeOK
  BY DEF IInv
<1> QED BY <1>1, Invariance, PTL

\* However a call ended, by return, exception or broken connection, the next
\* one finds no transaction on the connection.
THEOREM NothingIsLeft == Spec => []NoTransactionLeft
<1>1. IInv => NoTransactionLeft
  BY DEF IInv
<1> QED BY <1>1, Invariance, PTL

(***************************************************************************)
(* Every step is a step of StatementApi, or none                           *)
(***************************************************************************)
Asked ==
  /\ call \in Calls /\ call # None
  /\ Len(call.statements) \in 1..MaxStatements

LEMMA InProgressIs ==
  ASSUME IInv, pc \notin {"down", "ready"}
  PROVE  Asked
  BY CallTypes DEF IInv, TypeOK, Progress, Asked

\* Both modules read the same calls.
LEMMA SameCalls == Api!Calls = Calls
  BY DEF Calls, Api!Calls, StatementSeqs, Api!StatementSeqs, Endings, Api!Endings

LEMMA SameEffects ==
  ASSUME NEW d, NEW c
  PROVE  /\ Api!Effects(d, c) = Effects(d, c)
         /\ Api!Refusable(d, c) = Refusable(d, c)
  BY DEF Effects, Api!Effects, Refusable, Api!Refusable, Outcomes, Api!Outcomes

LEMMA InitRefines == Init => Api!Init
  BY DEF Init, Api!Init, Answer

LEMMA BeforeRefines ==
  ASSUME IInv, IInv', Call \/ CheckOpen \/ Begin
  PROVE  Api!Next \/ UNCHANGED Api!vars
<1>1. CASE Call
  <2>1. Api!Ask
    BY <1>1, SameCalls DEF Call, Api!Ask, Answer, IInv, Progress
  <2> QED BY <2>1 DEF Api!Next
<1>2. CASE CheckOpen
  <2>1. CASE link = "lost"
    <3>1. Asked
      BY <1>2, InProgressIs DEF CheckOpen
    <3>2. Api!Abandon
      BY <1>2, <2>1, <3>1 DEF CheckOpen, Api!Abandon, Api!InProgress, Answer, Asked
    <3> QED BY <3>2 DEF Api!Next
  <2>2. CASE link # "lost"
    BY <1>2, <2>2 DEF CheckOpen, Api!vars, Answer
  <2> QED BY <2>1, <2>2
<1>3. CASE Begin
  <2>1. CASE link = "up"
    BY <1>3, <2>1 DEF Begin, Notice, Api!vars, Answer
  <2>2. CASE Notice
    <3>1. Asked
      BY <1>3, InProgressIs DEF Begin
    <3>2. /\ pc = "begin" /\ pc' = "thrown" /\ link' = "lost"
          /\ store' = store /\ call' = call
      BY <1>3, <2>2 DEF Begin, Notice
    <3>3. Api!Abandon
      BY <3>1, <3>2 DEF Api!Abandon, Api!InProgress, Answer, Asked
    <3> QED BY <3>3 DEF Api!Next
  <2> QED BY <1>3, <2>1, <2>2 DEF Begin
<1> QED BY <1>1, <1>2, <1>3

LEMMA ExecuteRefines ==
  ASSUME IInv, IInv', Execute \/ OperationEnds
  PROVE  Api!Next \/ UNCHANGED Api!vars
<1>1. Asked /\ pc = "execute"
  BY InProgressIs DEF Execute, OperationEnds
<1>2. CASE Execute
  <2>1. CASE pc' = "execute"
    BY <1>1, <1>2, <2>1 DEF Execute, Notice, Api!vars, Answer
  <2>2. CASE link = "up" /\ Effect(pending, call.statements[done + 1]) = {} /\ pc' = "unwind"
    <3>1. pending \in Outcomes(store, call, done) /\ done \in Nat
      BY <1>1 DEF IInv, TypeOK, Uncommitted
    <3>2. done + 1 \in 1..Len(call.statements)
      BY <1>1, <1>2, <3>1, BoundAssumption DEF Execute, Asked
    <3>3. Refusable(store, call)
      BY <2>2, <3>1, <3>2 DEF Refusable
    <3>4. store' = store /\ call' = call /\ link' = link
      BY <1>1, <1>2, <2>2 DEF Execute, Notice
    <3>5. Api!Refuse
      BY <1>1, <2>2, <3>3, <3>4, SameEffects
         DEF Api!Refuse, Api!InProgress, Answer, Asked
    <3> QED BY <3>5 DEF Api!Next
  <2>3. CASE Notice /\ pc' = "unwind"
    <3>1. store' = store /\ call' = call /\ link' = "lost"
      BY <1>2, <2>3 DEF Execute, Notice
    <3>2. Api!Abandon
      BY <1>1, <2>3, <3>1 DEF Api!Abandon, Api!InProgress, Answer, Asked
    <3> QED BY <3>2 DEF Api!Next
  <2> QED BY <1>1, <1>2, <2>1, <2>2, <2>3 DEF Execute
<1>3. CASE OperationEnds
  <2>1. CASE call.ending \in {"return", "rollback"}
    BY <1>1, <1>3, <2>1 DEF OperationEnds, Api!vars, Answer
  <2>2. CASE call.ending \in {"throw", "nested"}
    <3>1. Api!Refuse
      BY <1>1, <1>3, <2>2 DEF OperationEnds, Api!Refuse, Api!InProgress, Answer, Asked
    <3> QED BY <3>1 DEF Api!Next
  <2>3. call.ending \in {"return", "rollback", "throw", "nested"}
    BY <1>1, CallTypes DEF Asked, Endings
  <2> QED BY <2>1, <2>2, <2>3
<1> QED BY <1>2, <1>3

LEMMA CommitRefines ==
  ASSUME IInv, IInv', Commit
  PROVE  Api!Next
<1>1. Asked /\ pc = "commit" /\ call' = call
  BY InProgressIs DEF Commit
<1>2. CASE ~committed /\ link = "up"
  <2>1. store' = pending /\ call.ending = "return"
    BY <1>1, <1>2 DEF Commit, Notice, IInv, Progress
  <2>2. store' \in Effects(store, call)
    BY <1>1, <1>2, <2>1 DEF IInv, Progress, Uncommitted, Effects
  <2>3. CASE link' = link /\ pc' = "release"
    <3>1. Api!Perform
      BY <1>1, <1>2, <2>1, <2>2, <2>3, SameEffects DEF Api!Perform, Api!InProgress, Answer, Asked
    <3> QED BY <3>1 DEF Api!Next
  <2>4. CASE link' = "lost" /\ pc' = "unwind"
    <3>1. Api!Abandon
      BY <1>1, <1>2, <2>1, <2>2, <2>4, SameEffects DEF Api!Abandon, Api!InProgress, Answer, Asked
    <3> QED BY <3>1 DEF Api!Next
  <2> QED BY <1>2, <2>3, <2>4 DEF Commit, Notice
<1>3. CASE ~committed /\ link # "up"
  <2>1. pc' = "unwind" /\ link' = "lost" /\ store' = store
    BY <1>3 DEF Commit, Notice
  <2>2. Api!Abandon
    BY <1>1, <1>3, <2>1 DEF Api!Abandon, Api!InProgress, Answer, Asked
  <2> QED BY <2>2 DEF Api!Next
<1>4. CASE committed
  <2>1. pc' = "release" /\ UNCHANGED <<store, link>> /\ call.ending = "rollback"
    BY <1>1, <1>4 DEF Commit, IInv, Progress
  <2>2. Api!Discard
    BY <1>1, <2>1 DEF Api!Discard, Api!InProgress, Answer, Asked
  <2> QED BY <2>2 DEF Api!Next
<1> QED BY <1>2, <1>3, <1>4

LEMMA EndRefines ==
  ASSUME IInv, IInv', Rollback \/ Unwind \/ Release \/ Finish
  PROVE  Api!Next \/ UNCHANGED Api!vars
<1>1. CASE Rollback \/ Unwind
  <2>1. CASE link' = link
    BY <1>1, <2>1 DEF Rollback, Unwind, Api!vars, Answer
  <2>2. CASE link = "cut" /\ link' = "lost"
    BY <1>1, <2>2 DEF Rollback, Unwind, Api!vars, Answer
  <2> QED BY <1>1, <2>1, <2>2 DEF Rollback, Unwind, Abort, Notice
<1>2. CASE Release
  BY <1>2 DEF Release, Api!vars, Answer
<1>3. CASE Finish
  <2>1. Api!Finish
    BY <1>3, NoneAssumption DEF Finish, Api!Finish, Answer
  <2> QED BY <2>1 DEF Api!Next
<1> QED BY <1>1, <1>2, <1>3

LEMMA ConnectionRefines ==
  ASSUME IInv, IInv', Break \/ Disconnect \/ Connect
  PROVE  Api!Next
<1>1. CASE Break
  <2>1. Api!Outage
    BY <1>1 DEF Break, Api!Outage, Answer
  <2> QED BY <2>1 DEF Api!Next
<1>2. CASE Disconnect
  <2>1. Api!Die
    BY <1>2 DEF Disconnect, Api!Die, Answer
  <2> QED BY <2>1 DEF Api!Next
<1>3. CASE Connect
  <2>1. Api!Recover
    BY <1>3 DEF Connect, Api!Recover, Answer, IInv, Progress
  <2> QED BY <2>1 DEF Api!Next
<1> QED BY <1>1, <1>2, <1>3

LEMMA StepRefines == IInv /\ IInv' /\ [Next]_vars => [Api!Next]_Api!vars
<1> SUFFICES ASSUME IInv, IInv', [Next]_vars
             PROVE  Api!Next \/ UNCHANGED Api!vars
  OBVIOUS
<1>1. CASE UNCHANGED vars
  BY <1>1 DEF vars, Api!vars, Answer
<1> QED
  BY <1>1, BeforeRefines, ExecuteRefines, CommitRefines, EndRefines, ConnectionRefines
     DEF Next, Step

\* A call of the executor is one step of the database however its statements,
\* its COMMIT and the loss of the connection interleave: all of it or none,
\* and a caller that is not told of a lost connection knows which.
THEOREM SessionImplementsApi == Spec => ImplementsStatementApi
<1>1. Spec => Init /\ [][Next]_vars
  BY PTL DEF Spec
<1> QED
  BY <1>1, InitRefines, StepRefines, Invariance, PTL
     DEF ImplementsStatementApi, Api!Spec
===============================================================================
