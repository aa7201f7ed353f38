------------------------- MODULE ServerLifecycleProofs -------------------------
(***************************************************************************)
(* Theorems about ServerLifecycle: its invariants, and that it implements  *)
(* ServerApi.                                                              *)
(***************************************************************************)
EXTENDS ServerLifecycle, SequenceTheorems, TLAPS

(***************************************************************************)
(* The inductive invariant: the type invariant and, for each result, what  *)
(* makes it survive a step.                                                *)
(***************************************************************************)

\* Where the main thread is says whether m_impl lives and the thread exists.
MainOwnsThread ==
  /\ main \in {"construct", "start"} => worker = "none"
  /\ main \notin {"construct", "exited", "killed"} => implAlive
  /\ Gone => worker \in {"none", "done"}

\* Between its look at m_running and the end of Handle the worker holds the one
\* request Stop does not prevent; after it, the worker looks again.
LateSoFar ==
  /\ running => late = 0
  /\ worker \in {"none", "setup", "accept", "read", "handle"} => late = 0

\* The request being handled was sent in full, and Stop's own connection never is.
ServedWasSent ==
  /\ worker \in {"read", "handle", "write"} => serving \in Connections
  /\ worker \in {"handle", "write"} => conn[serving] \in {"sent", "left"}
  /\ conn[Stopper] \in {"idle", "open", "hungup", "reset"}

\* A handled request is about to be answered, the answer was written or its write
\* failed, or nobody waits for it.
HandledFate ==
  main # "killed" =>
    \A c \in handled \cap Clients :
      (worker = "write" /\ serving = c) \/ conn[c] \in {"answered", "broken", "left"}

IInv == TypeOK /\ MainOwnsThread /\ AtMostOneLate /\ LateSoFar /\ ServedWasSent /\ HandledFate

\* Closing sockets resets connections that still want something, and only those.
LEMMA ResetOnly ==
  ASSUME TypeOK, NEW S
  PROVE  /\ ResetOf(S) \in [Connections -> ConnStates]
         /\ \A c \in Connections :
              \/ ResetOf(S)[c] = conn[c]
              \/ conn[c] \in {"open", "sent"} /\ ResetOf(S)[c] = "reset"
  BY DEF TypeOK, ResetOf, ConnStates

\* The queue after the oldest connection left it.
LEMMA QueueType ==
  ASSUME TypeOK
  PROVE  /\ backlog # <<>> => /\ Head(backlog) \in Connections
                              /\ Tail(backlog) \in Seq(Connections)
                              /\ Len(Tail(backlog)) <= BacklogSize
         /\ \A c \in Connections : Len(backlog) < BacklogSize =>
              /\ Append(backlog, c) \in Seq(Connections)
              /\ Len(Append(backlog, c)) <= BacklogSize
  BY HeadTailProperties, AppendProperties, LenProperties, LimitsAssumption DEF TypeOK

LEMMA EmptyQueue == <<>> \in Seq(Connections) /\ Len(<<>>) <= BacklogSize
  BY EmptySeq, LimitsAssumption

LEMMA InitIInv == Init => IInv
<1> SUFFICES ASSUME Init PROVE IInv
  OBVIOUS
<1>1. TypeOK
  <2>1. backlog \in Seq(Connections) /\ Len(backlog) <= BacklogSize
    BY EmptyQueue DEF Init
  <2>2. signals \in 0..MaxSignals /\ late \in Nat
    BY LimitsAssumption DEF Init
  <2>3. conn \in [Connections -> ConnStates]
    BY DEF Init, ConnStates
  <2> QED BY <2>1, <2>2, <2>3 DEF Init, TypeOK, MainStates, Joining, WorkerStates
<1>2. MainOwnsThread /\ AtMostOneLate /\ LateSoFar
  BY DEF Init, MainOwnsThread, Gone, AtMostOneLate, LateSoFar
<1>3. ServedWasSent /\ HandledFate
  BY DEF Init, ServedWasSent, HandledFate, Connections
<1> QED BY <1>1, <1>2, <1>3 DEF IInv

(***************************************************************************)
(* Each kind of step keeps it                                              *)
(***************************************************************************)
LEMMA MainKeeps ==
  ASSUME IInv, Main
  PROVE  IInv'
<1> USE DEF Gone, MainStates, Joining, net, signal, ghosts
<1>1. Stopper \in Connections /\ Stopper \notin Clients
  BY ConnectionsAssumption DEF Connections
<1>2. TypeOK
  BY DEF IInv
<1>3. CASE MainConstruct \/ MainStart
  BY <1>3 DEF IInv, MainConstruct, MainStart, TypeOK, WorkerStates, MainOwnsThread,
              AtMostOneLate, LateSoFar, ServedWasSent, HandledFate
<1>4. CASE MainMask \/ MainSigwait \/ MainStop \/ MainRequestStop
  <2>1. /\ main' \in MainStates \ {"construct", "start", "exited", "killed"}
        /\ main \in MainStates \ {"construct", "start", "exited", "killed"}
        /\ running' \in {running, FALSE}
        /\ stopRequested' \in {stopRequested, TRUE}
        /\ pending' \in {pending, FALSE}
        /\ UNCHANGED <<worker, implAlive, listening, backlog, serving, conn, signals, isInit,
                       handled, late>>
    BY <1>4 DEF MainMask, MainSigwait, MainStop, MainRequestStop
  <2>2. TypeOK'
    BY <1>2, <2>1 DEF TypeOK
  <2>3. MainOwnsThread'
    BY <2>1 DEF IInv, MainOwnsThread
  <2>4. AtMostOneLate' /\ LateSoFar'
    <3>1. running' => running
      BY <1>4, Zenon DEF MainMask, MainSigwait, MainStop, MainRequestStop
    <3> QED BY <2>1, <3>1 DEF IInv, AtMostOneLate, LateSoFar
  <2>5. ServedWasSent' /\ HandledFate'
    BY <2>1 DEF IInv, ServedWasSent, HandledFate
  <2> QED BY <2>2, <2>3, <2>4, <2>5 DEF IInv
<1>5. CASE MainConnect
  <2>1. TypeOK'
    BY <1>1, <1>2, <1>5, QueueType DEF MainConnect, TypeOK, ConnStates
  <2>2. ServedWasSent' /\ HandledFate'
    BY <1>1, <1>2, <1>5 DEF IInv, MainConnect, TypeOK, ServedWasSent, HandledFate
  <2> QED BY <1>5, <2>1, <2>2
          DEF IInv, MainConnect, MainOwnsThread, AtMostOneLate, LateSoFar
<1>6. CASE MainShutdown
  <2>1. TypeOK'
    BY <1>2, <1>6 DEF MainShutdown, TypeOK, ConnStates
  <2>2. ServedWasSent' /\ HandledFate'
    BY <1>1, <1>2, <1>6 DEF IInv, MainShutdown, TypeOK, ServedWasSent, HandledFate
  <2> QED BY <1>6, <2>1, <2>2
          DEF IInv, MainShutdown, MainOwnsThread, AtMostOneLate, LateSoFar
<1>7. CASE MainJoin \/ MainDestroy \/ MainReap
  <2>1. /\ main' \in {"destroy", "reap", "exited"}
        /\ main \in {"join", "unheard", "destroy", "reap"}
        /\ main' = "exited" => worker = "done"
        /\ implAlive' \in {implAlive, FALSE}
        /\ main' # "exited" => implAlive' = implAlive
        /\ running' \in {running, FALSE}
        /\ stopRequested' \in {stopRequested, TRUE}
        /\ UNCHANGED <<worker, listening, backlog, serving, conn, pending, signals, isInit,
                       handled, late>>
    BY <1>7 DEF MainJoin, Joining, MainDestroy, MainReap
  <2>2. TypeOK'
    BY <1>2, <2>1 DEF TypeOK
  <2>3. MainOwnsThread'
    BY <2>1 DEF IInv, MainOwnsThread
  <2>4. AtMostOneLate' /\ LateSoFar'
    <3>1. running' => running
      BY <1>7, Zenon DEF MainJoin, MainDestroy, MainReap
    <3> QED BY <2>1, <3>1 DEF IInv, AtMostOneLate, LateSoFar
  <2>5. ServedWasSent' /\ HandledFate'
    BY <2>1 DEF IInv, ServedWasSent, HandledFate
  <2> QED BY <2>2, <2>3, <2>4, <2>5 DEF IInv
<1> QED BY <1>3, <1>4, <1>5, <1>6, <1>7 DEF Main

\* The worker leaves the block of the sockets with nothing half done.
LEMMA ClosingKeeps ==
  ASSUME IInv, SocketsClose, worker # "write", worker' \in WorkerStates,
         worker' \notin {"read", "handle", "write"},
         UNCHANGED <<main, running, stopRequested, implAlive, signal, ghosts>>
  PROVE  TypeOK' /\ ServedWasSent' /\ HandledFate'
<1>1. TypeOK
  BY DEF IInv
<1>2. PICK S : conn' = ResetOf(S)
  BY DEF SocketsClose
<1>3. TypeOK'
  BY <1>1, <1>2, ResetOnly, EmptyQueue DEF SocketsClose, TypeOK, signal, ghosts
<1>4. Stopper \in Connections /\ Clients \subseteq Connections
  BY DEF Connections
<1>5. ServedWasSent'
  BY <1>1, <1>2, <1>4, ResetOnly DEF IInv, ServedWasSent
<1>6. HandledFate'
  BY <1>1, <1>2, <1>4, ResetOnly DEF IInv, HandledFate, ghosts
<1> QED BY <1>3, <1>5, <1>6

LEMMA WorkerKeeps ==
  ASSUME IInv, Worker
  PROVE  IInv'
<1> USE DEF Gone, WorkerStates, net, signal, ghosts
<1>1. Stopper \in Connections /\ Clients \subseteq Connections
  BY DEF Connections
<1>2. TypeOK
  BY DEF IInv
<1>3. CASE WorkerSetup
  <2>1. TypeOK' /\ ServedWasSent' /\ HandledFate'
    <3>1. CASE SocketsClose
      BY <1>3, <3>1, ClosingKeeps DEF WorkerSetup
    <3>2. CASE ~SocketsClose
      BY <1>2, <1>3, <3>2 DEF WorkerSetup, IInv, TypeOK, ServedWasSent, HandledFate
    <3> QED BY <3>1, <3>2
  <2> QED BY <1>3, <2>1 DEF WorkerSetup, IInv, MainOwnsThread, AtMostOneLate, LateSoFar
<1>4. CASE WorkerCheck
  <2>1. TypeOK' /\ ServedWasSent' /\ HandledFate'
    <3>1. CASE SocketsClose
      BY <1>4, <3>1, ClosingKeeps DEF WorkerCheck
    <3>2. CASE ~SocketsClose
      BY <1>2, <1>4, <3>2 DEF WorkerCheck, IInv, TypeOK, ServedWasSent, HandledFate
    <3> QED BY <3>1, <3>2
  <2> QED BY <1>4, <2>1 DEF WorkerCheck, IInv, MainOwnsThread, AtMostOneLate, LateSoFar
<1>5. CASE WorkerAccept
  <2>1. \/ conn' = conn
        \/ conn' = ResetOf({Head(backlog)})
    BY <1>5 DEF WorkerAccept
  <2>2. TypeOK'
    BY <1>2, <1>5, <2>1, QueueType, ResetOnly DEF WorkerAccept, TypeOK
  <2>3. ServedWasSent'
    BY <1>1, <1>2, <1>5, <2>1, QueueType, ResetOnly DEF WorkerAccept, IInv, ServedWasSent
  <2>4. HandledFate'
    BY <1>1, <1>2, <1>5, <2>1, ResetOnly DEF WorkerAccept, IInv, HandledFate
  <2> QED BY <1>5, <2>2, <2>3, <2>4
          DEF WorkerAccept, IInv, MainOwnsThread, AtMostOneLate, LateSoFar
<1>6. CASE WorkerRead
  <2>1. \/ conn' = conn
        \/ conn' = ResetOf({serving})
    BY <1>6 DEF WorkerRead
  <2>2. TypeOK'
    BY <1>2, <1>6, <2>1, ResetOnly DEF WorkerRead, TypeOK
  <2>3. ServedWasSent'
    BY <1>1, <1>2, <1>6, <2>1, ResetOnly DEF WorkerRead, IInv, ServedWasSent
  <2>4. HandledFate'
    BY <1>1, <1>2, <1>6, <2>1, ResetOnly DEF WorkerRead, IInv, HandledFate
  <2> QED BY <1>6, <2>2, <2>3, <2>4
          DEF WorkerRead, IInv, MainOwnsThread, AtMostOneLate, LateSoFar
<1>7. CASE WorkerHandle
  <2>1. CASE SocketsClose /\ worker' = "catch" /\ UNCHANGED ghosts
    <3>1. TypeOK' /\ ServedWasSent' /\ HandledFate'
      BY <1>7, <2>1, ClosingKeeps DEF WorkerHandle
    <3> QED BY <1>7, <2>1, <3>1
            DEF WorkerHandle, IInv, MainOwnsThread, AtMostOneLate, LateSoFar
  <2>2. CASE /\ worker' = "write" /\ handled' = handled \cup {serving} /\ UNCHANGED net
             /\ late' = IF running THEN late ELSE late + 1
    <3>1. late = 0 /\ serving \in Connections
      BY <1>7 DEF WorkerHandle, IInv, LateSoFar, ServedWasSent
    <3>2. TypeOK'
      BY <1>2, <1>7, <2>2, <3>1 DEF WorkerHandle, TypeOK
    <3>3. ServedWasSent' /\ HandledFate'
      BY <1>7, <2>2, <3>1 DEF WorkerHandle, IInv, ServedWasSent, HandledFate
    <3> QED BY <1>7, <2>2, <3>1, <3>2, <3>3
            DEF WorkerHandle, IInv, MainOwnsThread, AtMostOneLate, LateSoFar
  <2> QED BY <1>7, <2>1, <2>2 DEF WorkerHandle
<1>8. CASE WorkerWrite
  <2>1. serving \in Connections /\ conn[serving] \in {"sent", "left"} /\ serving # Stopper
    BY <1>8 DEF WorkerWrite, IInv, ServedWasSent
  <2>2. PICK to \in {"answered", "broken"} : Told(to)
    BY <1>8 DEF WorkerWrite
  <2>3. TypeOK'
    BY <1>2, <1>8, <2>2 DEF WorkerWrite, Told, TypeOK, ConnStates
  <2>4. ServedWasSent'
    BY <1>1, <1>2, <1>8, <2>1, <2>2 DEF WorkerWrite, Told, IInv, TypeOK, ServedWasSent
  <2>5. HandledFate'
    BY <1>1, <1>2, <1>8, <2>1, <2>2 DEF WorkerWrite, Told, IInv, TypeOK, HandledFate
  <2> QED BY <1>8, <2>3, <2>4, <2>5
          DEF WorkerWrite, IInv, MainOwnsThread, AtMostOneLate, LateSoFar
<1>9. CASE WorkerCatch \/ WorkerLeaves
  <2>1. /\ worker \in {"catch", "leaving"} /\ worker' \in {"leaving", "done"}
        /\ running' \in {running, FALSE}
        /\ UNCHANGED <<main, stopRequested, implAlive, listening, backlog, serving, conn,
                       pending, signals, isInit, handled, late>>
    BY <1>9 DEF WorkerCatch, WorkerLeaves
  <2>2. TypeOK'
    BY <1>2, <2>1 DEF TypeOK
  <2>3. MainOwnsThread'
    BY <2>1 DEF IInv, MainOwnsThread
  <2>4. AtMostOneLate' /\ LateSoFar'
    <3>1. running' => running
      BY <1>9, Zenon DEF WorkerCatch, WorkerLeaves
    <3> QED BY <2>1, <3>1 DEF IInv, AtMostOneLate, LateSoFar
  <2>5. ServedWasSent' /\ HandledFate'
    BY <2>1 DEF IInv, ServedWasSent, HandledFate
  <2> QED BY <2>2, <2>3, <2>4, <2>5 DEF IInv
<1> QED BY <1>3, <1>4, <1>5, <1>6, <1>7, <1>8, <1>9 DEF Worker

LEMMA ClientKeeps ==
  ASSUME IInv, NEW c \in Clients, Client(c)
  PROVE  IInv'
<1> USE DEF net, signal, ghosts
<1>1. c \in Connections /\ c # Stopper /\ Stopper \in Connections /\ Clients \subseteq Connections
  BY ConnectionsAssumption DEF Connections
<1>2. TypeOK
  BY DEF IInv
<1>3. PICK to \in ConnStates : /\ conn' = [conn EXCEPT ![c] = to]
                               /\ \/ conn[c] = "idle" /\ to = "open"
                                  \/ conn[c] = "open" /\ to \in {"sent", "hungup"}
                                  \/ conn[c] = "sent" /\ to = "left"
  BY DEF Client, ClientConnect, ClientSend, ClientHangUp, ClientLeave, ClientActs, ConnStates
<1>4. /\ backlog' \in Seq(Connections) /\ Len(backlog') <= BacklogSize
      /\ UNCHANGED <<main, worker, running, stopRequested, implAlive, listening, serving,
                     signal, ghosts>>
  BY <1>1, <1>2, QueueType
     DEF Client, ClientConnect, ClientSend, ClientHangUp, ClientLeave, ClientActs, TypeOK
<1>5. TypeOK'
  BY <1>2, <1>3, <1>4 DEF TypeOK
<1>6. ServedWasSent'
  BY <1>1, <1>2, <1>3, <1>4 DEF IInv, TypeOK, ServedWasSent
<1>7. HandledFate'
  BY <1>1, <1>2, <1>3, <1>4 DEF IInv, TypeOK, HandledFate
<1> QED BY <1>4, <1>5, <1>6, <1>7
        DEF IInv, MainOwnsThread, Gone, AtMostOneLate, LateSoFar

LEMMA SignalKeeps ==
  ASSUME IInv, Signal
  PROVE  IInv'
<1> USE DEF Gone, net, signal, ghosts
<1>1. TypeOK
  BY DEF IInv
<1>2. signals' \in 0..MaxSignals
  BY <1>1, LimitsAssumption DEF Signal, TypeOK
<1>3. CASE SignalTaken \/ SignalPends \/ SignalLost
  <2>1. /\ \/ main' = main
           \/ main = "sigwait" /\ main' = "stop"
        /\ pending' \in {pending, TRUE}
        /\ UNCHANGED <<worker, running, stopRequested, implAlive, listening, backlog, serving,
                       conn, isInit, handled, late>>
    BY <1>3 DEF SignalTaken, SignalPends, SignalLost
  <2>2. TypeOK'
    BY <1>1, <1>2, <2>1 DEF TypeOK, MainStates, Joining
  <2>3. MainOwnsThread'
    BY <2>1 DEF IInv, MainOwnsThread
  <2>4. AtMostOneLate' /\ LateSoFar'
    BY <2>1 DEF IInv, AtMostOneLate, LateSoFar
  <2>5. ServedWasSent' /\ HandledFate'
    BY <2>1 DEF IInv, ServedWasSent, HandledFate
  <2> QED BY <2>2, <2>3, <2>4, <2>5 DEF IInv
<1>4. CASE SignalKills
  <2>1. PICK S : conn' = ResetOf(S)
    BY <1>4 DEF SignalKills, SocketsClose
  <2>2. TypeOK'
    BY <1>1, <1>2, <1>4, <2>1, ResetOnly, EmptyQueue
       DEF SignalKills, SocketsClose, TypeOK, MainStates, Joining, WorkerStates
  <2>3. Stopper \in Connections
    BY DEF Connections
  <2>4. ServedWasSent' /\ HandledFate'
    BY <1>1, <1>4, <2>1, <2>3, ResetOnly DEF SignalKills, IInv, ServedWasSent, HandledFate
  <2> QED BY <1>4, <2>2, <2>4
          DEF SignalKills, IInv, MainOwnsThread, AtMostOneLate, LateSoFar
<1> QED BY <1>3, <1>4 DEF Signal

LEMMA NextIInv == IInv /\ [Next]_vars => IInv'
<1> SUFFICES ASSUME IInv, [Next]_vars PROVE IInv'
  OBVIOUS
<1>1. CASE UNCHANGED vars
  BY <1>1 DEF vars, net, signal, ghosts, IInv, TypeOK, MainOwnsThread, Gone, AtMostOneLate,
              LateSoFar, ServedWasSent, HandledFate
<1> QED BY <1>1, MainKeeps, WorkerKeeps, ClientKeeps, SignalKeeps DEF Next

\* The six parts hold in every reachable state, whatever signals, failures and
\* clients do: together they are inductive.
THEOREM Invariance == Spec => []IInv
  BY InitIInv, NextIInv, PTL DEF Spec

(***************************************************************************)
(* Results                                                                 *)
(***************************************************************************)

\* Type correctness, the bound of the listen queue included.
THEOREM LifecycleTypes == Spec => []TypeOK
<1>1. IInv => TypeOK
  BY DEF IInv
<1> QED BY <1>1, Invariance, PTL

\* The worker thread never touches a destroyed ServerImpl and never outlives
\* main, whatever signals and failures come when.
THEOREM ThreadStaysWithin == Spec => []ThreadWithinServer
<1>1. IInv => ThreadWithinServer
  BY DEF IInv, MainOwnsThread, ThreadWithinServer, TypeOK, MainStates, Joining, WorkerStates, Gone
<1> QED BY <1>1, Invariance, PTL

\* After Stop has cleared m_running one more request is handled at most.
THEOREM OneLateRequest == Spec => []AtMostOneLate
<1>1. IInv => AtMostOneLate
  BY DEF IInv
<1> QED BY <1>1, Invariance, PTL

\* Neither Stop nor a failing thread comes between handling a request and the
\* attempt to answer it.
THEOREM EveryAnswerIsTried == Spec => []AnswerIsTried
<1>1. IInv => AnswerIsTried
  <2> SUFFICES ASSUME IInv, main # "killed", NEW c \in Clients, conn[c] = "reset", c \in handled
               PROVE  FALSE
    BY DEF AnswerIsTried
  <2>1. worker = "write" /\ serving = c
    BY DEF IInv, HandledFate
  <2> QED BY <2>1 DEF IInv, ServedWasSent
<1> QED BY <1>1, Invariance, PTL

(***************************************************************************)
(* ServerLifecycle implements ServerApi                                    *)
(***************************************************************************)
LEMMA Queued ==
  ASSUME NEW S, NEW s \in Seq(S)
  PROVE  /\ s = <<>> => ToSet(s) = {}
         /\ s # <<>> => /\ ToSet(s) = {Head(s)} \cup ToSet(Tail(s))
                        /\ Head(s) \in S
         /\ \A c \in S : ToSet(Append(s, c)) = ToSet(s) \cup {c}
         /\ ToSet(s) \subseteq S
<1>1. ASSUME s # <<>>
      PROVE  ToSet(s) = {Head(s)} \cup ToSet(Tail(s)) /\ Head(s) \in S
  <2>1. /\ Tail(s) \in Seq(S) /\ Len(Tail(s)) = Len(s) - 1 /\ Head(s) = s[1]
        /\ \A i \in 1..(Len(s) - 1) : Tail(s)[i] = s[i + 1]
        /\ Len(s) \in Nat \ {0}
    BY <1>1, HeadTailProperties, LenProperties, EmptySeq
  <2>2. \A i \in DOMAIN s : i = 1 \/ (i - 1 \in DOMAIN Tail(s) /\ Tail(s)[i - 1] = s[i])
    BY <2>1, LenProperties
  <2>3. \A i \in DOMAIN Tail(s) : i + 1 \in DOMAIN s /\ Tail(s)[i] = s[i + 1]
    BY <2>1, LenProperties
  <2>4. 1 \in DOMAIN s
    BY <2>1, LenProperties
  <2>5. Head(s) \in S
    BY <1>1, HeadTailProperties
  <2>6. ToSet(s) \subseteq {Head(s)} \cup ToSet(Tail(s))
    BY <2>1, <2>2 DEF ToSet
  <2>7. {Head(s)} \cup ToSet(Tail(s)) \subseteq ToSet(s)
    BY <2>1, <2>3, <2>4 DEF ToSet
  <2> QED BY <2>5, <2>6, <2>7
<1>2. ASSUME NEW c \in S
      PROVE  ToSet(Append(s, c)) = ToSet(s) \cup {c}
  <2>1. /\ Append(s, c) \in Seq(S) /\ Len(Append(s, c)) = Len(s) + 1
        /\ \A i \in 1..Len(s) : Append(s, c)[i] = s[i]
        /\ Append(s, c)[Len(s) + 1] = c
        /\ Len(s) \in Nat
    BY AppendProperties, LenProperties
  <2>2. DOMAIN Append(s, c) = 1..(Len(s) + 1) /\ DOMAIN s = 1..Len(s)
    BY <2>1, LenProperties
  <2>3. \A i \in 1..(Len(s) + 1) : i \in 1..Len(s) \/ i = Len(s) + 1
    BY <2>1
  <2> QED BY <2>1, <2>2, <2>3 DEF ToSet
<1>3. ToSet(s) \subseteq S
  BY LenProperties, ElementOfSeq DEF ToSet
<1>4. s = <<>> => ToSet(s) = {}
  BY DEF ToSet
<1> QED BY <1>1, <1>2, <1>3, <1>4

LEMMA FirstOf ==
  ASSUME NEW S, NEW s \in Seq(S), NEW c \in S
  PROVE  /\ <<c>> \o s \in Seq(S) /\ <<c>> \o s # <<>>
         /\ Len(<<c>> \o s) = Len(s) + 1
         /\ Head(<<c>> \o s) = c
         /\ Tail(<<c>> \o s) = s
         /\ \A d \in S : Append(<<c>> \o s, d) = <<c>> \o Append(s, d)
<1>1. <<c>> \in Seq(S) /\ Len(<<c>>) = 1 /\ <<c>>[1] = c /\ Len(s) \in Nat
  BY LenProperties
<1>2. /\ <<c>> \o s \in Seq(S) /\ Len(<<c>> \o s) = Len(s) + 1
      /\ \A i \in 1..(Len(s) + 1) :
           (<<c>> \o s)[i] = IF i <= 1 THEN <<c>>[i] ELSE s[i - 1]
  BY <1>1, ConcatProperties
<1>3. <<c>> \o s # <<>>
  BY <1>1, <1>2, EmptySeq
<1>4. Head(<<c>> \o s) = c
  BY <1>1, <1>2, <1>3
<1>5. Tail(<<c>> \o s) = s
  <2>1. /\ Tail(<<c>> \o s) \in Seq(S) /\ Len(Tail(<<c>> \o s)) = Len(s)
        /\ \A i \in 1..Len(s) : Tail(<<c>> \o s)[i] = (<<c>> \o s)[i + 1]
    BY <1>1, <1>2, <1>3, HeadTailProperties
  <2>2. \A i \in 1..Len(s) : Tail(<<c>> \o s)[i] = s[i]
    BY <1>1, <1>2, <2>1
  <2> QED BY <2>1, <2>2, SeqEqual
<1>6. ASSUME NEW d \in S
      PROVE  Append(<<c>> \o s, d) = <<c>> \o Append(s, d)
  <2>1. <<d>> \in Seq(S)
    OBVIOUS
  <2> QED BY <1>1, <1>2, <2>1, AppendIsConcat, ConcatAssociative
<1> QED BY <1>2, <1>3, <1>4, <1>5, <1>6

\* Who is served is the first in line.
LEMMA LineIs ==
  ASSUME TypeOK
  PROVE  /\ Line \in Seq(Connections) /\ Len(Line) \in Nat
         /\ Len(Line) <= BacklogSize + 1
         /\ Len(backlog) < BacklogSize => Len(Line) < BacklogSize + 1
         /\ serving = None => Line = backlog
         /\ serving # None => Line # <<>> /\ Head(Line) = serving /\ Tail(Line) = backlog
         /\ \A c \in Connections :
              c \in ToSet(Line) <=> c \in ToSet(backlog) \cup {serving}
         /\ ToSet(Line) \subseteq Connections
         /\ \A c \in Connections : Append(Line, c) =
              IF serving = None THEN Append(backlog, c) ELSE <<serving>> \o Append(backlog, c)
<1>1. backlog \in Seq(Connections) /\ Len(backlog) \in Nat /\ Len(backlog) <= BacklogSize
      /\ BacklogSize \in Nat /\ None \notin Connections /\ serving \in Connections \cup {None}
  BY LenProperties, LimitsAssumption, ConnectionsAssumption DEF TypeOK, Connections
<1>2. CASE serving = None
  BY <1>1, <1>2, Queued DEF Line
<1>3. CASE serving # None
  <2>1. Line = <<serving>> \o backlog
    BY <1>3 DEF Line
  <2>2. serving \in Connections
    BY <1>1, <1>3
  <2>3. /\ Line \in Seq(Connections) /\ Line # <<>> /\ Len(Line) = Len(backlog) + 1
        /\ Head(Line) = serving /\ Tail(Line) = backlog
        /\ \A d \in Connections : Append(Line, d) = <<serving>> \o Append(backlog, d)
    BY <1>1, <2>1, <2>2, FirstOf
  <2>4. ToSet(Line) = {serving} \cup ToSet(backlog) /\ ToSet(Line) \subseteq Connections
    BY <2>3, Queued
  <2>5. /\ Len(Line) \in Nat /\ Len(Line) <= BacklogSize + 1
        /\ Len(backlog) < BacklogSize => Len(Line) < BacklogSize + 1
    BY <1>1, <2>3
  <2>6. \A c \in Connections : c \in ToSet(Line) <=> c \in ToSet(backlog) \cup {serving}
    BY <2>4
  <2> QED BY <1>3, <2>3, <2>4, <2>5, <2>6
<1> QED BY <1>2, <1>3

\* What is in line: each connection once and none served before, while the
\* acceptor is open; the worker holds a socket from accept to the write.
InLine ==
  /\ serving # None <=> worker \in {"read", "handle", "write"}
  /\ listening <=> worker \in {"check", "accept", "read", "handle", "write"}
  /\ ~listening => backlog = <<>>
  /\ IsInjective(backlog)
  /\ serving \notin ToSet(backlog)
  /\ ToSet(backlog) \cap handled = {}

\* Who was handled, and who cannot have been.
Once ==
  /\ worker \in {"read", "handle"} => serving \notin handled
  /\ worker = "write" => serving \in handled
  /\ \A c \in ToSet(backlog) \cup handled : conn[c] # "idle"
  /\ serving # None => conn[serving] # "idle"

\* Stop connects once.
StopperIsNew ==
  main \notin {"shutdown", "join", "unheard", "destroy", "reap", "exited", "killed"} =>
    conn[Stopper] = "idle"

LInv == InLine /\ Once /\ StopperIsNew

LEMMA NoneTwice ==
  ASSUME NEW S, NEW s \in Seq(S), IsInjective(s)
  PROVE  /\ s # <<>> => IsInjective(Tail(s)) /\ Head(s) \notin ToSet(Tail(s))
         /\ \A c \in S : c \notin ToSet(s) => IsInjective(Append(s, c))
<1>1. DOMAIN s = 1..Len(s) /\ Len(s) \in Nat
  BY LenProperties
<1>2. \A i, j \in 1..Len(s) : s[i] = s[j] => i = j
  BY <1>1 DEF IsInjective
<1>3. ASSUME s # <<>>
      PROVE  IsInjective(Tail(s)) /\ Head(s) \notin ToSet(Tail(s))
  <2>1. /\ Tail(s) \in Seq(S) /\ Len(Tail(s)) = Len(s) - 1 /\ Head(s) = s[1]
        /\ \A i \in 1..(Len(s) - 1) : Tail(s)[i] = s[i + 1]
        /\ Len(s) \in Nat \ {0}
    BY <1>3, HeadTailProperties, LenProperties, EmptySeq
  <2>2. DOMAIN Tail(s) = 1..(Len(s) - 1)
    BY <2>1, LenProperties
  <2>3. ASSUME NEW i \in 1..(Len(s) - 1), NEW j \in 1..(Len(s) - 1), Tail(s)[i] = Tail(s)[j]
        PROVE  i = j
    <3>1. i + 1 \in 1..Len(s) /\ j + 1 \in 1..Len(s) /\ s[i + 1] = s[j + 1]
      BY <2>1, <2>3
    <3>2. i + 1 = j + 1
      BY <1>2, <3>1
    <3> QED BY <3>2
  <2>4. ASSUME NEW i \in 1..(Len(s) - 1), Tail(s)[i] = Head(s)
        PROVE  FALSE
    <3>1. i + 1 \in 1..Len(s) /\ 1 \in 1..Len(s) /\ s[i + 1] = s[1]
      BY <2>1, <2>4
    <3>2. i + 1 = 1
      BY <1>2, <3>1
    <3> QED BY <3>2
  <2>5. IsInjective(Tail(s))
    BY <2>2, <2>3 DEF IsInjective
  <2>6. Head(s) \notin ToSet(Tail(s))
    BY <2>2, <2>4 DEF ToSet
  <2> QED BY <2>5, <2>6
<1>4. ASSUME NEW c \in S, c \notin ToSet(s)
      PROVE  IsInjective(Append(s, c))
  <2>1. /\ DOMAIN Append(s, c) = 1..(Len(s) + 1)
        /\ \A i \in 1..Len(s) : Append(s, c)[i] = s[i]
        /\ Append(s, c)[Len(s) + 1] = c
    BY AppendProperties, LenProperties
  <2>2. \A i \in 1..Len(s) : s[i] # c
    BY <1>1, <1>4 DEF ToSet
  <2>3. \A i \in 1..(Len(s) + 1) : i \in 1..Len(s) \/ i = Len(s) + 1
    BY <1>1
  <2>4. \A i, j \in 1..(Len(s) + 1) : Append(s, c)[i] = Append(s, c)[j] => i = j
    BY <1>2, <2>1, <2>2, <2>3
  <2> QED BY <2>1, <2>4 DEF IsInjective
<1> QED BY <1>3, <1>4

LEMMA NobodyInLine == IsInjective(<<>>) /\ ToSet(<<>>) = {}
  BY DEF IsInjective, ToSet

LEMMA InitLInv == Init => LInv
<1>1. ASSUME Init PROVE InLine /\ Once
  BY <1>1, NobodyInLine DEF Init, InLine, Once
<1>2. ASSUME Init PROVE StopperIsNew
  BY <1>2 DEF Init, StopperIsNew, Connections
<1> QED BY <1>1, <1>2 DEF LInv

LEMMA Known ==
  ASSUME TypeOK
  PROVE  /\ backlog \in Seq(Connections) /\ ToSet(backlog) \subseteq Connections
         /\ handled \subseteq Connections /\ serving \in Connections \cup {None}
         /\ None \notin Connections /\ Stopper \in Connections
         /\ conn \in [Connections -> ConnStates]
  BY Queued, ConnectionsAssumption DEF TypeOK, Connections

\* Nobody joins, is served or goes.
LEMMA WaitingKeeps ==
  ASSUME TypeOK, InLine, Once, UNCHANGED <<worker, listening, backlog, serving, handled>>,
         \A c \in Connections : conn[c] # "idle" => conn'[c] # "idle"
  PROVE  InLine' /\ Once'
<1>1. InLine'
  BY DEF InLine
<1>2. Once'
  BY Known DEF Once
<1> QED BY <1>1, <1>2

LEMMA JoiningKeeps ==
  ASSUME TypeOK, InLine, Once, NEW c \in Connections, conn[c] = "idle", listening,
         backlog' = Append(backlog, c), conn' = [conn EXCEPT ![c] = "open"],
         UNCHANGED <<worker, listening, serving, handled>>
  PROVE  InLine' /\ Once'
<1>1. c \notin ToSet(backlog) \cup handled \cup {serving}
  BY Known DEF Once
<1>2. IsInjective(backlog') /\ ToSet(backlog') = ToSet(backlog) \cup {c}
  BY <1>1, Known, Queued, NoneTwice DEF InLine
<1>3. InLine'
  BY <1>1, <1>2 DEF InLine
<1>4. \A d \in Connections : conn'[d] # "idle" <=> (conn[d] # "idle" \/ d = c)
  BY Known
<1>5. Once'
  BY <1>2, <1>4, Known DEF Once
<1> QED BY <1>3, <1>5

LEMMA ClosedKeeps ==
  ASSUME TypeOK, InLine, Once, SocketsClose, handled' = handled,
         worker' \notin {"check", "accept", "read", "handle", "write"}
  PROVE  InLine' /\ Once'
<1>1. listening' = FALSE /\ backlog' = <<>> /\ serving' = None
  BY DEF SocketsClose
<1>2. InLine'
  BY <1>1, NobodyInLine DEF InLine
<1>3. \A c \in Connections : conn[c] # "idle" => conn'[c] # "idle"
  BY ResetOnly DEF SocketsClose
<1>4. Once'
  BY <1>1, <1>3, NobodyInLine, Known DEF Once
<1> QED BY <1>2, <1>4

LEMMA MainKeepsLine ==
  ASSUME IInv, LInv, Main
  PROVE  LInv'
<1>1. TypeOK /\ InLine /\ Once /\ StopperIsNew
  BY DEF IInv, LInv
<1>2. CASE MainConstruct \/ MainStart
  <2>1. /\ worker = "none" /\ worker' \in {"none", "setup"} /\ main \in {"construct", "start"}
        /\ UNCHANGED <<listening, backlog, serving, handled, conn>>
    BY <1>2 DEF MainConstruct, MainStart, IInv, MainOwnsThread, net, ghosts
  <2>2. InLine' /\ Once' /\ StopperIsNew'
    BY <1>1, <2>1 DEF InLine, Once, StopperIsNew
  <2> QED BY <2>2 DEF LInv
<1>3. CASE MainConnect
  <2>1. CASE backlog' = Append(backlog, Stopper) /\ listening /\ main' = "shutdown"
    <3>1. InLine' /\ Once'
      BY <1>1, <1>3, <2>1, JoiningKeeps, Known DEF MainConnect, StopperIsNew, ghosts
    <3> QED BY <2>1, <3>1 DEF StopperIsNew, LInv
  <2>2. CASE main' = "unheard" /\ UNCHANGED <<backlog, conn>>
    <3>1. InLine' /\ Once'
      BY <1>1, <1>3, <2>2, WaitingKeeps DEF MainConnect, ghosts
    <3> QED BY <2>2, <3>1 DEF StopperIsNew, LInv
  <2> QED BY <1>3, <2>1, <2>2 DEF MainConnect
<1>4. CASE MainShutdown
  <2>1. \A c \in Connections : conn[c] # "idle" => conn'[c] # "idle"
    BY <1>1, <1>4, Known DEF MainShutdown
  <2>2. InLine' /\ Once'
    BY <1>1, <1>4, <2>1, WaitingKeeps DEF MainShutdown, ghosts
  <2> QED BY <1>4, <2>2 DEF MainShutdown, StopperIsNew, LInv
<1>5. CASE \/ MainMask \/ MainSigwait \/ MainStop \/ MainRequestStop \/ MainJoin
           \/ MainDestroy \/ MainReap
  <2>1. /\ UNCHANGED <<worker, listening, backlog, serving, handled, conn>>
        /\ \/ main' \in {"shutdown", "join", "unheard", "destroy", "reap", "exited", "killed"}
           \/ main \notin {"shutdown", "join", "unheard", "destroy", "reap", "exited", "killed"}
    BY <1>5 DEF MainMask, MainSigwait, MainStop, MainRequestStop, MainJoin, MainDestroy,
                MainReap, net, ghosts
  <2>2. InLine' /\ Once'
    BY <1>1, <2>1, WaitingKeeps
  <2> QED BY <1>1, <2>1, <2>2 DEF StopperIsNew, LInv
<1> QED BY <1>2, <1>3, <1>4, <1>5 DEF Main

LEMMA ClientKeepsLine ==
  ASSUME IInv, LInv, NEW c \in Clients, Client(c)
  PROVE  LInv'
<1>1. TypeOK /\ InLine /\ Once /\ StopperIsNew /\ c \in Connections /\ c # Stopper
  BY ConnectionsAssumption DEF IInv, LInv, Connections
<1>2. StopperIsNew'
  <2>1. main' = main /\ conn'[Stopper] = conn[Stopper]
    BY <1>1, Known DEF Client, ClientConnect, ClientSend, ClientHangUp, ClientLeave, ClientActs
  <2> QED BY <1>1, <2>1 DEF StopperIsNew
<1>3. CASE ClientConnect(c)
  BY <1>1, <1>2, <1>3, JoiningKeeps DEF ClientConnect, ghosts, LInv
<1>4. CASE ClientSend(c) \/ ClientHangUp(c) \/ ClientLeave(c)
  <2>1. /\ UNCHANGED <<worker, listening, backlog, serving, handled>>
        /\ \A d \in Connections : conn[d] # "idle" => conn'[d] # "idle"
    BY <1>1, <1>4, Known DEF ClientSend, ClientHangUp, ClientLeave, ClientActs, ghosts
  <2> QED BY <1>1, <1>2, <2>1, WaitingKeeps DEF LInv
<1> QED BY <1>3, <1>4 DEF Client

LEMMA SignalKeepsLine ==
  ASSUME IInv, LInv, Signal
  PROVE  LInv'
<1>1. TypeOK /\ InLine /\ Once /\ StopperIsNew
  BY DEF IInv, LInv
<1>2. CASE SignalKills
  <2>1. InLine' /\ Once'
    BY <1>1, <1>2, ClosedKeeps DEF SignalKills, ghosts
  <2> QED BY <1>2, <2>1 DEF SignalKills, StopperIsNew, LInv
<1>3. CASE SignalTaken \/ SignalPends \/ SignalLost
  <2>1. /\ UNCHANGED <<worker, listening, backlog, serving, handled, conn>>
        /\ main' = main \/ main = "sigwait"
    BY <1>3 DEF SignalTaken, SignalPends, SignalLost, net, ghosts
  <2>2. InLine' /\ Once'
    BY <1>1, <2>1, WaitingKeeps
  <2> QED BY <1>1, <2>1, <2>2 DEF StopperIsNew, LInv
<1> QED BY <1>2, <1>3 DEF Signal

LEMMA WorkerKeepsLine ==
  ASSUME IInv, LInv, Worker
  PROVE  LInv'
<1>1. TypeOK /\ InLine /\ Once /\ StopperIsNew
  BY DEF IInv, LInv
<1>2. main' = main
  BY DEF Worker, WorkerSetup, WorkerCheck, WorkerAccept, WorkerRead, WorkerHandle, WorkerWrite,
         WorkerCatch, WorkerLeaves
<1>3. conn[Stopper] = "idle" => conn'[Stopper] = "idle"
  <2>1. PICK S : \/ conn' = conn
                 \/ conn' = ResetOf(S)
                 \/ Told("answered") \/ Told("broken")
    BY DEF Worker, WorkerSetup, WorkerCheck, WorkerAccept, WorkerRead, WorkerHandle, WorkerWrite,
           WorkerCatch, WorkerLeaves, SocketsClose, net
  <2> QED BY <1>1, <2>1, ResetOnly, Known DEF Told
<1>4. StopperIsNew'
  BY <1>1, <1>2, <1>3 DEF StopperIsNew
<1>5. CASE SocketsClose /\ worker' \in {"catch", "leaving"} /\ UNCHANGED ghosts
  BY <1>1, <1>4, <1>5, ClosedKeeps DEF LInv, ghosts
<1>6. CASE WorkerSetup /\ ~(SocketsClose /\ worker' = "catch")
  <2>1. /\ worker = "setup" /\ worker' = "check" /\ listening' = TRUE
        /\ UNCHANGED <<backlog, serving, conn, handled>>
    BY <1>6 DEF WorkerSetup, ghosts
  <2>2. InLine' /\ Once'
    BY <1>1, <2>1 DEF InLine, Once
  <2> QED BY <1>4, <2>2 DEF LInv
<1>7. CASE WorkerCheck /\ ~(SocketsClose /\ worker' = "leaving")
  <2>1. /\ worker = "check" /\ worker' = "accept"
        /\ UNCHANGED <<listening, backlog, serving, conn, handled>>
    BY <1>7 DEF WorkerCheck, net, ghosts
  <2>2. InLine' /\ Once'
    BY <1>1, <2>1 DEF InLine, Once
  <2> QED BY <1>4, <2>2 DEF LInv
<1>8. CASE WorkerAccept
  <2>1. /\ worker = "accept" /\ backlog # <<>> /\ backlog' = Tail(backlog)
        /\ UNCHANGED <<listening, handled>>
    BY <1>8 DEF WorkerAccept, ghosts
  <2>2. /\ ToSet(backlog) = {Head(backlog)} \cup ToSet(backlog')
        /\ IsInjective(backlog') /\ Head(backlog) \notin ToSet(backlog')
        /\ Head(backlog) \in Connections
    BY <1>1, <2>1, Known, Queued, NoneTwice DEF InLine
  <2>3. \A c \in Connections : conn[c] # "idle" => conn'[c] # "idle"
    BY <1>1, <1>8, ResetOnly DEF WorkerAccept
  <2>4. \/ serving' = Head(backlog) /\ worker' = "read"
        \/ serving' = serving /\ worker' = "check"
    BY <1>8 DEF WorkerAccept
  <2>5. InLine'
    BY <1>1, <2>1, <2>2, <2>4, Known DEF InLine
  <2>6. Once'
    BY <1>1, <2>1, <2>2, <2>3, <2>4, Known DEF InLine, Once
  <2> QED BY <1>4, <2>5, <2>6 DEF LInv
<1>9. CASE WorkerRead
  <2>1. /\ worker = "read" /\ UNCHANGED <<listening, backlog, handled>>
        /\ \/ serving' = serving /\ worker' = "handle"
           \/ serving' = None /\ worker' = "check"
    BY <1>9 DEF WorkerRead, ghosts
  <2>2. \A c \in Connections : conn[c] # "idle" => conn'[c] # "idle"
    BY <1>1, <1>9, ResetOnly DEF WorkerRead
  <2>3. InLine'
    BY <1>1, <2>1, Known DEF InLine
  <2>4. Once'
    BY <1>1, <2>1, <2>2, Known DEF Once
  <2> QED BY <1>4, <2>3, <2>4 DEF LInv
<1>10. CASE WorkerHandle /\ ~(SocketsClose /\ worker' = "catch" /\ UNCHANGED ghosts)
  <2>1. /\ worker = "handle" /\ worker' = "write" /\ handled' = handled \cup {serving}
        /\ UNCHANGED <<listening, backlog, serving, conn>>
    BY <1>10 DEF WorkerHandle, net
  <2>2. InLine'
    BY <1>1, <2>1 DEF InLine
  <2>3. Once'
    BY <1>1, <2>1 DEF InLine, Once
  <2> QED BY <1>4, <2>2, <2>3 DEF LInv
<1>11. CASE WorkerWrite
  <2>1. /\ worker = "write" /\ worker' = "check" /\ serving' = None
        /\ UNCHANGED <<listening, backlog, handled>>
    BY <1>11 DEF WorkerWrite, ghosts
  <2>2. \A c \in Connections : conn[c] # "idle" => conn'[c] # "idle"
    BY <1>1, <1>11, Known DEF WorkerWrite, Told
  <2>3. InLine'
    BY <1>1, <2>1, Known DEF InLine
  <2>4. Once'
    BY <1>1, <2>1, <2>2, Known DEF Once
  <2> QED BY <1>4, <2>3, <2>4 DEF LInv
<1>12. CASE WorkerCatch \/ WorkerLeaves
  <2>1. /\ worker \in {"catch", "leaving"} /\ worker' \in {"leaving", "done"}
        /\ UNCHANGED <<listening, backlog, serving, conn, handled>>
    BY <1>12 DEF WorkerCatch, WorkerLeaves, net, ghosts
  <2>2. InLine' /\ Once'
    BY <1>1, <2>1 DEF InLine, Once
  <2> QED BY <1>4, <2>2 DEF LInv
<1> QED
  BY <1>5, <1>6, <1>7, <1>8, <1>9, <1>10, <1>11, <1>12
     DEF Worker, WorkerSetup, WorkerCheck, WorkerHandle

\* The line, together with what the two threads keep.
LEMMA LineInvariance == Spec => [](IInv /\ LInv)
<1>1. LInv /\ IInv /\ UNCHANGED vars => LInv'
  BY DEF LInv, InLine, Once, StopperIsNew, vars, net, signal, ghosts
<1>2. LInv /\ IInv /\ [Next]_vars => LInv'
  BY <1>1, MainKeepsLine, WorkerKeepsLine, ClientKeepsLine, SignalKeepsLine DEF Next
<1> QED BY <1>2, InitIInv, NextIInv, InitLInv, PTL DEF Spec

(***************************************************************************)
(* Each step is a step of ServerApi or none                                *)
(***************************************************************************)

\* What both threads know of each other when the acceptor is open.
LEMMA AcceptorOpen ==
  ASSUME IInv, LInv
  PROVE  /\ Gone => ~listening
         /\ Stage = "killed" <=> main = "killed"
         /\ listening => Stage = IF running THEN "open"
                                 ELSE IF late = 0 THEN "draining" ELSE "drained"
         /\ ~listening /\ main # "killed" =>
              Stage = IF worker \in {"none", "setup"} /\ main # "exited" THEN "closed" ELSE "gone"
         /\ ~listening => Line = <<>> /\ ToSet(Line) = {}
         /\ running => late = 0
<1>1. Gone => ~listening
  BY DEF IInv, LInv, MainOwnsThread, InLine
<1>2. main = "killed" => ~listening
  BY <1>1 DEF Gone
<1>3. ~listening => serving = None /\ backlog = <<>>
  BY DEF LInv, InLine
<1>4. ~listening => Line = <<>> /\ ToSet(Line) = {}
  BY <1>3, NobodyInLine DEF Line
<1>5. running => late = 0
  BY DEF IInv, LateSoFar
<1>6. Stage = "killed" <=> main = "killed"
  BY DEF Stage
<1>7. listening => Stage = IF running THEN "open"
                           ELSE IF late = 0 THEN "draining" ELSE "drained"
  BY <1>2 DEF Stage
<1>8. ~listening /\ main # "killed" =>
        Stage = IF worker \in {"none", "setup"} /\ main # "exited" THEN "closed" ELSE "gone"
  BY DEF Stage
<1> QED BY <1>1, <1>4, <1>5, <1>6, <1>7, <1>8

\* Closing the sockets resets the line.
LEMMA ClosingIsLeaving ==
  ASSUME TypeOK, SocketsClose
  PROVE  /\ conn' = [c \in Connections |->
                       IF c \in ToSet(Line) /\ conn[c] \in {"open", "sent"} THEN "reset"
                       ELSE conn[c]]
         /\ Line' = <<>> /\ ~listening'
<1>1. \A c \in Connections : c \in ToSet(Line) <=> c \in ToSet(backlog) \cup {serving}
  BY LineIs
<1>2. conn' = ResetOf(ToSet(backlog) \cup {serving})
  BY DEF SocketsClose
<1>3. conn' = [c \in Connections |->
                 IF c \in ToSet(Line) /\ conn[c] \in {"open", "sent"} THEN "reset"
                 ELSE conn[c]]
  BY <1>1, <1>2 DEF ResetOf
<1> QED BY <1>3 DEF SocketsClose, Line

LEMMA NobodyIsReset ==
  ASSUME TypeOK
  PROVE  conn = [c \in Connections |->
                   IF c \in {} /\ conn[c] \in {"open", "sent"} THEN "reset" ELSE conn[c]]
  BY DEF TypeOK

LEMMA InitRefines == Init => Api!Init
<1> SUFFICES ASSUME Init PROVE Api!Init
  OBVIOUS
<1>1. Stage = "closed" /\ Line = <<>>
  BY DEF Init, Stage, Line
<1> QED BY <1>1 DEF Init, Api!Init

LEMMA SameSet == Api!ToSet(Line) = ToSet(Line)
  BY DEF Api!ToSet, ToSet

\* With the sockets' block left, and nobody handled and unanswered.
LEMMA CloseRefines ==
  ASSUME IInv, LInv, IInv', LInv', SocketsClose, UNCHANGED <<main, handled>>, main # "killed",
         worker \in {"setup", "check", "handle"}, worker' \in {"catch", "leaving"}
  PROVE  Api!Next
<1>1. TypeOK /\ main # "exited"
  BY DEF IInv, MainOwnsThread, Gone
<1>2. Stage \in Api!Listening \cup {"closed"}
  BY <1>1, AcceptorOpen DEF Api!Listening, LInv, InLine
<1>3. Stage' = "gone"
  <2>1. ~listening' /\ main' # "killed" /\ worker' \notin {"none", "setup"}
    BY DEF SocketsClose
  <2> QED BY <2>1 DEF Stage
<1>4. ToSet(Line) \cap handled = {}
  BY <1>1, LineIs, Known DEF LInv, InLine, Once
<1>5. Api!Resets(ToSet(Line)) /\ Line' = <<>>
  BY <1>1, ClosingIsLeaving DEF Api!Resets
<1>6. Api!Leave("gone")
  BY <1>3, <1>5, SameSet DEF Api!Leave
<1>7. Api!Close
  BY <1>2, <1>4, <1>6, SameSet DEF Api!Close
<1> QED BY <1>7 DEF Api!Next

LEMMA MainRefines ==
  ASSUME IInv, LInv, IInv', LInv', Main
  PROVE  Api!Next \/ UNCHANGED Api!vars
<1>1. TypeOK /\ main \notin {"killed", "exited"}
  BY DEF IInv, Main, MainConstruct, MainStart, MainMask, MainSigwait, MainStop, MainRequestStop,
         MainConnect, MainShutdown, MainJoin, Joining, MainDestroy, MainReap
<1>2. CASE MainConstruct
  <2>1. /\ ~listening /\ ~listening' /\ worker = "none" /\ worker' = worker
        /\ main' \in {"start", "exited"}
        /\ UNCHANGED <<backlog, serving, conn, handled>>
    BY <1>2 DEF MainConstruct, IInv, MainOwnsThread, LInv, InLine, net, ghosts
  <2>2. Line' = Line /\ Stage = "closed" /\ ToSet(Line) = {} /\ Line = <<>>
    BY <1>1, <2>1, AcceptorOpen DEF Line
  <2>3. CASE main' = "start"
    <3>1. Stage' = "closed"
      BY <2>1, <2>3 DEF Stage
    <3> QED BY <2>1, <2>2, <3>1 DEF Api!vars
  <2>4. CASE main' = "exited"
    <3>1. Stage' = "gone"
      BY <2>1, <2>4 DEF Stage
    <3>2. Api!Resets(ToSet(Line))
      BY <1>1, <2>1, <2>2, NobodyIsReset DEF Api!Resets
    <3>3. Api!Leave("gone")
      BY <2>1, <2>2, <3>1, <3>2, SameSet DEF Api!Leave
    <3>4. Api!Close
      BY <2>2, <3>3, SameSet DEF Api!Close
    <3> QED BY <3>4 DEF Api!Next
  <2> QED BY <2>1, <2>3, <2>4
<1>3. CASE MainStart
  <2>1. /\ ~listening /\ ~listening' /\ worker = "none" /\ worker' = "setup"
        /\ main' = "started"
        /\ UNCHANGED <<backlog, serving, conn, handled>>
    BY <1>3 DEF MainStart, IInv, MainOwnsThread, LInv, InLine, net, ghosts
  <2>2. Line' = Line /\ Stage = "closed" /\ Stage' = "closed"
    BY <1>1, <2>1 DEF Line, Stage
  <2> QED BY <2>1, <2>2 DEF Api!vars
<1>4. CASE MainMask \/ MainSigwait \/ MainRequestStop \/ MainJoin
  <2>1. /\ UNCHANGED <<worker, running, listening, backlog, serving, conn, handled, late>>
        /\ main' \notin {"killed", "exited"}
    BY <1>4 DEF MainMask, MainSigwait, MainRequestStop, MainJoin, net, ghosts
  <2> QED BY <1>1, <2>1 DEF Api!vars, Stage, Line
<1>5. CASE MainStop \/ MainDestroy
  <2>1. /\ UNCHANGED <<worker, listening, backlog, serving, conn, handled, late>>
        /\ main' \notin {"killed", "exited"} /\ running' = FALSE
    BY <1>5 DEF MainStop, MainDestroy, net, ghosts
  <2>2. CASE listening /\ running
    <3>1. Stage = "open" /\ Stage' = "draining"
      BY <1>1, <2>1, <2>2, AcceptorOpen DEF Stage
    <3>2. Api!AskToStop
      BY <2>1, <3>1 DEF Api!AskToStop, Line
    <3> QED BY <3>2 DEF Api!Next
  <2>3. CASE ~(listening /\ running)
    BY <1>1, <2>1, <2>3 DEF Api!vars, Stage, Line
  <2> QED BY <2>2, <2>3
<1>6. CASE MainReap
  <2>1. /\ UNCHANGED <<worker, listening, backlog, serving, conn, handled>>
        /\ worker = "done" /\ main' = "exited"
    BY <1>6 DEF MainReap, net, ghosts
  <2>2. ~listening
    BY <2>1 DEF LInv, InLine
  <2> QED BY <1>1, <2>1, <2>2 DEF Api!vars, Stage, Line
<1>7. CASE MainConnect
  <2>1. /\ UNCHANGED <<worker, running, listening, serving, handled, late>>
        /\ main' \in {"shutdown", "unheard"}
    BY <1>7 DEF MainConnect, ghosts
  <2>2. Stage' = Stage
    BY <1>1, <2>1 DEF Stage
  <2>3. CASE /\ listening /\ Len(backlog) < BacklogSize /\ backlog' = Append(backlog, Stopper)
             /\ conn' = [conn EXCEPT ![Stopper] = "open"]
    <3>1. conn[Stopper] = "idle" /\ Stopper \in Connections
      BY <1>7, Known, <1>1 DEF MainConnect, LInv, StopperIsNew
    <3>2. Line' = Append(Line, Stopper) /\ Len(Line) < BacklogSize + 1
      BY <1>1, <2>1, <2>3, <3>1, LineIs DEF Line
    <3>3. Stage \in Api!Listening
      BY <2>3, AcceptorOpen DEF Api!Listening
    <3>4. Api!Join(Stopper)
      BY <2>1, <2>2, <2>3, <3>1, <3>2, <3>3 DEF Api!Join
    <3> QED BY <3>1, <3>4 DEF Api!Next
  <2>4. CASE UNCHANGED <<backlog, conn>>
    BY <2>1, <2>2, <2>4 DEF Api!vars, Line
  <2> QED BY <1>7, <2>3, <2>4 DEF MainConnect
<1>8. CASE MainShutdown
  <2>1. /\ UNCHANGED <<worker, running, listening, backlog, serving, handled, late>>
        /\ main' = "join"
    BY <1>8 DEF MainShutdown, ghosts
  <2>2. Stage' = Stage /\ Line' = Line
    BY <1>1, <2>1 DEF Stage, Line
  <2>3. CASE conn[Stopper] = "open"
    <3>1. conn' = [conn EXCEPT ![Stopper] = "hungup"]
      BY <1>8, <2>3 DEF MainShutdown
    <3>2. <<"open", "hungup">> \in Api!Moves
      BY DEF Api!Moves
    <3>3. Api!Act(Stopper)
      BY <2>1, <2>2, <2>3, <3>1, <3>2 DEF Api!Act
    <3> QED BY <1>1, <3>3, Known DEF Api!Next
  <2>4. CASE conn[Stopper] # "open"
    <3>1. conn' = conn
      BY <1>1, <1>8, <2>4, Known DEF MainShutdown
    <3> QED BY <2>1, <2>2, <3>1 DEF Api!vars
  <2> QED BY <2>3, <2>4
<1> QED BY <1>2, <1>3, <1>4, <1>5, <1>6, <1>7, <1>8 DEF Main

\* Who was accepted is in line where it was.
LEMMA AcceptedIsFirst ==
  ASSUME TypeOK, backlog # <<>>
  PROVE  <<Head(backlog)>> \o Tail(backlog) = backlog
<1>1. /\ Head(backlog) \in Connections /\ Tail(backlog) \in Seq(Connections)
      /\ Len(backlog) \in Nat /\ Len(Tail(backlog)) = Len(backlog) - 1
      /\ Head(backlog) = backlog[1]
      /\ \A i \in 1..(Len(backlog) - 1) : Tail(backlog)[i] = backlog[i + 1]
      /\ backlog \in Seq(Connections)
  BY HeadTailProperties, LenProperties DEF TypeOK
<1>2. /\ <<Head(backlog)>> \in Seq(Connections) /\ Len(<<Head(backlog)>>) = 1
      /\ <<Head(backlog)>>[1] = Head(backlog)
  BY <1>1
<1>3. /\ <<Head(backlog)>> \o Tail(backlog) \in Seq(Connections)
      /\ Len(<<Head(backlog)>> \o Tail(backlog)) = Len(backlog)
      /\ \A i \in 1..Len(backlog) : (<<Head(backlog)>> \o Tail(backlog))[i] =
           IF i <= 1 THEN <<Head(backlog)>>[i] ELSE Tail(backlog)[i - 1]
  BY <1>1, <1>2, ConcatProperties
<1>4. \A i \in 1..Len(backlog) : (<<Head(backlog)>> \o Tail(backlog))[i] = backlog[i]
  BY <1>1, <1>2, <1>3
<1> QED BY <1>1, <1>3, <1>4, SeqEqual

LEMMA WorkerRefines ==
  ASSUME IInv, LInv, IInv', LInv', Worker
  PROVE  Api!Next \/ UNCHANGED Api!vars
<1>1. TypeOK /\ main \notin {"killed", "exited"} /\ main' = main
  BY DEF IInv, MainOwnsThread, Gone, Worker, WorkerSetup, WorkerCheck, WorkerAccept, WorkerRead,
         WorkerHandle, WorkerWrite, WorkerCatch, WorkerLeaves
<1>2. CASE /\ worker \in {"setup", "check", "handle"} /\ SocketsClose
           /\ worker' \in {"catch", "leaving"} /\ UNCHANGED ghosts
  BY <1>1, <1>2, CloseRefines DEF ghosts
<1>3. CASE WorkerSetup /\ ~(SocketsClose /\ worker' = "catch")
  <2>1. /\ worker = "setup" /\ worker' = "check" /\ listening'
        /\ UNCHANGED <<running, backlog, serving, conn, handled, late>>
    BY <1>3 DEF WorkerSetup, ghosts
  <2>2. ~listening /\ late = 0
    BY <2>1 DEF LInv, InLine, IInv, LateSoFar
  <2>3. Stage = "closed" /\ Stage' \in {"open", "draining"} /\ Line' = Line
    BY <1>1, <2>1, <2>2 DEF Stage, Line
  <2>4. Api!Open
    BY <2>1, <2>3 DEF Api!Open
  <2> QED BY <2>4 DEF Api!Next
<1>4. CASE WorkerCheck /\ ~(SocketsClose /\ worker' = "leaving")
  <2>1. /\ worker = "check" /\ worker' = "accept"
        /\ UNCHANGED <<running, listening, backlog, serving, conn, handled, late>>
    BY <1>4 DEF WorkerCheck, net, ghosts
  <2> QED BY <1>1, <2>1 DEF Api!vars, Stage, Line
<1>5. CASE WorkerAccept
  <2>1. /\ worker = "accept" /\ worker' \in {"check", "read"} /\ backlog # <<>>
        /\ backlog' = Tail(backlog)
        /\ UNCHANGED <<running, listening, handled, late>>
    BY <1>5 DEF WorkerAccept, ghosts
  <2>2. serving = None /\ Line = backlog /\ Head(backlog) \in Connections
    BY <1>1, <2>1, Known, Queued DEF LInv, InLine, Line
  <2>3. Stage' = Stage
    BY <1>1, <2>1 DEF Stage
  <2>4. CASE serving' = Head(backlog) /\ UNCHANGED conn
    <3>1. Line' = Line
      BY <1>1, <2>1, <2>2, <2>4, Known, AcceptedIsFirst DEF Line
    <3> QED BY <2>1, <2>3, <2>4, <3>1 DEF Api!vars
  <2>5. CASE conn' = ResetOf({Head(backlog)}) /\ UNCHANGED serving
    <3>1. Line' = Tail(Line) /\ Line # <<>>
      BY <2>1, <2>2, <2>5 DEF Line
    <3>2. Head(Line) \notin handled
      BY <1>1, <2>1, <2>2, Known, Queued DEF LInv, InLine
    <3>3. Api!Resets({Head(Line)})
      BY <2>2, <2>5 DEF Api!Resets, ResetOf
    <3>4. Api!Drop
      BY <2>1, <2>3, <3>1, <3>2, <3>3 DEF Api!Drop
    <3> QED BY <3>4 DEF Api!Next
  <2> QED BY <1>5, <2>4, <2>5 DEF WorkerAccept
<1>6. CASE WorkerRead
  <2>1. /\ worker = "read" /\ worker' \in {"check", "handle"}
        /\ UNCHANGED <<running, listening, backlog, handled, late>>
    BY <1>6 DEF WorkerRead, ghosts
  <2>2. /\ serving # None /\ Line # <<>> /\ Head(Line) = serving /\ Tail(Line) = backlog
        /\ serving \notin handled
    BY <1>1, <2>1, LineIs DEF LInv, InLine, Once
  <2>3. Stage' = Stage
    BY <1>1, <2>1 DEF Stage
  <2>4. CASE UNCHANGED <<serving, conn>>
    BY <2>1, <2>3, <2>4 DEF Api!vars, Line
  <2>5. CASE serving' = None /\ conn' = ResetOf({serving})
    <3>1. Api!Resets({Head(Line)})
      BY <2>2, <2>5 DEF Api!Resets, ResetOf
    <3>2. Line' = Tail(Line)
      BY <2>1, <2>2, <2>5 DEF Line
    <3>3. Api!Drop
      BY <2>1, <2>2, <2>3, <3>1, <3>2 DEF Api!Drop
    <3> QED BY <3>3 DEF Api!Next
  <2> QED BY <1>6, <2>4, <2>5 DEF WorkerRead
<1>7. CASE WorkerHandle /\ ~(SocketsClose /\ worker' = "catch" /\ UNCHANGED ghosts)
  <2>1. /\ worker = "handle" /\ worker' = "write" /\ handled' = handled \cup {serving}
        /\ late' = IF running THEN late ELSE late + 1
        /\ UNCHANGED <<running, listening, backlog, serving, conn>>
    BY <1>7 DEF WorkerHandle, net
  <2>2. /\ serving # None /\ Line # <<>> /\ Head(Line) = serving
        /\ serving \notin handled /\ conn[serving] \in {"sent", "left"}
        /\ late = 0 /\ listening
    BY <1>1, <2>1, LineIs DEF LInv, InLine, Once, IInv, LateSoFar, ServedWasSent
  <2>3. Line' = Line
    BY <2>1 DEF Line
  <2>4. \/ Stage = "open" /\ Stage' = "open"
        \/ Stage = "draining" /\ Stage' = "drained"
    BY <1>1, <2>1, <2>2 DEF Stage
  <2>5. Api!Handle
    BY <2>1, <2>2, <2>3, <2>4 DEF Api!Handle
  <2> QED BY <2>5 DEF Api!Next
<1>8. CASE WorkerWrite
  <2>1. /\ worker = "write" /\ worker' = "check" /\ serving' = None
        /\ \E to \in {"answered", "broken"} : Told(to)
        /\ UNCHANGED <<running, listening, backlog, handled, late>>
    BY <1>8 DEF WorkerWrite, ghosts
  <2>2. /\ serving # None /\ Line # <<>> /\ Head(Line) = serving /\ Tail(Line) = backlog
        /\ serving \in handled
    BY <1>1, <2>1, LineIs DEF LInv, InLine, Once
  <2>3. Stage' = Stage /\ Line' = Tail(Line)
    BY <1>1, <2>1, <2>2 DEF Stage, Line
  <2>4. Api!Answer
    BY <2>1, <2>2, <2>3 DEF Api!Answer, Told
  <2> QED BY <2>4 DEF Api!Next
<1>9. CASE WorkerCatch \/ WorkerLeaves
  <2>1. /\ worker \in {"catch", "leaving"} /\ worker' \in {"leaving", "done"}
        /\ UNCHANGED <<listening, backlog, serving, conn, handled>>
    BY <1>9 DEF WorkerCatch, WorkerLeaves, net, ghosts
  <2>2. ~listening
    BY <2>1 DEF LInv, InLine
  <2> QED BY <1>1, <2>1, <2>2 DEF Api!vars, Stage, Line
<1> QED
  BY <1>2, <1>3, <1>4, <1>5, <1>6, <1>7, <1>8, <1>9
     DEF Worker, WorkerSetup, WorkerCheck, WorkerHandle

LEMMA ClientRefines ==
  ASSUME IInv, LInv, NEW c \in Clients, Client(c)
  PROVE  Api!Next \/ UNCHANGED Api!vars
<1>1. TypeOK /\ c \in Connections
  BY DEF IInv, Connections
<1>2. /\ UNCHANGED <<main, worker, running, listening, serving, handled, late>>
      /\ Stage' = Stage
  BY DEF Client, ClientConnect, ClientSend, ClientHangUp, ClientLeave, ClientActs, ghosts, Stage
<1>3. CASE ClientConnect(c)
  <2>1. /\ conn[c] = "idle" /\ listening /\ Len(backlog) < BacklogSize
        /\ conn' = [conn EXCEPT ![c] = "open"] /\ backlog' = Append(backlog, c)
    BY <1>3 DEF ClientConnect
  <2>2. Line' = Append(Line, c) /\ Len(Line) < BacklogSize + 1
    BY <1>1, <1>2, <2>1, LineIs DEF Line
  <2>3. Stage \in Api!Listening
    BY <2>1, AcceptorOpen DEF Api!Listening
  <2>4. Api!Join(c)
    BY <1>2, <2>1, <2>2, <2>3 DEF Api!Join
  <2> QED BY <1>1, <2>4 DEF Api!Next
<1>4. CASE ClientSend(c) \/ ClientHangUp(c) \/ ClientLeave(c)
  <2>1. PICK move \in Api!Moves : conn[c] = move[1] /\ conn' = [conn EXCEPT ![c] = move[2]]
    BY <1>4 DEF ClientSend, ClientHangUp, ClientLeave, ClientActs, Api!Moves
  <2>2. Line' = Line
    BY <1>2, <1>4 DEF ClientSend, ClientHangUp, ClientLeave, ClientActs, Line
  <2>3. Api!Act(c)
    BY <1>2, <2>1, <2>2 DEF Api!Act
  <2> QED BY <1>1, <2>3 DEF Api!Next
<1> QED BY <1>3, <1>4 DEF Client

LEMMA SignalRefines ==
  ASSUME IInv, LInv, Signal
  PROVE  Api!Next \/ UNCHANGED Api!vars
<1>1. TypeOK /\ main \notin {"killed", "exited"}
  BY DEF IInv, Signal, Gone
<1>2. CASE SignalKills
  <2>1. main' = "killed" /\ SocketsClose /\ handled' = handled
    BY <1>2 DEF SignalKills, ghosts
  <2>2. Stage # "killed" /\ Stage' = "killed"
    BY <1>1, <2>1 DEF Stage
  <2>3. Api!Resets(ToSet(Line)) /\ Line' = <<>>
    BY <1>1, <2>1, ClosingIsLeaving DEF Api!Resets
  <2>4. Api!Kill
    BY <2>1, <2>2, <2>3, SameSet DEF Api!Kill, Api!Leave
  <2> QED BY <2>4 DEF Api!Next
<1>3. CASE SignalTaken \/ SignalPends \/ SignalLost
  <2>1. /\ UNCHANGED <<worker, running, listening, backlog, serving, conn, handled, late>>
        /\ main' = main \/ main' = "stop"
    BY <1>3 DEF SignalTaken, SignalPends, SignalLost, net, ghosts
  <2> QED BY <1>1, <2>1 DEF Api!vars, Stage, Line
<1> QED BY <1>2, <1>3 DEF Signal

LEMMA StepRefines ==
  IInv /\ LInv /\ IInv' /\ LInv' /\ [Next]_vars => [Api!Next]_Api!vars
<1> SUFFICES ASSUME IInv, LInv, IInv', LInv', [Next]_vars
             PROVE  Api!Next \/ UNCHANGED Api!vars
  OBVIOUS
<1>1. CASE UNCHANGED vars
  BY <1>1 DEF vars, net, ghosts, Api!vars, Stage, Line
<1> QED BY <1>1, MainRefines, WorkerRefines, ClientRefines, SignalRefines DEF Next

\* Whatever both threads, signals, errors and clients do, those who connect find
\* one line, served in its order, each request once, one after the stop was asked
\* for, and nobody handled whom it did not try to answer unless the server is killed.
THEOREM LifecycleImplementsApi == Spec => ImplementsServerApi
<1>1. Spec => Init /\ [][Next]_vars
  BY PTL DEF Spec
<1> QED
  BY <1>1, InitRefines, StepRefines, LineInvariance, PTL DEF ImplementsServerApi, Api!Spec
=================================================================================
