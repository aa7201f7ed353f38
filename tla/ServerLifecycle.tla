---------------------------- MODULE ServerLifecycle ----------------------------
(***************************************************************************)
(* Start and stop of the process (src/src/main.cpp, src/src/server.cpp):   *)
(* the main thread that builds the Server, waits for a signal and stops    *)
(* it; the worker thread that accepts, reads, handles and answers one      *)
(* connection after the other; the kernel's listen backlog between the     *)
(* worker and the clients; and SIGINT/SIGTERM, which may come at any time. *)
(*                                                                         *)
(* What a request does is ProfileService's subject; here m_impl->Handle is *)
(* one step that needs m_impl to be alive and may throw.                   *)
(***************************************************************************)
EXTENDS Integers, Sequences, SequencesExt

CONSTANTS
  Clients,
  Stopper,      \* the connection Server::Stop makes to unblock accept
  None,         \* the worker serves no connection
  BacklogSize,  \* connections the kernel queues for the acceptor
  MaxSignals    \* bound on the signals sent to the process

ASSUME ConnectionsAssumption == None \notin Clients /\ Stopper \notin Clients /\ None # Stopper
ASSUME LimitsAssumption == BacklogSize \in Nat \ {0} /\ MaxSignals \in Nat

VARIABLES
  main,           \* where the main thread is
  worker,         \* where the worker thread is
  running,        \* m_running
  stopRequested,  \* the stop token of m_thread
  implAlive,      \* m_impl is constructed and not yet destroyed
  listening,      \* the acceptor is bound and listens
  backlog,        \* connections not yet accepted, oldest first
  serving,        \* the connection the worker holds a socket for, or None
  conn,           \* each connection, seen from its client
  pending,        \* a blocked signal waits for the main thread
  signals,        \* signals sent so far
  isInit,         \* the process is PID 1 of a container
  handled,        \* clients whose request m_impl->Handle has returned for
  late            \* requests handled after Stop cleared m_running

vars == <<main, worker, running, stopRequested, implAlive, listening, backlog, serving,
          conn, pending, signals, isInit, handled, late>>

net    == <<listening, backlog, serving, conn>>
signal == <<pending, signals, isInit>>
ghosts == <<handled, late>>

Connections == Clients \cup {Stopper}

\* Not connected; connected, its request not all sent; sent; hung up before or
\* left after sending it all; answered; closed after a write of its answer that
\* failed; closed by the server or the kernel without one.
ConnStates == {"idle", "open", "sent", "hungup", "left", "answered", "broken", "reset"}

\* At the join of Stop, the connection made or failed.
Joining == {"join", "unheard"}

MainStates ==
  {"construct", "start", "started", "masked", "sigwait", "stop", "request_stop",
   "connect", "shutdown", "destroy", "reap", "exited", "killed"} \cup Joining

WorkerStates ==
  {"none", "setup", "check", "accept", "read", "handle", "write", "catch", "leaving", "done"}

Gone == main \in {"exited", "killed"}

Init ==
  /\ main = "construct"
  /\ worker = "none"
  /\ running = FALSE
  /\ stopRequested = FALSE
  /\ implAlive = FALSE
  /\ listening = FALSE
  /\ backlog = <<>>
  /\ serving = None
  /\ conn = [c \in Connections |-> "idle"]
  /\ pending = FALSE
  /\ signals = 0
  /\ isInit \in BOOLEAN
  /\ handled = {}
  /\ late = 0

\* The connections of the set S are closed by the server or the kernel.
ResetOf(S) ==
  [c \in Connections |->
     IF c \in S /\ conn[c] \in {"open", "sent"} THEN "reset" ELSE conn[c]]

(***************************************************************************)
(* The main thread                                                         *)
(***************************************************************************)

\* Server::Server builds ServerImpl, which connects to the database or throws;
\* main then returns 1.
MainConstruct ==
  /\ main = "construct"
  /\ \/ main' = "start" /\ implAlive' = TRUE
     \/ main' = "exited" /\ UNCHANGED implAlive
  /\ UNCHANGED <<worker, running, stopRequested, net, signal, ghosts>>

\* Server::Start returns true as soon as the thread exists.
MainStart ==
  /\ main = "start"
  /\ running' = TRUE
  /\ worker' = "setup"
  /\ main' = "started"
  /\ UNCHANGED <<stopRequested, implAlive, net, signal, ghosts>>

\* pthread_sigmask, after the worker thread was created without it.
MainMask ==
  /\ main = "started"
  /\ main' = "masked"
  /\ UNCHANGED <<worker, running, stopRequested, implAlive, net, signal, ghosts>>

\* Mutant of MainSigwait: a wait that misses what is pending already.
MainSigwait_MissesPending ==
  /\ main = "masked"
  /\ main' = "sigwait"
  /\ UNCHANGED <<worker, running, stopRequested, implAlive, net, signal, ghosts>>

\* sigwait takes a signal that is pending already at once.
MainSigwait ==
  /\ main = "masked"
  /\ main' = IF pending THEN "stop" ELSE "sigwait"
  /\ pending' = FALSE
  /\ UNCHANGED <<worker, running, stopRequested, implAlive, net, signals, isInit, ghosts>>

\* Server::Stop: the first caller to find m_running set goes on.
MainStop ==
  /\ main = "stop"
  /\ main' = IF running THEN "request_stop" ELSE "destroy"
  /\ running' = FALSE
  /\ UNCHANGED <<worker, stopRequested, implAlive, net, signal, ghosts>>

\* Mutant of MainRequestStop: Stop joins without the connection.
MainRequestStop_NoWakeUp ==
  /\ main = "request_stop"
  /\ stopRequested' = TRUE
  /\ main' = "join"
  /\ UNCHANGED <<worker, running, implAlive, net, signal, ghosts>>

MainRequestStop ==
  /\ main = "request_stop"
  /\ stopRequested' = TRUE
  /\ main' = "connect"
  /\ UNCHANGED <<worker, running, implAlive, net, signal, ghosts>>

\* Connect to the own endpoint: into the backlog, or not at all.  Whatever fails
\* (refused, timed out while the backlog is full, no descriptor left, a resolver
\* that does not answer), catch (...) swallows it and Stop goes on to the join.
MainConnect ==
  /\ main = "connect"
  /\ \/ /\ listening /\ Len(backlog) < BacklogSize
        /\ backlog' = Append(backlog, Stopper)
        /\ conn' = [conn EXCEPT ![Stopper] = "open"]
        /\ main' = "shutdown"
     \/ main' = "unheard" /\ UNCHANGED <<backlog, conn>>
  /\ UNCHANGED <<worker, running, stopRequested, implAlive, listening, serving, signal, ghosts>>

MainShutdown ==
  /\ main = "shutdown"
  /\ conn' = [conn EXCEPT ![Stopper] = IF @ = "open" THEN "hungup" ELSE @]
  /\ main' = "join"
  /\ UNCHANGED <<worker, running, stopRequested, implAlive, listening, backlog, serving,
                 signal, ghosts>>

MainJoin ==
  /\ main \in Joining /\ worker = "done"
  /\ main' = "destroy"
  /\ UNCHANGED <<worker, running, stopRequested, implAlive, net, signal, ghosts>>

\* ~Server: Stop finds m_running clear; then ~jthread asks again for the stop ...
MainDestroy ==
  /\ main = "destroy"
  /\ running' = FALSE
  /\ stopRequested' = TRUE
  /\ main' = "reap"
  /\ UNCHANGED <<worker, implAlive, net, signal, ghosts>>

\* Mutant of MainReap: a thread that is detached, not joined.
MainReap_Detached ==
  /\ main = "reap"
  /\ implAlive' = FALSE
  /\ main' = "exited"
  /\ UNCHANGED <<worker, running, stopRequested, net, signal, ghosts>>

\* ... and joins, and m_impl, declared before m_thread, is destroyed after it.
MainReap ==
  /\ main = "reap" /\ worker = "done"
  /\ implAlive' = FALSE
  /\ main' = "exited"
  /\ UNCHANGED <<worker, running, stopRequested, net, signal, ghosts>>

(***************************************************************************)
(* The worker thread                                                       *)
(***************************************************************************)

\* The block that owns the acceptor and the socket is left: they are closed, and
\* the kernel resets what was queued or being served.
SocketsClose ==
  /\ listening' = FALSE
  /\ backlog' = <<>>
  /\ serving' = None
  /\ conn' = ResetOf(ToSet(backlog) \cup {serving})

\* open, bind and listen, or one of them throws.
WorkerSetup ==
  /\ worker = "setup"
  /\ \/ /\ listening' = TRUE
        /\ worker' = "check"
        /\ UNCHANGED <<backlog, serving, conn>>
     \/ worker' = "catch" /\ SocketsClose
  /\ UNCHANGED <<main, running, stopRequested, implAlive, signal, ghosts>>

\* Mutant of WorkerCheck: a loop that looks at the stop token only.
WorkerCheck_TokenOnly ==
  /\ worker = "check"
  /\ \/ ~stopRequested /\ worker' = "accept" /\ UNCHANGED net
     \/ stopRequested /\ worker' = "leaving" /\ SocketsClose
  /\ UNCHANGED <<main, running, stopRequested, implAlive, signal, ghosts>>

WorkerCheck ==
  /\ worker = "check"
  /\ \/ running /\ ~stopRequested /\ worker' = "accept" /\ UNCHANGED net
     \/ (~running \/ stopRequested) /\ worker' = "leaving" /\ SocketsClose
  /\ UNCHANGED <<main, running, stopRequested, implAlive, signal, ghosts>>

\* accept blocks while the backlog is empty.  When it reports an error, for a
\* connection that died in the queue, the loop goes on.
WorkerAccept ==
  /\ worker = "accept" /\ backlog # <<>>
  /\ backlog' = Tail(backlog)
  /\ \/ serving' = Head(backlog) /\ worker' = "read" /\ UNCHANGED conn
     \/ worker' = "check" /\ conn' = ResetOf({Head(backlog)}) /\ UNCHANGED serving
  /\ UNCHANGED <<main, running, stopRequested, implAlive, listening, signal, ghosts>>

\* Mutant of WorkerRead: no continue after a read that failed.
WorkerRead_NoContinue ==
  /\ worker = "read"
  /\ \/ conn[serving] \in {"sent", "left"} /\ UNCHANGED <<serving, conn>>
     \/ /\ conn[serving] \in {"sent", "hungup", "left"}
        /\ serving' = None
        /\ conn' = ResetOf({serving})
  /\ worker' = "handle"
  /\ UNCHANGED <<main, running, stopRequested, implAlive, listening, backlog, signal, ghosts>>

\* Mutant of WorkerRead: a read that does not end when the peer hangs up.
WorkerRead_Deaf ==
  /\ worker = "read"
  /\ conn[serving] \in {"sent", "left"}
  /\ worker' = "handle"
  /\ UNCHANGED <<main, running, stopRequested, implAlive, net, signal, ghosts>>

\* http::read blocks until the request is complete or the peer hangs up.  A read
\* that fails, for what it reads (not HTTP, a body over the parser's limit) or
\* for a connection that is gone, closes the socket and the loop goes on.
WorkerRead ==
  /\ worker = "read"
  /\ \/ /\ conn[serving] \in {"sent", "left"}
        /\ worker' = "handle" /\ UNCHANGED <<serving, conn>>
     \/ /\ conn[serving] \in {"sent", "hungup", "left"}
        /\ worker' = "check" /\ serving' = None
        /\ conn' = ResetOf({serving})
  /\ UNCHANGED <<main, running, stopRequested, implAlive, listening, backlog, signal, ghosts>>

\* m_impl->Handle returns, or throws what no handler catches.
WorkerHandle ==
  /\ worker = "handle"
  /\ \/ /\ worker' = "write"
        /\ handled' = handled \cup {serving}
        /\ late' = IF running THEN late ELSE late + 1
        /\ UNCHANGED net
     \/ worker' = "catch" /\ SocketsClose /\ UNCHANGED ghosts
  /\ UNCHANGED <<main, running, stopRequested, implAlive, signal>>

\* The client of the served connection, if it still waits, is now at to.
Told(to) == conn' = [conn EXCEPT ![serving] = IF @ = "sent" THEN to ELSE @]

\* Mutant of WorkerWrite: a server told to stop leaves before it answers.
WorkerWrite_StopFirst ==
  /\ worker = "write"
  /\ \/ /\ running
        /\ Told("answered") \/ Told("broken")
        /\ serving' = None
        /\ worker' = "check"
        /\ UNCHANGED <<listening, backlog>>
     \/ ~running /\ worker' = "leaving" /\ SocketsClose
  /\ UNCHANGED <<main, running, stopRequested, implAlive, signal, ghosts>>

\* Mutant of WorkerWrite: a connection kept for a next request.
WorkerWrite_KeepAlive ==
  /\ worker = "write"
  /\ Told("answered") \/ Told("broken")
  /\ worker' = "read"
  /\ UNCHANGED <<main, running, stopRequested, implAlive, listening, backlog, serving,
                 signal, ghosts>>

\* http::write, whose error nobody looks at, and shutdown.
WorkerWrite ==
  /\ worker = "write"
  /\ Told("answered") \/ Told("broken")
  /\ serving' = None
  /\ worker' = "check"
  /\ UNCHANGED <<main, running, stopRequested, implAlive, listening, backlog, signal, ghosts>>

\* The catch of the thread function logs the exception and clears m_running ...
WorkerCatch ==
  /\ worker = "catch"
  /\ running' = FALSE
  /\ worker' = "leaving"
  /\ UNCHANGED <<main, stopRequested, implAlive, net, signal, ghosts>>

\* ... and the thread can be joined once its function has returned.
WorkerLeaves ==
  /\ worker = "leaving"
  /\ worker' = "done"
  /\ UNCHANGED <<main, running, stopRequested, implAlive, net, signal, ghosts>>

(***************************************************************************)
(* Clients and signals                                                     *)
(***************************************************************************)
ClientConnect(c) ==
  /\ conn[c] = "idle" /\ listening /\ Len(backlog) < BacklogSize
  /\ conn' = [conn EXCEPT ![c] = "open"]
  /\ backlog' = Append(backlog, c)
  /\ UNCHANGED <<main, worker, running, stopRequested, implAlive, listening, serving, signal,
                 ghosts>>

ClientActs(c, from, to) ==
  /\ conn[c] = from
  /\ conn' = [conn EXCEPT ![c] = to]
  /\ UNCHANGED <<main, worker, running, stopRequested, implAlive, listening, backlog, serving,
                 signal, ghosts>>

ClientSend(c)   == ClientActs(c, "open", "sent")
ClientHangUp(c) == ClientActs(c, "open", "hungup")
ClientLeave(c)  == ClientActs(c, "sent", "left")

(***************************************************************************)
(* SIGINT or SIGTERM to the process.  A main thread in sigwait takes it.   *)
(* Anywhere else the worker thread, or the main thread before its mask,    *)
(* still has the default action: the process dies, or, being PID 1, loses  *)
(* the signal.  Only with no other thread left does it stay pending.       *)
(***************************************************************************)
Masked == main \notin {"construct", "start", "started"}

SignalTaken ==
  /\ main = "sigwait"
  /\ main' = "stop"
  /\ UNCHANGED <<worker, running, stopRequested, implAlive, net, pending, isInit, ghosts>>

SignalPends ==
  /\ Masked /\ main # "sigwait" /\ worker \in {"none", "done"}
  /\ pending' = TRUE
  /\ UNCHANGED <<main, worker, running, stopRequested, implAlive, net, isInit, ghosts>>

Exposed == ~Masked \/ (main # "sigwait" /\ worker \notin {"none", "done"})

SignalLost ==
  /\ Exposed /\ isInit
  /\ UNCHANGED <<main, worker, running, stopRequested, implAlive, net, pending, isInit, ghosts>>

SignalKills ==
  /\ Exposed /\ ~isInit
  /\ main' = "killed"
  /\ worker' = "done"
  /\ SocketsClose
  /\ UNCHANGED <<running, stopRequested, implAlive, pending, isInit, ghosts>>

Signal ==
  /\ ~Gone /\ signals < MaxSignals
  /\ signals' = signals + 1
  /\ SignalTaken \/ SignalPends \/ SignalLost \/ SignalKills

(***************************************************************************)
(* The specification                                                       *)
(***************************************************************************)
Main ==
  \/ MainConstruct \/ MainStart \/ MainMask \/ MainSigwait \/ MainStop
  \/ MainRequestStop \/ MainConnect \/ MainShutdown \/ MainJoin
  \/ MainDestroy \/ MainReap

Worker ==
  \/ WorkerSetup \/ WorkerCheck \/ WorkerAccept \/ WorkerRead
  \/ WorkerHandle \/ WorkerWrite \/ WorkerCatch \/ WorkerLeaves

Client(c) == ClientConnect(c) \/ ClientSend(c) \/ ClientHangUp(c) \/ ClientLeave(c)

Next == Main \/ Worker \/ Signal \/ \E c \in Clients : Client(c)

\* The operating system runs both threads; it sends no signal and clients do
\* what they like.
ThreadsRun == WF_vars(Main) /\ WF_vars(Worker)

\* Clients that finish what they began: no open connection stays silent.
ClientsFinish == \A c \in Clients : WF_vars(ClientSend(c) \/ ClientHangUp(c))

Spec == Init /\ [][Next]_vars /\ ThreadsRun

CourteousSpec == Spec /\ ClientsFinish

-------------------------------------------------------------------------------
\* Type correctness of both threads, the sockets and the signal state; the
\* listen queue never holds more than the kernel allows.
TypeOK ==
  /\ main \in MainStates
  /\ worker \in WorkerStates
  /\ running \in BOOLEAN
  /\ stopRequested \in BOOLEAN
  /\ implAlive \in BOOLEAN
  /\ listening \in BOOLEAN
  /\ backlog \in Seq(Connections)
  /\ Len(backlog) <= BacklogSize
  /\ serving \in Connections \cup {None}
  /\ conn \in [Connections -> ConnStates]
  /\ pending \in BOOLEAN
  /\ signals \in 0..MaxSignals
  /\ isInit \in BOOLEAN
  /\ handled \subseteq Connections
  /\ late \in Nat

\* The thread never outlives what it uses: while it runs, the Server's members
\* are alive and the process has not left main.
ThreadWithinServer == worker \notin {"none", "done"} => implAlive /\ ~Gone

\* Once Stop has cleared m_running at most the request already accepted, or the
\* one accept returns next, is still handled.
AtMostOneLate == late <= 1

\* Unless a signal killed the process, a client whose connection was closed
\* without an attempt to answer it had no request handled: neither Stop nor a
\* thread that fails comes between m_impl->Handle and http::write.
AnswerIsTried ==
  main # "killed" => \A c \in Clients : conn[c] = "reset" => c \notin handled

(***************************************************************************)
(* As ServerApi: who is being served and who waits are one line, and what  *)
(* the server is to those who connect is seen at its acceptor.             *)
(***************************************************************************)
Line == IF serving = None THEN backlog ELSE <<serving>> \o backlog

Stage ==
  IF main = "killed" THEN "killed"
  ELSE IF listening /\ running THEN "open"
  ELSE IF listening THEN (IF late = 0 THEN "draining" ELSE "drained")
  ELSE IF worker \in {"none", "setup"} /\ main # "exited" THEN "closed"
  ELSE "gone"

Api == INSTANCE ServerApi WITH stage <- Stage, line <- Line, Room <- BacklogSize + 1

\* ServerLifecycle implements ServerApi: whatever both threads, signals, errors and
\* clients do, connections are served in the order in which they came, a request
\* is handled once at most, one after the stop is asked for at most, and a server
\* that closes has tried to answer everybody whose request it handled.
ImplementsServerApi == Api!Spec

\* Stop joins a thread that waits in accept for a connection: its own failed and
\* no client makes one.
StopUnheard ==
  main = "unheard" /\ worker = "accept" /\ backlog = <<>>

\* Stop ends, and with it the process, unless its own connection failed and the
\* worker waits for another one for ever.
StopTerminates == main = "stop" ~> Gone \/ []StopUnheard

\* Where signals are not lost (the process is not PID 1), one signal at any
\* moment of its life ends the process, with the same exception.
SignalEndsProcess == signals > 0 /\ ~isInit ~> Gone \/ []StopUnheard

\* A complete request on an open connection does not wait for ever.
SentRequestEnds == \A c \in Clients : conn[c] = "sent" ~> conn[c] # "sent"

\* "Profile service started" (main.cpp): a process that waits for its signal
\* has a thread that serves.
StartedMeansServing == main = "sigwait" => worker # "done"
===============================================================================
