------------------------------- MODULE ServerApi -------------------------------
(***************************************************************************)
(* What the server promises those who connect to it, whatever its threads, *)
(* signals and failures do:                                                *)
(*   - connections are served one after the other, in the order in which   *)
(*     they came, and each request is handled at most once;                *)
(*   - once it is asked to stop it handles one more request at most;       *)
(*   - when it closes it has tried to answer everybody it handled, and     *)
(*     resets who is still in line; only a signal that kills it comes      *)
(*     between a request it handled and the attempt to answer it;          *)
(*   - it does not open again.                                             *)
(***************************************************************************)
EXTENDS Naturals, Sequences, SequencesExt

CONSTANTS
  Connections,
  Room   \* connections that can be in line

VARIABLES
  stage,    \* of the server
  line,     \* who is connected, the one being served first
  conn,     \* each connection, seen from its client
  handled   \* whose request was carried out

vars == <<stage, line, conn, handled>>

\* Open; asked to stop; having handled one request since then.
Listening == {"open", "draining", "drained"}

Init ==
  /\ stage = "closed"
  /\ line = <<>>
  /\ conn = [c \in Connections |-> "idle"]
  /\ handled = {}

(***************************************************************************)
(* Those who connect                                                       *)
(***************************************************************************)
Join(c) ==
  /\ stage \in Listening /\ conn[c] = "idle" /\ Len(line) < Room
  /\ line' = Append(line, c)
  /\ conn' = [conn EXCEPT ![c] = "open"]
  /\ UNCHANGED <<stage, handled>>

\* Who connected sends a request, or hangs up, or leaves without the answer.
Moves == {<<"open", "sent">>, <<"open", "hungup">>, <<"sent", "left">>}

Act(c) ==
  /\ \E move \in Moves : conn[c] = move[1] /\ conn' = [conn EXCEPT ![c] = move[2]]
  /\ UNCHANGED <<stage, line, handled>>

(***************************************************************************)
(* The server                                                              *)
(***************************************************************************)
Resets(S) ==
  conn' = [c \in Connections |->
             IF c \in S /\ conn[c] \in {"open", "sent"} THEN "reset" ELSE conn[c]]

Open ==
  /\ stage = "closed" /\ stage' \in {"open", "draining"}
  /\ UNCHANGED <<line, conn, handled>>

AskToStop ==
  /\ stage = "open" /\ stage' = "draining"
  /\ UNCHANGED <<line, conn, handled>>

Handle ==
  /\ line # <<>> /\ Head(line) \notin handled /\ conn[Head(line)] \in {"sent", "left"}
  /\ \/ stage = "open" /\ stage' = "open"
     \/ stage = "draining" /\ stage' = "drained"
  /\ handled' = handled \cup {Head(line)}
  /\ UNCHANGED <<line, conn>>

\* The attempt to answer: who still waits has the answer, or the write failed.
Answer ==
  /\ line # <<>> /\ Head(line) \in handled
  /\ \E outcome \in {"answered", "broken"} :
       conn' = [conn EXCEPT ![Head(line)] = IF @ = "sent" THEN outcome ELSE @]
  /\ line' = Tail(line)
  /\ UNCHANGED <<stage, handled>>

\* A connection that cannot be accepted or read.
Drop ==
  /\ line # <<>> /\ Head(line) \notin handled
  /\ Resets({Head(line)})
  /\ line' = Tail(line)
  /\ UNCHANGED <<stage, handled>>

Leave(last) ==
  /\ stage' = last
  /\ Resets(ToSet(line))
  /\ line' = <<>>
  /\ UNCHANGED handled

Close == stage \in Listening \cup {"closed"} /\ ToSet(line) \cap handled = {} /\ Leave("gone")
Kill  == stage # "killed" /\ Leave("killed")

Next ==
  \/ \E c \in Connections : Join(c) \/ Act(c)
  \/ Open \/ AskToStop \/ Handle \/ Answer \/ Drop \/ Close \/ Kill

Spec == Init /\ [][Next]_vars
===============================================================================
