---------------------------- MODULE ProfileService ----------------------------
(***************************************************************************)
(* The request path of the service: clients, the accept loop of Server,    *)
(* the handlers and the one PostgreSQL connection they share.              *)
(*                                                                         *)
(* A client sends one whole request on a connection of its own and waits   *)
(* for the answer.  Connections queue in the listen backlog, the worker    *)
(* thread accepts the oldest, runs its handler and answers before it       *)
(* accepts the next.  Each statement is a transaction of its own           *)
(* (PostgresConnection::ExecuteParams), so a handler that runs two of them *)
(* (PATCH /me reads, then writes; GET /notifications/{chat_id} reads again *)
(* when the first read fails) is two steps here.  Between any two steps    *)
(* the database connection can break and the process can die.              *)
(***************************************************************************)
EXTENDS Requests, Sequences

CONSTANTS
  Clients,
  Operations,    \* the operations this instance's clients ask for
  MaxRequests,   \* bound on the requests sent
  MaxCrashes     \* bound on the deaths of the process

ASSUME BoundsAssumption == MaxRequests \in Nat /\ MaxCrashes \in Nat

ASSUME ClientsAssumption == None \notin Clients

VARIABLES
  db,        \* the tables, as committed
  connOpen,  \* PostgresConnection::IsOpen
  up,        \* the process runs and listens
  backlog,   \* connections not yet accepted, oldest first
  worker,    \* the client whose request the accept loop is serving, or None
  phase,     \* where the request of each client is
  req,       \* the request of each client, None when it has none
  copy,      \* the domain::Profile PATCH /me holds between its SELECT and UPDATE
  reply,     \* the response on its way to the client, or None
  sent,      \* requests sent so far
  crashes    \* deaths of the process so far

vars == <<db, connOpen, up, backlog, worker, phase, req, copy, reply, sent, crashes>>

\* The requests this instance's clients send.
Sendable == {r \in HttpRequests : r.op \in Operations}

Phases == {"free", "queued", "running", "updating", "fallback", "replying"}

InService(c) == phase[c] \in {"running", "updating", "fallback", "replying"}

Serving(c, op) == phase[c] = "running" /\ req[c].op = op

(***************************************************************************)
(* The initial state: a fresh database, the process started and connected  *)
(***************************************************************************)
Init ==
  /\ db = EmptyDatabase
  /\ connOpen = TRUE
  /\ up = TRUE
  /\ backlog = <<>>
  /\ worker = None
  /\ phase = [c \in Clients |-> "free"]
  /\ req = [c \in Clients |-> None]
  /\ copy = [c \in Clients |-> None]
  /\ reply = [c \in Clients |-> None]
  /\ sent = 0
  /\ crashes = 0

(***************************************************************************)
(* Clients and the accept loop                                             *)
(***************************************************************************)

\* A client connects and sends a request; the kernel queues the connection.
Submit(c, r) ==
  /\ up /\ phase[c] = "free" /\ sent < MaxRequests
  /\ sent' = sent + 1
  /\ phase' = [phase EXCEPT ![c] = "queued"]
  /\ req' = [req EXCEPT ![c] = r]
  /\ backlog' = Append(backlog, c)
  /\ UNCHANGED <<db, connOpen, up, worker, copy, reply, crashes>>

\* Mutant of Accept: a server that hands each connection to a thread of its own.
Accept_Concurrent ==
  /\ up /\ backlog # <<>>
  /\ worker' = Head(backlog)
  /\ backlog' = Tail(backlog)
  /\ phase' = [phase EXCEPT ![Head(backlog)] = "running"]
  /\ UNCHANGED <<db, connOpen, up, req, copy, reply, sent, crashes>>

\* Mutant of Accept: a loop that may go on without serving or closing what it
\* accepted.
Accept_Forgets ==
  /\ up /\ worker = None /\ backlog # <<>>
  /\ backlog' = Tail(backlog)
  /\ \/ /\ worker' = Head(backlog)
        /\ phase' = [phase EXCEPT ![Head(backlog)] = "running"]
     \/ UNCHANGED <<worker, phase>>
  /\ UNCHANGED <<db, connOpen, up, req, copy, reply, sent, crashes>>

\* acceptor.accept and http::read, once the previous request is answered.
Accept ==
  /\ up /\ worker = None /\ backlog # <<>>
  /\ worker' = Head(backlog)
  /\ backlog' = Tail(backlog)
  /\ phase' = [phase EXCEPT ![Head(backlog)] = "running"]
  /\ UNCHANGED <<db, connOpen, up, req, copy, reply, sent, crashes>>

\* http::write and shutdown.  The error code of the write is not looked at: the
\* client has the answer or a broken connection, and the loop goes on.
Reply(c) ==
  /\ phase[c] = "replying"
  /\ phase' = [phase EXCEPT ![c] = "free"]
  /\ worker' = None
  /\ req' = [req EXCEPT ![c] = None]
  /\ copy' = [copy EXCEPT ![c] = None]
  /\ reply' = [reply EXCEPT ![c] = None]
  /\ UNCHANGED <<db, connOpen, up, backlog, sent, crashes>>

(***************************************************************************)
(* What every handler is made of                                           *)
(***************************************************************************)

\* The handler returns the response a.
Respond(c, a) ==
  /\ phase' = [phase EXCEPT ![c] = "replying"]
  /\ reply' = [reply EXCEPT ![c] = a]
  /\ UNCHANGED <<up, backlog, worker, req, copy, sent, crashes>>

\* It returns without having reached the database.
Refuse(c, status) == Respond(c, Answer(status)) /\ UNCHANGED <<db, connOpen>>

\* The connection is known to be closed, or breaks before the statement takes
\* effect: the call throws, and nothing opens the connection again.
Disconnected == connOpen' = FALSE /\ UNCHANGED db

\* Mutant of Query: a call that waits for the connection instead of throwing.
Query_Waiting(c, ok, failure) ==
  connOpen /\ Respond(c, ok) /\ UNCHANGED <<db, connOpen>>

\* A SELECT whose outcome is answered with ok; failure is what the handler
\* answers when the call throws.
Query(c, ok, failure) ==
  \/ connOpen /\ Respond(c, ok) /\ UNCHANGED <<db, connOpen>>
  \/ Disconnected /\ Respond(c, Answer(failure))

\* Mutant of Modify: an exception after the commit, while the response is built.
Modify_ThrowsLate(c, outcomes, ok, failure) ==
  /\ connOpen /\ db' \in outcomes
  /\ Respond(c, ok) \/ Respond(c, Answer(failure))
  /\ UNCHANGED connOpen

\* One modifying statement in a transaction of its own, outcomes being the
\* databases it can commit: refused by PostgreSQL, committed, or committed by a
\* server whose acknowledgement is lost.
Modify(c, outcomes, ok, failure) ==
  \/ Disconnected /\ Respond(c, Answer(failure))
  \/ /\ connOpen /\ outcomes = {}
     /\ Respond(c, Answer(failure)) /\ UNCHANGED <<db, connOpen>>
  \/ /\ connOpen /\ db' \in outcomes
     /\ \/ Respond(c, ok) /\ UNCHANGED connOpen
        \/ Respond(c, Answer(failure)) /\ connOpen' = FALSE

(***************************************************************************)
(* ProfileHandler                                                          *)
(***************************************************************************)
HandleCreateProfile(c) ==
  /\ Serving(c, "CreateProfile")
  /\ \/ req[c].body = "malformed" /\ Refuse(c, 500)
     \/ req[c].body = "incomplete" /\ Refuse(c, 400)
     \/ req[c].body = "ok" /\ Modify(c, CreateProfile(db, req[c].user), Answer(201), 500)

\* GetByID throws when there is no row; the handlers catch everything alike.
ProfileReply(u) ==
  IF HasProfile(db, u)
  THEN ProfileAnswer(Shown(db.profiles[u]))
  ELSE Answer(404)

HandleGetMyProfile(c) ==
  Serving(c, "GetMyProfile") /\ Query(c, ProfileReply(req[c].user), 404)

HandleGetProfileByID(c) ==
  Serving(c, "GetProfileByID") /\ Query(c, ProfileReply(req[c].target), 404)

\* PATCH /me, first half: parse the body, read the row, lay the fields of the
\* body over it.
HandleUpdateProfileRead(c) ==
  /\ Serving(c, "UpdateProfile")
  /\ \/ req[c].body = "malformed" /\ Refuse(c, 500)
     \/ req[c].body # "malformed" /\ Disconnected /\ Respond(c, Answer(500))
     \/ /\ req[c].body # "malformed" /\ connOpen
        /\ ~HasProfile(db, req[c].user) \/ req[c].body = "illtyped"
        /\ Refuse(c, 500)
     \/ /\ req[c].body = "ok" /\ connOpen /\ HasProfile(db, req[c].user)
        /\ copy' = [copy EXCEPT ![c] = Overlay(db.profiles[req[c].user], req[c].patch)]
        /\ phase' = [phase EXCEPT ![c] = "updating"]
        /\ UNCHANGED <<db, connOpen, up, backlog, worker, req, reply, sent, crashes>>

\* Mutant of HandleUpdateProfileWrite: answers with the row as it was read.
HandleUpdateProfileWrite_OldAnswer(c) ==
  /\ phase[c] = "updating"
  /\ Modify(c, UpdateProfile(db, req[c].user, copy[c]),
            ProfileAnswer(Shown(db.profiles[req[c].user])), 409)

\* PATCH /me, second half: write the whole copy back.  Whatever makes the UPDATE
\* throw is answered as a username already taken.
HandleUpdateProfileWrite(c) ==
  /\ phase[c] = "updating"
  /\ Modify(c, UpdateProfile(db, req[c].user, copy[c]),
            ProfileAnswer(Shown(copy[c])), 409)

HandleUploadAvatar(c) ==
  /\ Serving(c, "UploadAvatar")
  /\ \/ req[c].body = "malformed" /\ Refuse(c, 500)
     \/ req[c].body = "incomplete" /\ Refuse(c, 400)
     \/ req[c].body = "ok"
        /\ Modify(c, UpdateAvatarURL(db, req[c].user, req[c].url), Answer(200), 500)

HandleDeleteAvatar(c) ==
  /\ Serving(c, "DeleteAvatar")
  /\ Modify(c, UpdateAvatarURL(db, req[c].user, Empty), Answer(204), 500)

(***************************************************************************)
(* ContactsHandler, FavoritesHandler                                       *)
(***************************************************************************)
HandleGetContacts(c) ==
  /\ Serving(c, "GetContacts")
  /\ Query(c, [status |-> 200, contacts |-> ListContacts(db, req[c].user)], 404)

HandleAddContact(c) ==
  /\ Serving(c, "AddContact")
  /\ \/ req[c].body = "malformed" /\ Refuse(c, 409)
     \/ req[c].body = "incomplete" /\ Refuse(c, 400)
     \/ req[c].body = "ok"
        /\ Modify(c, AddContact(db, req[c].user, req[c].contact, req[c].alias), Answer(201), 409)

HandleDeleteContact(c) ==
  /\ Serving(c, "DeleteContact")
  /\ Modify(c, RemoveContact(db, req[c].user, req[c].contact), Answer(204), 404)

HandleGetFavorites(c) ==
  /\ Serving(c, "GetFavorites")
  /\ Query(c, [status |-> 200, favorites |-> ListFavorites(db, req[c].user)], 500)

HandleAddFavorite(c) ==
  /\ Serving(c, "AddFavorite")
  /\ Modify(c, AddFavorite(db, req[c].user, req[c].chat), Answer(201), 500)

HandleRemoveFavorite(c) ==
  /\ Serving(c, "RemoveFavorite")
  /\ Modify(c, RemoveFavorite(db, req[c].user, req[c].chat), Answer(204), 500)

(***************************************************************************)
(* PrivacyHandler, NotificationsHandler                                    *)
(***************************************************************************)
HandleGetPrivacy(c) ==
  /\ Serving(c, "GetPrivacy")
  /\ Query(c, [status |-> 200, privacy |-> GetPrivacy(db, req[c].user)], 500)

HandleUpdatePrivacy(c) ==
  /\ Serving(c, "UpdatePrivacy")
  /\ \/ req[c].body = "malformed" /\ Refuse(c, 500)
     \/ req[c].body = "ok"
        /\ Modify(c, UpdatePrivacy(db, req[c].user, SettingsOf(req[c].settings)), Answer(204), 500)

MuteReply(u, key) == MuteAnswer(GetNotifications(db, u, key))

HandleGetNotifications(c) ==
  Serving(c, "GetNotifications") /\ Query(c, MuteReply(req[c].user, Null), 500)

\* Mutant of HandleGetChatNotifications: the chat id is not handed to the query.
HandleGetChatNotifications_Global(c) ==
  Serving(c, "GetChatNotifications") /\ Query(c, MuteReply(req[c].user, Null), 500)

\* The read of the chat's row throws when the connection is gone, or when the
\* column type cannot hold the id; the handler then reads the global settings.
HandleGetChatNotifications(c) ==
  /\ Serving(c, "GetChatNotifications")
  /\ \/ /\ connOpen /\ req[c].chat \in StorableChats
        /\ Respond(c, MuteReply(req[c].user, req[c].chat)) /\ UNCHANGED <<db, connOpen>>
     \/ /\ Disconnected \/ (req[c].chat \notin StorableChats /\ UNCHANGED <<db, connOpen>>)
        /\ phase' = [phase EXCEPT ![c] = "fallback"]
        /\ UNCHANGED <<up, backlog, worker, req, copy, reply, sent, crashes>>

\* Mutant of HandleGetChatFallback: the fallback asks for the chat again.
HandleGetChatFallback_SameChat(c) ==
  /\ phase[c] = "fallback" /\ connOpen
  /\ Refuse(c, 500)

HandleGetChatFallback(c) ==
  phase[c] = "fallback" /\ Query(c, MuteReply(req[c].user, Null), 500)

HandleUpdateNotifications(c) ==
  /\ Serving(c, "UpdateNotifications")
  /\ \/ req[c].body = "malformed" /\ Refuse(c, 400)
     \/ req[c].body = "ok"
        /\ Modify(c, UpsertNotifications(db, req[c].user, Null, req[c].mute), Answer(204), 400)

HandleUpdateChatNotifications(c) ==
  /\ Serving(c, "UpdateChatNotifications")
  /\ \/ req[c].body = "malformed" /\ Refuse(c, 400)
     \/ req[c].body = "ok"
        /\ Modify(c, UpsertNotifications(db, req[c].user, req[c].chat, req[c].mute), Answer(204), 400)

(***************************************************************************)
(* Death and restart of the process (Docker: restart: unless-stopped)      *)
(***************************************************************************)

\* The process dies, or an exception ends its worker thread, and the sockets
\* are closed.  Everything in memory and every connection is gone, queued ones included; a
\* client finds its connection reset and may send again.
Crash ==
  /\ up /\ crashes < MaxCrashes
  /\ crashes' = crashes + 1
  /\ up' = FALSE
  /\ connOpen' = FALSE
  /\ backlog' = <<>>
  /\ worker' = None
  /\ phase' = [c \in Clients |-> "free"]
  /\ req' = [c \in Clients |-> None]
  /\ copy' = [c \in Clients |-> None]
  /\ reply' = [c \in Clients |-> None]
  /\ UNCHANGED <<db, sent>>

\* PostgresConnection's constructor throws while the database is unreachable, so
\* a process that gets as far as listening is connected.
Restart ==
  /\ ~up
  /\ up' = TRUE
  /\ connOpen' = TRUE
  /\ UNCHANGED <<db, backlog, worker, phase, req, copy, reply, sent, crashes>>

Handle(c) ==
  \/ HandleCreateProfile(c)
  \/ HandleGetMyProfile(c)
  \/ HandleGetProfileByID(c)
  \/ HandleUpdateProfileRead(c)
  \/ HandleUpdateProfileWrite(c)
  \/ HandleUploadAvatar(c)
  \/ HandleDeleteAvatar(c)
  \/ HandleGetContacts(c)
  \/ HandleAddContact(c)
  \/ HandleDeleteContact(c)
  \/ HandleGetFavorites(c)
  \/ HandleAddFavorite(c)
  \/ HandleRemoveFavorite(c)
  \/ HandleGetPrivacy(c)
  \/ HandleUpdatePrivacy(c)
  \/ HandleGetNotifications(c)
  \/ HandleGetChatNotifications(c)
  \/ HandleGetChatFallback(c)
  \/ HandleUpdateNotifications(c)
  \/ HandleUpdateChatNotifications(c)

Next ==
  \/ \E c \in Clients, r \in Sendable : Submit(c, r)
  \/ Accept
  \/ \E c \in Clients : Handle(c)
  \/ \E c \in Clients : Reply(c)
  \/ Crash
  \/ Restart

\* The worker thread does not stop between two calls.  Clients owe nothing,
\* nothing makes the process die, and nothing has to bring it back: a process
\* whose worker thread alone ended is not one Docker restarts.
Fairness ==
  /\ WF_vars(Accept)
  /\ \A c \in Clients : WF_vars(Handle(c)) /\ WF_vars(Reply(c))

Spec == Init /\ [][Next]_vars /\ Fairness
-------------------------------------------------------------------------------
(***************************************************************************)
(* Invariants                                                              *)
(***************************************************************************)

\* Type correctness of the request path and of the tables.
TypeOK ==
  /\ db \in Database
  /\ connOpen \in BOOLEAN
  /\ up \in BOOLEAN
  /\ backlog \in Seq(Clients)
  /\ worker \in Clients \cup {None}
  /\ phase \in [Clients -> Phases]
  /\ req \in [Clients -> HttpRequests \cup {None}]
  /\ copy \in [Clients -> Profile \cup {None}]
  /\ reply \in [Clients -> HttpResponses \cup {None}]
  /\ sent \in 0..MaxRequests
  /\ crashes \in 0..MaxCrashes

\* The loop of Server::Start serves one connection at a time: a request a
\* handler is working on is that of the connection the worker holds.
Serial == \A c \in Clients : InService(c) => worker = c

\* Every client past "free" has a request, and the backlog holds each waiting
\* client once: no connection is accepted twice or forgotten.
QueueHoldsWaiting ==
  /\ \A c \in Clients : phase[c] # "free" => req[c] # None
  /\ \A c \in Clients : phase[c] = "queued" <=> \E i \in 1..Len(backlog) : backlog[i] = c
  /\ \A i, j \in 1..Len(backlog) : backlog[i] = backlog[j] => i = j

\* The profile PATCH /me is about to write is the row as it is now with the
\* fields of the body laid over it: nothing changed it since the SELECT.
FreshCopy ==
  \A c \in Clients : phase[c] = "updating" =>
    /\ req[c] # None /\ req[c].op = "UpdateProfile" /\ req[c].body = "ok"
    /\ HasProfile(db, req[c].user)
    /\ copy[c] = Overlay(db.profiles[req[c].user], req[c].patch)

\* What a successful response r says or confirms is what the service's own
\* reads would find in the tables d.  An avatar is exempt where the user has no
\* profile: it is answered 200 and stored nowhere.  PUT /notifications is found
\* under "", not where GET /notifications looks (GlobalMuteReadsBack below).
Confirmed(r, answer, d) ==
  CASE r.op = "CreateProfile" -> HasProfile(d, r.user)
    [] r.op = "GetMyProfile" -> answer = ProfileAnswer(Shown(d.profiles[r.user]))
    [] r.op = "GetProfileByID" -> answer = ProfileAnswer(Shown(d.profiles[r.target]))
    [] r.op = "UpdateProfile" ->
         /\ answer = ProfileAnswer(Shown(d.profiles[r.user]))
         /\ \A c \in DOMAIN r.patch : d.profiles[r.user][c] = r.patch[c]
    [] r.op = "UploadAvatar" ->
         HasProfile(d, r.user) => d.profiles[r.user]["avatar_url"] = r.url
    [] r.op = "DeleteAvatar" ->
         HasProfile(d, r.user) => Shown(d.profiles[r.user])["avatar_url"] = Empty
    [] r.op = "GetContacts" -> answer.contacts = ListContacts(d, r.user)
    [] r.op = "AddContact" -> <<r.contact, OrEmpty(r.alias)>> \in ListContacts(d, r.user)
    [] r.op = "DeleteContact" -> \A t \in Texts : <<r.contact, t>> \notin ListContacts(d, r.user)
    [] r.op = "GetFavorites" -> answer.favorites = ListFavorites(d, r.user)
    [] r.op = "AddFavorite" -> r.chat \in ListFavorites(d, r.user)
    [] r.op = "RemoveFavorite" -> r.chat \notin ListFavorites(d, r.user)
    [] r.op = "GetPrivacy" -> answer.privacy = GetPrivacy(d, r.user)
    [] r.op = "UpdatePrivacy" -> GetPrivacy(d, r.user) = SettingsOf(r.settings)
    [] r.op = "GetNotifications" -> answer.mute = GetNotifications(d, r.user, Null)
    [] r.op = "GetChatNotifications" ->
         answer.mute = GetNotifications(d, r.user, IF r.chat \in StorableChats THEN r.chat ELSE Null)
    [] r.op = "UpdateNotifications" -> GetNotifications(d, r.user, Empty) = r.mute
    [] r.op = "UpdateChatNotifications" -> GetNotifications(d, r.user, r.chat) = r.mute

\* A response on its way to the client tells the truth about the tables: no
\* other request, broken connection or restart comes between the statement
\* and its answer.
AnswersMatchTables ==
  \A c \in Clients :
    phase[c] = "replying" /\ Succeeded(reply[c]) => Confirmed(req[c], reply[c], db)

(***************************************************************************)
(* Action properties                                                       *)
(***************************************************************************)

\* The columns a request asks to change.
Asked(r) ==
  CASE r.op = "UpdateProfile" /\ r.body = "ok" -> r.patch
    [] r.op = "UploadAvatar" /\ r.body = "ok" -> [c \in {"avatar_url"} |-> r.url]
    [] r.op = "DeleteAvatar" -> [c \in {"avatar_url"} |-> Empty]
    [] OTHER -> [c \in {} |-> Empty]

\* No update is lost: whenever a profile changes, what a reader sees of it
\* afterwards is what it would have seen before with the columns asked for by
\* the request being served in their place.  PATCH /me rewrites every column
\* from a copy it read earlier, so a write between its SELECT and its UPDATE
\* would be undone.
NoLostUpdate ==
  [][\A u \in Users :
       HasProfile(db, u) /\ db'.profiles[u] # db.profiles[u] =>
         \E c \in Clients :
           /\ InService(c) /\ req[c].user = u
           /\ HasProfile(db', u)
           /\ Shown(db'.profiles[u]) = Overlay(Shown(db.profiles[u]), Asked(req[c]))]_vars

\* The rows that belong to user u.
RowsOf(d, u) ==
  <<d.profiles[u], ListContacts(d, u), ListFavorites(d, u), d.privacy[u],
    [k \in ChatKeys |-> d.notifications[<<u, k>>]]>>

\* A request changes rows of its own user only.
OwnRowsOnly ==
  [][\A u \in Users : RowsOf(db', u) # RowsOf(db, u) =>
       \E c \in Clients : InService(c) /\ req[c].user = u]_vars

\* A request that changed the tables is answered with a success by that very
\* step, unless the acknowledgement of the commit was lost with the connection:
\* an error response over a working connection means that nothing changed.
ChangesAreAcknowledged ==
  [][db' # db => \E c \in Clients :
       /\ InService(c) /\ phase'[c] = "replying"
       /\ Succeeded(reply'[c]) \/ ~connOpen']_vars

(***************************************************************************)
(* The abstract specification                                              *)
(***************************************************************************)

\* The tables are the store, a request is asked from the moment it is sent, and
\* answered when its handler returns.
Api == INSTANCE ProfileApi
         WITH store <- db, available <- connOpen, asked <- req, answer <- reply

\* ProfileService implements ProfileApi: whatever queue, transactions, crashes
\* and restarts do, a request is a single step of its client's.
ImplementsApi == Api!Spec

\* A client that loses its answer may repeat its request (repositories:
\* ON CONFLICT, DELETE and UPDATE of no row).
RetryIsHarmless == Api!RetryIsHarmless

(***************************************************************************)
(* Liveness                                                                *)
(***************************************************************************)

\* A queued connection is not left waiting: it is answered, or reset by the
\* death of the process.
EveryRequestEnds == \A c \in Clients : phase[c] = "queued" ~> phase[c] = "free"

(***************************************************************************)
(* What comments, pages and messages of the repository say, and the code   *)
(* does not do                                                             *)
(***************************************************************************)

\* "username already taken" (profile_handler.cpp) is answered when another user
\* has the username the request asks for.
TakenMeansTaken ==
  \A c \in Clients :
    /\ phase[c] = "replying" /\ connOpen
    /\ req[c].op = "UpdateProfile" /\ reply[c].status = 409
    => /\ "username" \in DOMAIN req[c].patch
       /\ \E v \in Users \ {req[c].user} :
            /\ HasProfile(db, v)
            /\ db.profiles[v]["username"] = req[c].patch["username"]

\* What PUT /notifications confirmed is what GET /notifications answers.
GlobalMuteReadsBack ==
  \A c \in Clients :
    /\ phase[c] = "replying" /\ Succeeded(reply[c])
    /\ req[c].op = "UpdateNotifications"
    => GetNotifications(db, req[c].user, Null) = req[c].mute

\* "Fallback to global settings" (notifications_handler.cpp): a chat without
\* settings of its own answers with those the user stored for all chats.
ChatFollowsGlobal ==
  \A c \in Clients :
    /\ phase[c] = "replying" /\ Succeeded(reply[c])
    /\ req[c].op = "GetChatNotifications"
    /\ db.notifications[<<req[c].user, req[c].chat>>] = None
    /\ db.notifications[<<req[c].user, Empty>>] # None
    => reply[c].mute = db.notifications[<<req[c].user, Empty>>]
===============================================================================
