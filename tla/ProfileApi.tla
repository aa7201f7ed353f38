------------------------------ MODULE ProfileApi ------------------------------
(***************************************************************************)
(* What the service promises its clients, whatever its threads,            *)
(* transactions and restarts do: each request is a single step between     *)
(* being asked and being answered, and that step                           *)
(*   - does all of what was asked and says so, or                          *)
(*   - fails and does nothing, or                                          *)
(*   - fails because the store went away, having done all or nothing.      *)
(***************************************************************************)
EXTENDS Requests

CONSTANT Clients

VARIABLES
  store,      \* the tables
  available,  \* the store can be reached
  asked,      \* what each client waits for, or None
  answer      \* what it is told, or None

vars == <<store, available, asked, answer>>

(***************************************************************************)
(* What a request does to the tables d, as a set of results: empty when it *)
(* cannot be done.                                                         *)
(***************************************************************************)
Effect(d, r) ==
  IF r \in BadRequests THEN {} ELSE
  CASE r.op = "GetMyProfile" -> {e \in {d} : HasProfile(d, r.user)}
    [] r.op = "GetProfileByID" -> {e \in {d} : HasProfile(d, r.target)}
    [] r.op = "CreateProfile" -> CreateProfile(d, r.user)
    [] r.op = "UpdateProfile" ->
         IF HasProfile(d, r.user)
         THEN UpdateProfile(d, r.user, Overlay(d.profiles[r.user], r.patch)) ELSE {}
    [] r.op = "UploadAvatar" -> UpdateAvatarURL(d, r.user, r.url)
    [] r.op = "DeleteAvatar" -> UpdateAvatarURL(d, r.user, Empty)
    [] r.op = "AddContact" -> AddContact(d, r.user, r.contact, r.alias)
    [] r.op = "DeleteContact" -> RemoveContact(d, r.user, r.contact)
    [] r.op = "AddFavorite" -> AddFavorite(d, r.user, r.chat)
    [] r.op = "RemoveFavorite" -> RemoveFavorite(d, r.user, r.chat)
    [] r.op = "UpdatePrivacy" -> UpdatePrivacy(d, r.user, SettingsOf(r.settings))
    [] r.op = "UpdateNotifications" -> UpsertNotifications(d, r.user, Null, r.mute)
    [] r.op = "UpdateChatNotifications" -> UpsertNotifications(d, r.user, r.chat, r.mute)
    [] OTHER -> {d}

\* The successful answer to r when it leaves the tables as e.
Success(r, e) ==
  CASE r.op = "GetProfileByID" -> ProfileAnswer(Shown(e.profiles[r.target]))
    [] r.op \in {"GetMyProfile", "UpdateProfile"} -> ProfileAnswer(Shown(e.profiles[r.user]))
    [] r.op = "GetContacts" -> [status |-> 200, contacts |-> ListContacts(e, r.user)]
    [] r.op = "GetFavorites" -> [status |-> 200, favorites |-> ListFavorites(e, r.user)]
    [] r.op = "GetPrivacy" -> [status |-> 200, privacy |-> GetPrivacy(e, r.user)]
    [] r.op = "GetNotifications" -> MuteAnswer(GetNotifications(e, r.user, Null))
    [] r.op = "GetChatNotifications" ->
         MuteAnswer(GetNotifications(e, r.user, IF r.chat \in StorableChats THEN r.chat ELSE Null))
    [] r.op \in {"CreateProfile", "AddContact", "AddFavorite"} -> Answer(201)
    [] r.op = "UploadAvatar" -> Answer(200)
    [] OTHER -> Answer(204)

Init ==
  /\ store = EmptyDatabase
  /\ available = TRUE
  /\ asked = [c \in Clients |-> None]
  /\ answer = [c \in Clients |-> None]

Ask(c) ==
  /\ asked[c] = None
  /\ \E r \in HttpRequests : asked' = [asked EXCEPT ![c] = r]
  /\ UNCHANGED <<store, available, answer>>

Waiting(c) == asked[c] # None /\ answer[c] = None

Serve(c) ==
  /\ Waiting(c) /\ available
  /\ store' \in Effect(store, asked[c])
  /\ answer' = [answer EXCEPT ![c] = Success(asked[c], store')]
  /\ UNCHANGED <<available, asked>>

Fail(c) == answer' \in {[answer EXCEPT ![c] = Answer(status)] : status \in Failures}

\* What was asked cannot be done: the answer says so, the tables stay.
Refuse(c) ==
  /\ Waiting(c) /\ Effect(store, asked[c]) = {}
  /\ Fail(c)
  /\ UNCHANGED <<store, available, asked>>

\* The store is gone, now or since earlier; the request may have been done.
Abandon(c) ==
  /\ Waiting(c) /\ available' = FALSE
  /\ \/ UNCHANGED store
     \/ available /\ store' \in Effect(store, asked[c])
  /\ Fail(c)
  /\ UNCHANGED asked

Finish(c) ==
  /\ answer[c] # None
  /\ asked' = [asked EXCEPT ![c] = None]
  /\ answer' = [answer EXCEPT ![c] = None]
  /\ UNCHANGED <<store, available>>

Outage == available' = FALSE /\ UNCHANGED <<store, asked, answer>>

\* The service dies: nobody is answered, the tables stay.
Die ==
  /\ available' = FALSE
  /\ asked' = [c \in Clients |-> None]
  /\ answer' = [c \in Clients |-> None]
  /\ UNCHANGED store

Recover ==
  /\ \A c \in Clients : asked[c] = None
  /\ available' = TRUE
  /\ UNCHANGED <<store, asked, answer>>

Next ==
  \/ \E c \in Clients : Ask(c) \/ Serve(c) \/ Refuse(c) \/ Abandon(c) \/ Finish(c)
  \/ Outage \/ Die \/ Recover

Spec == Init /\ [][Next]_vars

(***************************************************************************)
(* A write that succeeded can be sent again: until another request comes,  *)
(* it would succeed a second time and leave the tables as they are.  It is *)
(* what a client does whose connection broke before the answer.            *)
(***************************************************************************)
RetryIsHarmless ==
  \A c \in Clients :
    asked[c] \in Writes /\ Succeeded(answer[c]) => Effect(store, asked[c]) = {store}
===============================================================================
