-------------------------- MODULE ProfileServiceProofs --------------------------
(***************************************************************************)
(* Theorems about ProfileService.                                          *)
(***************************************************************************)
EXTENDS ProfileService, SequenceTheorems, TLAPS

\* A statement commits a database of the schema when the one it builds is of it.
LEMMA CheckedIn ==
  ASSUME NEW S, NEW d \in S
  PROVE  Checked(d) \subseteq S
  BY DEF Checked

LEMMA OrEmptyType ==
  /\ \A v \in Texts \cup {Null} : OrEmpty(v) \in Texts
  /\ \A v \in Values \cup {Null} : OrEmpty(v) \in Values
  BY DEF OrEmpty, Texts, Values

LEMMA ShownType ==
  ASSUME NEW row \in Profile
  PROVE  Shown(row) \in [Columns -> Values]
  BY OrEmptyType DEF Shown, Profile

LEMMA OverlayType ==
  ASSUME NEW row \in Profile, NEW patch \in Patches
  PROVE  Overlay(row, patch) \in Profile
  BY DEF Overlay, Profile, Patches, Values, Texts

LEMMA CreateProfileType ==
  ASSUME NEW d \in Database, NEW u \in Users
  PROVE  CreateProfile(d, u) \subseteq Database
<1>1. NewProfile \in Profile
  BY DEF NewProfile, Profile
<1>2. [d EXCEPT !.profiles[u] = IF @ = None THEN NewProfile ELSE @] \in Database
  BY <1>1 DEF Database
<1> QED BY <1>2, CheckedIn DEF CreateProfile

LEMMA UpdateProfileType ==
  ASSUME NEW d \in Database, NEW u \in Users, NEW profile \in Profile
  PROVE  UpdateProfile(d, u, profile) \subseteq Database
<1> DEFINE row == [c \in Columns |-> IF c \in PatchColumns THEN OrEmpty(profile[c])
                                     ELSE d.profiles[u][c]]
<1>1. CASE HasProfile(d, u)
  <2>1. d.profiles[u] \in Profile
    BY <1>1 DEF HasProfile, Database
  <2>2. row \in Profile
    BY <2>1, OrEmptyType DEF Profile, Columns
  <2>3. [d EXCEPT !.profiles[u] = row] \in Database
    BY <2>2 DEF Database
  <2>4. UpdateProfile(d, u, profile) = Checked([d EXCEPT !.profiles[u] = row])
    BY <1>1 DEF UpdateProfile
  <2> QED BY <2>3, <2>4, CheckedIn
<1>2. CASE ~HasProfile(d, u)
  BY <1>2 DEF UpdateProfile
<1> QED BY <1>1, <1>2

LEMMA UpdateAvatarURLType ==
  ASSUME NEW d \in Database, NEW u \in Users, NEW url \in Urls \cup {Empty}
  PROVE  UpdateAvatarURL(d, u, url) \subseteq Database
<1>1. CASE HasProfile(d, u)
  <2>1. d.profiles[u] \in Profile
    BY <1>1 DEF HasProfile, Database
  <2>2. [d.profiles[u] EXCEPT !["avatar_url"] = url] \in Profile
    BY <2>1 DEF Profile, Columns, Values, Texts
  <2>3. [d EXCEPT !.profiles[u] = [@ EXCEPT !["avatar_url"] = url]] \in Database
    BY <2>2 DEF Database
  <2> QED BY <1>1, <2>3, CheckedIn DEF UpdateAvatarURL
<1>2. CASE ~HasProfile(d, u)
  BY <1>2 DEF UpdateAvatarURL
<1> QED BY <1>1, <1>2

LEMMA ContactsType ==
  ASSUME NEW d \in Database, NEW u \in Users, NEW v \in Users, NEW alias \in Texts \cup {Null}
  PROVE  /\ AddContact(d, u, v, alias) \subseteq Database
         /\ RemoveContact(d, u, v) \subseteq Database
         /\ ListContacts(d, u) \in SUBSET (Users \X Texts)
<1>1. [d EXCEPT !.contacts[<<u, v>>] = OrEmpty(alias)] \in Database
  BY OrEmptyType DEF Database
<1>2. [d EXCEPT !.contacts[<<u, v>>] = None] \in Database
  BY DEF Database
<1>3. \A w \in Users : d.contacts[<<u, w>>] # None => d.contacts[<<u, w>>] \in Texts
  BY DEF Database
<1>4. ListContacts(d, u) \in SUBSET (Users \X Texts)
  <2> SUFFICES ASSUME NEW p \in ListContacts(d, u) PROVE p \in Users \X Texts
    OBVIOUS
  <2>1. PICK w \in Users : d.contacts[<<u, w>>] # None /\ p = <<w, d.contacts[<<u, w>>]>>
    BY DEF ListContacts
  <2>2. d.contacts[<<u, w>>] \in Texts
    BY <1>3, <2>1
  <2> QED BY <2>1, <2>2
<1>5. AddContact(d, u, v, alias) \subseteq Database
  BY <1>1, CheckedIn DEF AddContact
<1>6. RemoveContact(d, u, v) \subseteq Database
  BY <1>2 DEF RemoveContact
<1> QED BY <1>4, <1>5, <1>6

LEMMA FavoritesType ==
  ASSUME NEW d \in Database, NEW u \in Users, NEW k \in ChatIds
  PROVE  /\ AddFavorite(d, u, k) \subseteq Database
         /\ RemoveFavorite(d, u, k) \subseteq Database
         /\ ListFavorites(d, u) \in SUBSET StorableChats
<1>1. k \in StorableChats => [d EXCEPT !.favorites = @ \cup {<<u, k>>}] \in Database
  BY DEF Database
<1>2. [d EXCEPT !.favorites = @ \ {<<u, k>>}] \in Database
  BY DEF Database
<1> QED BY <1>1, <1>2, CheckedIn DEF AddFavorite, RemoveFavorite, ListFavorites

LEMMA PrivacyType ==
  ASSUME NEW d \in Database, NEW u \in Users, NEW settings
  PROVE  /\ UpdatePrivacy(d, u, settings) \subseteq Database
         /\ GetPrivacy(d, u) \in Settings
<1>1. settings \in Settings => [d EXCEPT !.privacy[u] = settings] \in Database
  BY DEF Database
<1>2. [f \in PrivacyFields |-> "everyone"] \in Settings
  BY ValuesAssumption DEF Settings
<1>3. d.privacy[u] # None => d.privacy[u] \in Settings
  BY DEF Database
<1> QED BY <1>1, <1>2, <1>3, CheckedIn DEF UpdatePrivacy, GetPrivacy

LEMMA NotificationsType ==
  ASSUME NEW d \in Database, NEW u \in Users, NEW k \in ChatKeys, NEW mute \in Mutes
  PROVE  /\ UpsertNotifications(d, u, k, mute) \subseteq Database
         /\ GetNotifications(d, u, k) \in Mutes
<1>1. OrEmpty(k) \in ChatKeys
  BY DEF OrEmpty, ChatKeys, ChatIds
<1>2. [d EXCEPT !.notifications[<<u, OrEmpty(k)>>] = mute] \in Database
  BY <1>1 DEF Database
<1>3. d.notifications[<<u, k>>] # None => d.notifications[<<u, k>>] \in Mutes
  BY DEF Database
<1>4. "unmuted" \in Mutes
  BY DEF Mutes
<1> QED BY <1>2, <1>3, <1>4, CheckedIn DEF UpsertNotifications, GetNotifications

LEMMA EmptyDatabaseType == EmptyDatabase \in Database
  BY DEF EmptyDatabase, Database

(***************************************************************************)
(* The steps handlers are made of                                          *)
(***************************************************************************)
LEMMA RespondType ==
  ASSUME TypeOK, NEW c \in Clients, NEW a \in HttpResponses, Respond(c, a),
         db' \in Database, connOpen' \in BOOLEAN
  PROVE  TypeOK'
  BY DEF TypeOK, Respond, Phases

LEMMA AnswerType ==
  ASSUME NEW status \in Failures \cup Successes
  PROVE  Answer(status) \in HttpResponses
  BY DEF Answer, HttpResponses

LEMMA RefuseType ==
  ASSUME TypeOK, NEW c \in Clients, NEW status \in Failures, Refuse(c, status)
  PROVE  TypeOK'
  BY RespondType, AnswerType DEF Refuse, TypeOK

LEMMA QueryType ==
  ASSUME TypeOK, NEW c \in Clients, NEW ok \in HttpResponses, NEW failure \in Failures,
         Query(c, ok, failure)
  PROVE  TypeOK'
<1>1. Answer(failure) \in HttpResponses
  BY AnswerType
<1>2. db' = db /\ connOpen' \in BOOLEAN
  BY DEF Query, Disconnected, TypeOK
<1>3. Respond(c, ok) \/ Respond(c, Answer(failure))
  BY DEF Query
<1> QED BY <1>1, <1>2, <1>3, RespondType DEF TypeOK

LEMMA ModifyType ==
  ASSUME TypeOK, NEW c \in Clients, NEW outcomes, outcomes \subseteq Database,
         NEW ok \in HttpResponses, NEW failure \in Failures, Modify(c, outcomes, ok, failure)
  PROVE  TypeOK'
<1>1. Answer(failure) \in HttpResponses
  BY AnswerType
<1>2. db' \in Database /\ connOpen' \in BOOLEAN
  BY DEF Modify, Disconnected, TypeOK
<1>3. Respond(c, ok) \/ Respond(c, Answer(failure))
  BY DEF Modify
<1> QED BY <1>1, <1>2, <1>3, RespondType

(***************************************************************************)
(* Requests                                                                *)
(***************************************************************************)
LEMMA RequestUser ==
  ASSUME NEW r \in HttpRequests
  PROVE  r.user \in Users
  BY DEF HttpRequests, Reads, Writes, BadRequests

LEMMA RequestFields ==
  ASSUME NEW r \in HttpRequests
  PROVE  /\ r.op = "GetProfileByID" => r.target \in Users
         /\ r.op = "GetChatNotifications" => r.chat \in ChatIds
         /\ r.op = "DeleteContact" => r.contact \in Users
         /\ r.op \in {"AddFavorite", "RemoveFavorite"} => r.chat \in ChatIds
         /\ r.op = "UpdateProfile" /\ r.body = "ok" => r.patch \in Patches
         /\ r.op = "UploadAvatar" /\ r.body = "ok" => r.url \in Urls
         /\ r.op = "AddContact" /\ r.body = "ok" =>
              r.contact \in Users /\ r.alias \in Texts \cup {Null}
         /\ r.op = "UpdateNotifications" /\ r.body = "ok" => r.mute \in Mutes
         /\ r.op = "UpdateChatNotifications" /\ r.body = "ok" =>
              r.chat \in ChatIds /\ r.mute \in Mutes
<1>1. CASE r \in Reads
  BY <1>1 DEF Reads
<1>2. CASE r \in Writes
  BY <1>2 DEF Writes
<1>3. CASE r \in BadRequests
  BY <1>3 DEF BadRequests
<1> QED BY <1>1, <1>2, <1>3 DEF HttpRequests

(***************************************************************************)
(* The inductive invariant.  The types of PATCH /me's copy rest on what    *)
(* FreshCopy says of it, FreshCopy on nobody else writing (Serial), and    *)
(* Serial on the accept loop finding waiting clients in the backlog.       *)
(***************************************************************************)
IInv == TypeOK /\ QueueHoldsWaiting /\ Serial /\ FreshCopy

LEMMA InitIInv == Init => IInv
<1> SUFFICES ASSUME Init PROVE IInv
  OBVIOUS
<1>1. TypeOK
  BY EmptyDatabaseType, BoundsAssumption DEF Init, TypeOK, Phases
<1>2. QueueHoldsWaiting
  BY DEF Init, QueueHoldsWaiting
<1>3. Serial /\ FreshCopy
  BY DEF Init, Serial, FreshCopy, InService
<1> QED BY <1>1, <1>2, <1>3 DEF IInv

\* A handler works for a client that has a request.
LEMMA ServedRequest ==
  ASSUME IInv, NEW c \in Clients, phase[c] # "free"
  PROVE  req[c] \in HttpRequests
  BY DEF IInv, TypeOK, QueueHoldsWaiting

\* Every handler keeps the types.
LEMMA HandlersType ==
  ASSUME IInv, NEW c \in Clients, Handle(c)
  PROVE  TypeOK'
<1> DEFINE r == req[c]
           u == req[c].user
<1>1. phase[c] # "free"
  BY DEF Handle, Serving, HandleCreateProfile, HandleGetMyProfile, HandleGetProfileByID,
         HandleUpdateProfileRead, HandleUpdateProfileWrite, HandleUploadAvatar,
         HandleDeleteAvatar, HandleGetContacts, HandleAddContact, HandleDeleteContact,
         HandleGetFavorites, HandleAddFavorite, HandleRemoveFavorite, HandleGetPrivacy,
         HandleUpdatePrivacy, HandleGetNotifications, HandleGetChatNotifications,
         HandleGetChatFallback, HandleUpdateNotifications, HandleUpdateChatNotifications
<1>2. r \in HttpRequests /\ u \in Users
  BY <1>1, ServedRequest, RequestUser
<1>3. TypeOK /\ db \in Database
  BY DEF IInv, TypeOK
<1>4. \A status \in Failures \cup Successes : Answer(status) \in HttpResponses
  BY AnswerType
<1>5. 200 \in Successes /\ 201 \in Successes /\ 204 \in Successes
      /\ 400 \in Failures /\ 404 \in Failures /\ 409 \in Failures /\ 500 \in Failures
  BY DEF Failures, Successes
<1>6. \A v \in Users : ProfileReply(v) \in HttpResponses
  <2> SUFFICES ASSUME NEW v \in Users PROVE ProfileReply(v) \in HttpResponses
    OBVIOUS
  <2>1. CASE HasProfile(db, v)
    <3>1. Shown(db.profiles[v]) \in [Columns -> Values]
      BY <1>3, <2>1, ShownType DEF HasProfile, Database
    <3> QED BY <2>1, <3>1 DEF ProfileReply, ProfileAnswer, HttpResponses
  <2>2. CASE ~HasProfile(db, v)
    BY <2>2, <1>4, <1>5 DEF ProfileReply
  <2> QED BY <2>1, <2>2
<1>7. \A k \in ChatKeys : MuteReply(u, k) \in HttpResponses
  <2>1. "muted" \in Mutes
    BY DEF Mutes
  <2> QED BY <1>2, <1>3, <2>1, NotificationsType DEF MuteReply, MuteAnswer, HttpResponses
<1>8. Null \in ChatKeys /\ ChatIds \subseteq ChatKeys
  BY DEF ChatKeys
<1>9. CASE HandleCreateProfile(c)
  <2>1. CreateProfile(db, u) \subseteq Database
    BY <1>2, <1>3, CreateProfileType
  <2> QED BY <1>3, <1>4, <1>5, <1>9, <2>1, RefuseType, ModifyType DEF HandleCreateProfile
<1>10. CASE HandleGetMyProfile(c)
  BY <1>2, <1>3, <1>5, <1>6, <1>10, QueryType DEF HandleGetMyProfile
<1>11. CASE HandleGetProfileByID(c)
  <2>1. r.target \in Users
    BY <1>2, <1>11, RequestFields DEF HandleGetProfileByID, Serving
  <2> QED BY <1>3, <1>5, <1>6, <1>11, <2>1, QueryType DEF HandleGetProfileByID
<1>12. CASE HandleUpdateProfileRead(c)
  <2>1. CASE Refuse(c, 500)
    BY <1>3, <1>5, <2>1, RefuseType
  <2>2. CASE Disconnected /\ Respond(c, Answer(500))
    BY <1>3, <1>4, <1>5, <2>2, RespondType DEF Disconnected
  <2>3. CASE /\ r.body = "ok" /\ HasProfile(db, u)
             /\ copy' = [copy EXCEPT ![c] = Overlay(db.profiles[u], r.patch)]
             /\ phase' = [phase EXCEPT ![c] = "updating"]
             /\ UNCHANGED <<db, connOpen, up, backlog, worker, req, reply, sent, crashes>>
    <3>1. r.patch \in Patches
      BY <1>2, <1>12, <2>3, RequestFields DEF HandleUpdateProfileRead, Serving
    <3>2. Overlay(db.profiles[u], r.patch) \in Profile
      BY <1>2, <1>3, <2>3, <3>1, OverlayType DEF HasProfile, Database
    <3> QED BY <1>3, <2>3, <3>2 DEF TypeOK, Phases
  <2> QED BY <1>12, <2>1, <2>2, <2>3 DEF HandleUpdateProfileRead
<1>13. CASE HandleUpdateProfileWrite(c)
  <2>1. r.op = "UpdateProfile" /\ r.body = "ok" /\ HasProfile(db, u)
        /\ copy[c] = Overlay(db.profiles[u], r.patch)
    BY <1>13 DEF HandleUpdateProfileWrite, IInv, FreshCopy
  <2>2. copy[c] \in Profile
    BY <1>2, <1>3, <2>1, RequestFields, OverlayType DEF HasProfile, Database
  <2>3. UpdateProfile(db, u, copy[c]) \subseteq Database
    BY <1>2, <1>3, <2>2, UpdateProfileType
  <2>4. ProfileAnswer(Shown(copy[c])) \in HttpResponses
    BY <2>2, ShownType DEF ProfileAnswer, HttpResponses
  <2> QED BY <1>3, <1>5, <1>13, <2>3, <2>4, ModifyType DEF HandleUpdateProfileWrite
<1>14. CASE HandleUploadAvatar(c)
  <2>1. r.body = "ok" => UpdateAvatarURL(db, u, r.url) \subseteq Database
    BY <1>2, <1>3, <1>14, RequestFields, UpdateAvatarURLType DEF HandleUploadAvatar, Serving
  <2> QED BY <1>3, <1>4, <1>5, <1>14, <2>1, RefuseType, ModifyType DEF HandleUploadAvatar
<1>15. CASE HandleDeleteAvatar(c)
  <2>1. UpdateAvatarURL(db, u, Empty) \subseteq Database
    BY <1>2, <1>3, UpdateAvatarURLType
  <2> QED BY <1>3, <1>4, <1>5, <1>15, <2>1, ModifyType DEF HandleDeleteAvatar
<1>16. CASE HandleGetContacts(c)
  <2>1. ListContacts(db, u) \in SUBSET (Users \X Texts)
    <3>1. Null \in Texts \cup {Null}
      OBVIOUS
    <3> QED BY <1>2, <1>3, <3>1, ContactsType
  <2>2. [status |-> 200, contacts |-> ListContacts(db, u)] \in HttpResponses
    BY <2>1 DEF HttpResponses
  <2> QED BY <1>3, <1>5, <1>16, <2>2, QueryType DEF HandleGetContacts
<1>17. CASE HandleAddContact(c)
  <2>1. r.body = "ok" => AddContact(db, u, r.contact, r.alias) \subseteq Database
    BY <1>2, <1>3, <1>17, RequestFields, ContactsType DEF HandleAddContact, Serving
  <2> QED BY <1>3, <1>4, <1>5, <1>17, <2>1, RefuseType, ModifyType DEF HandleAddContact
<1>18. CASE HandleDeleteContact(c)
  <2>1. r.contact \in Users
    BY <1>2, <1>18, RequestFields DEF HandleDeleteContact, Serving
  <2>2. RemoveContact(db, u, r.contact) \subseteq Database
    BY <1>2, <1>3, <2>1, ContactsType
  <2> QED BY <1>3, <1>4, <1>5, <1>18, <2>2, ModifyType DEF HandleDeleteContact
<1>19. CASE HandleGetFavorites(c)
  <2>1. ListFavorites(db, u) \in SUBSET StorableChats
    BY DEF ListFavorites
  <2>2. [status |-> 200, favorites |-> ListFavorites(db, u)] \in HttpResponses
    BY <2>1 DEF HttpResponses
  <2> QED BY <1>3, <1>5, <1>19, <2>2, QueryType DEF HandleGetFavorites
<1>20. CASE HandleAddFavorite(c)
  <2>1. AddFavorite(db, u, r.chat) \subseteq Database
    BY <1>2, <1>3, <1>20, RequestFields, FavoritesType DEF HandleAddFavorite, Serving
  <2> QED BY <1>3, <1>4, <1>5, <1>20, <2>1, ModifyType DEF HandleAddFavorite
<1>21. CASE HandleRemoveFavorite(c)
  <2>1. RemoveFavorite(db, u, r.chat) \subseteq Database
    BY <1>2, <1>3, <1>21, RequestFields, FavoritesType DEF HandleRemoveFavorite, Serving
  <2> QED BY <1>3, <1>4, <1>5, <1>21, <2>1, ModifyType DEF HandleRemoveFavorite
<1>22. CASE HandleGetPrivacy(c)
  <2>1. [status |-> 200, privacy |-> GetPrivacy(db, u)] \in HttpResponses
    BY <1>2, <1>3, PrivacyType DEF HttpResponses
  <2> QED BY <1>3, <1>5, <1>22, <2>1, QueryType DEF HandleGetPrivacy
<1>23. CASE HandleUpdatePrivacy(c)
  <2>1. UpdatePrivacy(db, u, SettingsOf(r.settings)) \subseteq Database
    BY <1>2, <1>3, PrivacyType
  <2> QED BY <1>3, <1>4, <1>5, <1>23, <2>1, RefuseType, ModifyType DEF HandleUpdatePrivacy
<1>24. CASE HandleGetNotifications(c)
  BY <1>3, <1>5, <1>7, <1>8, <1>24, QueryType DEF HandleGetNotifications
<1>25. CASE HandleGetChatNotifications(c)
  <2>1. r.chat \in ChatKeys
    BY <1>2, <1>8, <1>25, RequestFields DEF HandleGetChatNotifications, Serving
  <2>2. CASE Respond(c, MuteReply(u, r.chat)) /\ UNCHANGED <<db, connOpen>>
    BY <1>3, <1>7, <2>1, <2>2, RespondType DEF TypeOK
  <2>3. CASE /\ Disconnected \/ UNCHANGED <<db, connOpen>>
             /\ phase' = [phase EXCEPT ![c] = "fallback"]
             /\ UNCHANGED <<up, backlog, worker, req, copy, reply, sent, crashes>>
    BY <1>3, <2>3 DEF TypeOK, Phases, Disconnected
  <2> QED BY <1>25, <2>2, <2>3 DEF HandleGetChatNotifications
<1>26. CASE HandleGetChatFallback(c)
  BY <1>3, <1>5, <1>7, <1>8, <1>26, QueryType DEF HandleGetChatFallback
<1>27. CASE HandleUpdateNotifications(c)
  <2>1. r.body = "ok" => UpsertNotifications(db, u, Null, r.mute) \subseteq Database
    BY <1>2, <1>3, <1>8, <1>27, RequestFields, NotificationsType
       DEF HandleUpdateNotifications, Serving
  <2> QED BY <1>3, <1>4, <1>5, <1>27, <2>1, RefuseType, ModifyType DEF HandleUpdateNotifications
<1>28. CASE HandleUpdateChatNotifications(c)
  <2>1. r.body = "ok" => UpsertNotifications(db, u, r.chat, r.mute) \subseteq Database
    BY <1>2, <1>3, <1>8, <1>28, RequestFields, NotificationsType
       DEF HandleUpdateChatNotifications, Serving
  <2> QED BY <1>3, <1>4, <1>5, <1>28, <2>1, RefuseType, ModifyType
          DEF HandleUpdateChatNotifications
<1> QED BY <1>9, <1>10, <1>11, <1>12, <1>13, <1>14, <1>15, <1>16, <1>17, <1>18, <1>19, <1>20,
           <1>21, <1>22, <1>23, <1>24, <1>25, <1>26, <1>27, <1>28 DEF Handle

(***************************************************************************)
(* What handlers leave alone                                               *)
(***************************************************************************)

\* A handler starts and ends in service, and moves no other client.
LEMMA HandlerPhase ==
  ASSUME NEW c \in Clients, Handle(c)
  PROVE  /\ phase[c] \in {"running", "updating", "fallback"}
         /\ UNCHANGED <<up, backlog, worker, req, sent, crashes>>
         /\ \/ phase' = [phase EXCEPT ![c] = "replying"] /\ copy' = copy
            \/ phase' = [phase EXCEPT ![c] = "fallback"] /\ copy' = copy
            \/ /\ phase' = [phase EXCEPT ![c] = "updating"]
               /\ req[c].op = "UpdateProfile" /\ req[c].body = "ok"
               /\ HasProfile(db, req[c].user) /\ db' = db
               /\ copy' = [copy EXCEPT ![c] = Overlay(db.profiles[req[c].user], req[c].patch)]
<1> USE DEF Serving
<1>1. \A a : Respond(c, a) => /\ phase' = [phase EXCEPT ![c] = "replying"] /\ copy' = copy
                            /\ UNCHANGED <<up, backlog, worker, req, sent, crashes>>
  BY DEF Respond
<1>2. \A status : Refuse(c, status) =>
         /\ phase' = [phase EXCEPT ![c] = "replying"] /\ copy' = copy
         /\ UNCHANGED <<up, backlog, worker, req, sent, crashes>>
  BY <1>1 DEF Refuse
<1>3. \A ok, failure : Query(c, ok, failure) =>
         /\ phase' = [phase EXCEPT ![c] = "replying"] /\ copy' = copy
         /\ UNCHANGED <<up, backlog, worker, req, sent, crashes>>
  BY <1>1 DEF Query
<1>4. \A outcomes, ok, failure : Modify(c, outcomes, ok, failure) =>
         /\ phase' = [phase EXCEPT ![c] = "replying"] /\ copy' = copy
         /\ UNCHANGED <<up, backlog, worker, req, sent, crashes>>
  BY <1>1 DEF Modify
<1>5. CASE HandleUpdateProfileRead(c)
  BY <1>1, <1>2, <1>5 DEF HandleUpdateProfileRead
<1>6. CASE HandleGetChatNotifications(c)
  BY <1>1, <1>6 DEF HandleGetChatNotifications
<1>7. CASE HandleUpdateProfileWrite(c) \/ HandleGetChatFallback(c)
  BY <1>3, <1>4, <1>7 DEF HandleUpdateProfileWrite, HandleGetChatFallback
<1>8. CASE \/ HandleGetMyProfile(c) \/ HandleGetProfileByID(c) \/ HandleGetContacts(c)
           \/ HandleGetFavorites(c) \/ HandleGetPrivacy(c) \/ HandleGetNotifications(c)
  BY <1>3, <1>8 DEF HandleGetMyProfile, HandleGetProfileByID, HandleGetContacts,
                    HandleGetFavorites, HandleGetPrivacy, HandleGetNotifications
<1>9. CASE \/ HandleCreateProfile(c) \/ HandleUploadAvatar(c) \/ HandleDeleteAvatar(c)
           \/ HandleAddContact(c) \/ HandleDeleteContact(c) \/ HandleAddFavorite(c)
           \/ HandleRemoveFavorite(c) \/ HandleUpdatePrivacy(c)
           \/ HandleUpdateNotifications(c) \/ HandleUpdateChatNotifications(c)
  BY <1>2, <1>4, <1>9
     DEF HandleCreateProfile, HandleUploadAvatar, HandleDeleteAvatar, HandleAddContact,
         HandleDeleteContact, HandleAddFavorite, HandleRemoveFavorite, HandleUpdatePrivacy,
         HandleUpdateNotifications, HandleUpdateChatNotifications
<1> QED BY <1>5, <1>6, <1>7, <1>8, <1>9 DEF Handle

\* The accept loop's bookkeeping: one step per kind of action.
LEMMA NextIInv == IInv /\ [Next]_vars => IInv'
<1> SUFFICES ASSUME IInv, [Next]_vars PROVE IInv'
  OBVIOUS
<1> USE DEF IInv
<1>1. ASSUME NEW c \in Clients, NEW r \in Sendable, Submit(c, r) PROVE IInv'
  <2>1. r \in HttpRequests /\ r # None
    BY RequestsAssumption DEF Sendable
  <2>2. TypeOK'
    BY <1>1, <2>1, BoundsAssumption DEF Submit, TypeOK, Phases
  <2>3. backlog \in Seq(Clients) /\ backlog' = Append(backlog, c)
    BY <1>1 DEF Submit, TypeOK
  <2>4. /\ Len(backlog') = Len(backlog) + 1
        /\ \A i \in 1..Len(backlog) : backlog'[i] = backlog[i]
        /\ backlog'[Len(backlog) + 1] = c
    BY <2>3
  <2>5. \A i \in 1..Len(backlog) : backlog[i] \in Clients /\ phase[backlog[i]] = "queued"
    BY DEF TypeOK, QueueHoldsWaiting
  <2>6. phase[c] = "free" /\ phase' = [phase EXCEPT ![c] = "queued"]
        /\ req' = [req EXCEPT ![c] = r]
    BY <1>1 DEF Submit
  <2>7. QueueHoldsWaiting'
    <3>1. \A d \in Clients : phase'[d] # "free" => req'[d] # None
      BY <2>1, <2>6 DEF TypeOK, QueueHoldsWaiting
    <3>2. \A d \in Clients : phase'[d] = "queued"
                             <=> \E i \in 1..Len(backlog') : backlog'[i] = d
      <4> SUFFICES ASSUME NEW d \in Clients
                   PROVE phase'[d] = "queued" <=> \E i \in 1..Len(backlog') : backlog'[i] = d
        OBVIOUS
      <4>1. Len(backlog) \in Nat
        BY <2>3
      <4>2. CASE d = c
        BY <2>4, <2>6, <4>1, <4>2 DEF TypeOK
      <4>3. CASE d # c
        <5>1. phase'[d] = phase[d]
          BY <2>6, <4>3 DEF TypeOK
        <5>2. (\E i \in 1..Len(backlog') : backlog'[i] = d)
              <=> \E i \in 1..Len(backlog) : backlog[i] = d
          BY <2>4, <4>1, <4>3
        <5> QED BY <5>1, <5>2 DEF QueueHoldsWaiting
      <4> QED BY <4>2, <4>3
    <3>3. \A i, j \in 1..Len(backlog') : backlog'[i] = backlog'[j] => i = j
      <4>1. Len(backlog) \in Nat
        BY <2>3
      <4>2. \A i \in 1..Len(backlog) : backlog[i] # c
        BY <2>5, <2>6
      <4> QED BY <2>4, <4>1, <4>2 DEF QueueHoldsWaiting
    <3> QED BY <3>1, <3>2, <3>3 DEF QueueHoldsWaiting
  <2>8. Serial' /\ FreshCopy'
    BY <1>1, <2>6 DEF Submit, Serial, FreshCopy, InService, TypeOK
  <2> QED BY <2>2, <2>7, <2>8
<1>2. CASE Accept
  <2> DEFINE h == Head(backlog)
  <2>1. backlog \in Seq(Clients) /\ backlog # <<>> /\ backlog' = Tail(backlog)
    BY <1>2 DEF Accept, TypeOK
  <2>2. /\ Len(backlog) \in Nat \ {0} /\ Len(backlog') = Len(backlog) - 1
        /\ \A i \in 1..Len(backlog') : backlog'[i] = backlog[i + 1]
        /\ h = backlog[1] /\ h \in Clients /\ backlog' \in Seq(Clients)
    BY <2>1
  <2>3. phase[h] = "queued" /\ phase' = [phase EXCEPT ![h] = "running"] /\ worker' = h
    BY <1>2, <2>2 DEF Accept, QueueHoldsWaiting
  <2>4. TypeOK'
    BY <1>2, <2>2, <2>3 DEF Accept, TypeOK, Phases
  <2>5. QueueHoldsWaiting'
    <3>1. \A d \in Clients : phase'[d] # "free" => req'[d] # None
      BY <1>2, <2>3, <2>2 DEF Accept, TypeOK, QueueHoldsWaiting
    <3>2. \A d \in Clients : phase'[d] = "queued"
                             <=> \E i \in 1..Len(backlog') : backlog'[i] = d
      <4> SUFFICES ASSUME NEW d \in Clients
                   PROVE phase'[d] = "queued" <=> \E i \in 1..Len(backlog') : backlog'[i] = d
        OBVIOUS
      <4>1. CASE d = h
        <5>1. \A i \in 1..Len(backlog') : backlog'[i] # h
          BY <2>2 DEF QueueHoldsWaiting
        <5> QED BY <2>2, <2>3, <4>1, <5>1 DEF TypeOK
      <4>2. CASE d # h
        <5>1. phase'[d] = phase[d]
          BY <2>3, <4>2 DEF TypeOK
        <5>2. ASSUME NEW i \in 1..Len(backlog), backlog[i] = d
              PROVE  \E j \in 1..Len(backlog') : backlog'[j] = d
          <6>1. i # 1
            BY <2>2, <4>2, <5>2
          <6>2. i - 1 \in 1..Len(backlog') /\ backlog'[i - 1] = d
            BY <2>2, <5>2, <6>1
          <6> QED BY <6>2
        <5>3. ASSUME NEW j \in 1..Len(backlog'), backlog'[j] = d
              PROVE  \E i \in 1..Len(backlog) : backlog[i] = d
          <6>1. j + 1 \in 1..Len(backlog) /\ backlog[j + 1] = d
            BY <2>2, <5>3
          <6> QED BY <6>1
        <5> QED BY <5>1, <5>2, <5>3 DEF QueueHoldsWaiting
      <4> QED BY <4>1, <4>2
    <3>3. \A i, j \in 1..Len(backlog') : backlog'[i] = backlog'[j] => i = j
      <4> SUFFICES ASSUME NEW i \in 1..Len(backlog'), NEW j \in 1..Len(backlog'),
                          backlog'[i] = backlog'[j]
                   PROVE i = j
        OBVIOUS
      <4>1. i + 1 \in 1..Len(backlog) /\ j + 1 \in 1..Len(backlog)
            /\ backlog[i + 1] = backlog[j + 1]
        BY <2>2
      <4> QED BY <4>1 DEF QueueHoldsWaiting
    <3> QED BY <3>1, <3>2, <3>3 DEF QueueHoldsWaiting
  <2>6. \A d \in Clients : ~InService(d)
    BY <1>2, ClientsAssumption DEF Accept, Serial
  <2>7. Serial' /\ FreshCopy'
    BY <1>2, <2>2, <2>3, <2>6 DEF Accept, Serial, FreshCopy, InService, TypeOK
  <2> QED BY <2>4, <2>5, <2>7
<1>3. ASSUME NEW c \in Clients, Handle(c) PROVE IInv'
  <2>1. TypeOK'
    BY <1>3, HandlersType
  <2>2. PICK p \in {"replying", "fallback", "updating"} : phase' = [phase EXCEPT ![c] = p]
    BY <1>3, HandlerPhase
  <2>3. phase[c] \in {"running", "updating", "fallback"}
        /\ UNCHANGED <<up, backlog, worker, req, sent, crashes>>
    BY <1>3, HandlerPhase
  <2>4. QueueHoldsWaiting'
    BY <2>2, <2>3 DEF TypeOK, QueueHoldsWaiting
  <2>5. worker = c
    BY <2>3 DEF Serial, InService
  <2>6. Serial'
    BY <2>2, <2>3, <2>5 DEF Serial, InService, TypeOK
  <2>7. \A d \in Clients : phase'[d] = "updating" => d = c
    <3>1. \A d \in Clients \ {c} : phase'[d] = phase[d]
      BY <2>2 DEF TypeOK
    <3> QED BY <2>5, <3>1 DEF Serial, InService
  <2>8. FreshCopy'
    <3> SUFFICES ASSUME phase'[c] = "updating"
                 PROVE /\ req[c] # None /\ req[c].op = "UpdateProfile" /\ req[c].body = "ok"
                       /\ HasProfile(db', req[c].user)
                       /\ copy'[c] = Overlay(db'.profiles[req[c].user], req[c].patch)
      BY <2>3, <2>7 DEF FreshCopy
    <3>1. /\ req[c].op = "UpdateProfile" /\ req[c].body = "ok"
          /\ HasProfile(db, req[c].user) /\ db' = db
          /\ copy' = [copy EXCEPT ![c] = Overlay(db.profiles[req[c].user], req[c].patch)]
      BY <1>3, HandlerPhase DEF TypeOK
    <3>2. req[c] # None
      BY <2>3 DEF QueueHoldsWaiting
    <3> QED BY <3>1, <3>2 DEF TypeOK
  <2> QED BY <2>1, <2>4, <2>6, <2>8
<1>4. ASSUME NEW c \in Clients, Reply(c) PROVE IInv'
  <2>1. worker = c
    BY <1>4 DEF Reply, Serial, InService
  <2>2. TypeOK'
    BY <1>4 DEF Reply, TypeOK, Phases
  <2>3. QueueHoldsWaiting'
    BY <1>4 DEF Reply, TypeOK, QueueHoldsWaiting
  <2>4. \A d \in Clients : ~InService(d)'
    BY <1>4, <2>1 DEF Reply, Serial, InService, TypeOK
  <2> QED BY <2>2, <2>3, <2>4 DEF Serial, FreshCopy, InService
<1>5. CASE Crash
  <2>1. TypeOK'
    <3>1. crashes' \in 0..MaxCrashes
      BY <1>5, BoundsAssumption DEF Crash, TypeOK
    <3>2. backlog' \in Seq(Clients)
      BY <1>5 DEF Crash
    <3>3. /\ phase' \in [Clients -> Phases]
          /\ req' \in [Clients -> HttpRequests \cup {None}]
          /\ copy' \in [Clients -> Profile \cup {None}]
          /\ reply' \in [Clients -> HttpResponses \cup {None}]
      BY <1>5 DEF Crash, Phases
    <3>4. /\ db' \in Database /\ sent' \in 0..MaxRequests
          /\ up' \in BOOLEAN /\ connOpen' \in BOOLEAN /\ worker' \in Clients \cup {None}
      BY <1>5 DEF Crash, TypeOK
    <3> QED BY <3>1, <3>2, <3>3, <3>4 DEF TypeOK
  <2>2. \A c \in Clients : phase'[c] = "free"
    BY <1>5 DEF Crash
  <2>3. 1..Len(backlog') = {}
    BY <1>5 DEF Crash
  <2>4. QueueHoldsWaiting'
    BY <2>2, <2>3 DEF QueueHoldsWaiting
  <2> QED BY <2>1, <2>2, <2>4 DEF Serial, FreshCopy, InService
<1>6. CASE Restart
  BY <1>6 DEF Restart, TypeOK, QueueHoldsWaiting, Serial, FreshCopy, InService
<1>7. CASE UNCHANGED vars
  BY <1>7 DEF vars, TypeOK, QueueHoldsWaiting, Serial, FreshCopy, InService
<1> QED BY <1>1, <1>2, <1>3, <1>4, <1>5, <1>6, <1>7 DEF Next

\* In every reachable state the types hold, the queue is consistent, one request
\* is served and the copy of PATCH /me is current: the four together are inductive.
THEOREM Invariance == Spec => []IInv
  BY InitIInv, NextIInv, PTL DEF Spec

(***************************************************************************)
(* Results                                                                 *)
(***************************************************************************)

\* Type correctness of the tables, the queue and every request and response.
THEOREM TypeCorrect == Spec => []TypeOK
<1>1. IInv => TypeOK
  BY DEF IInv
<1> QED BY <1>1, Invariance, PTL

\* One request at a time: a handler works only for the client the accept loop
\* holds, whatever crashes and restarts come between.
THEOREM OneAtATime == Spec => []Serial
<1>1. IInv => Serial
  BY DEF IInv
<1> QED BY <1>1, Invariance, PTL

\* PATCH /me writes back a copy that is still the row it read, with the fields
\* asked for: its two transactions behave as one.
THEOREM CopyIsFresh == Spec => []FreshCopy
<1>1. IInv => FreshCopy
  BY DEF IInv
<1> QED BY <1>1, Invariance, PTL

\* The backlog holds the connections that wait and no other, each once: accept
\* never hands the loop a client that is being served or has its answer.
THEOREM BacklogIsWaiting == Spec => []QueueHoldsWaiting
<1>1. IInv => QueueHoldsWaiting
  BY DEF IInv
<1> QED BY <1>1, Invariance, PTL

(***************************************************************************)
(* No update is lost                                                       *)
(***************************************************************************)

\* What each statement does to a profile that exists.
LEMMA CreateKeepsProfiles ==
  ASSUME NEW d \in Database, NEW u \in Users, NEW e \in CreateProfile(d, u),
         NEW v \in Users, HasProfile(d, v)
  PROVE  e.profiles[v] = d.profiles[v]
<1>1. e = [d EXCEPT !.profiles[u] = IF @ = None THEN NewProfile ELSE @]
  BY DEF CreateProfile, Checked
<1> QED BY <1>1 DEF Database, HasProfile

LEMMA UpdateProfileRow ==
  ASSUME NEW d \in Database, NEW u \in Users, NEW profile, NEW e \in UpdateProfile(d, u, profile),
         NEW v \in Users, HasProfile(d, v)
  PROVE  /\ v # u => e.profiles[v] = d.profiles[v]
         /\ v = u => e.profiles[v] = [c \in Columns |->
              IF c \in PatchColumns THEN OrEmpty(profile[c]) ELSE d.profiles[u][c]]
<1> DEFINE row == [c \in Columns |-> IF c \in PatchColumns THEN OrEmpty(profile[c])
                                     ELSE d.profiles[u][c]]
<1>1. CASE ~HasProfile(d, u)
  BY <1>1 DEF UpdateProfile
<1>2. CASE HasProfile(d, u)
  <2>1. e = [d EXCEPT !.profiles[u] = row]
    BY <1>2 DEF UpdateProfile, Checked
  <2> HIDE DEF row
  <2>2. e.profiles = [d.profiles EXCEPT ![u] = row]
    BY <2>1 DEF Database
  <2>3. (v # u => e.profiles[v] = d.profiles[v]) /\ (v = u => e.profiles[v] = row)
    BY <2>2 DEF Database
  <2> QED BY <2>3 DEF row
<1> QED BY <1>1, <1>2

LEMMA UpdateAvatarRow ==
  ASSUME NEW d \in Database, NEW u \in Users, NEW url, NEW e \in UpdateAvatarURL(d, u, url),
         NEW v \in Users, HasProfile(d, v)
  PROVE  /\ v # u => e.profiles[v] = d.profiles[v]
         /\ v = u => e.profiles[v] = [d.profiles[v] EXCEPT !["avatar_url"] = url]
<1>1. CASE ~HasProfile(d, u)
  BY <1>1 DEF UpdateAvatarURL
<1>2. CASE HasProfile(d, u)
  <2>1. e = [d EXCEPT !.profiles[u] = [@ EXCEPT !["avatar_url"] = url]]
    BY <1>2 DEF UpdateAvatarURL, Checked
  <2> QED BY <2>1 DEF Database
<1> QED BY <1>1, <1>2

\* The statements on the other tables.
LEMMA OtherStatementsKeepProfiles ==
  ASSUME NEW d \in Database, NEW u, NEW e
  PROVE  /\ \A x, y : e \in AddContact(d, u, x, y) => e.profiles = d.profiles
         /\ \A x : e \in RemoveContact(d, u, x) => e.profiles = d.profiles
         /\ \A x : e \in AddFavorite(d, u, x) => e.profiles = d.profiles
         /\ \A x : e \in RemoveFavorite(d, u, x) => e.profiles = d.profiles
         /\ \A x : e \in UpdatePrivacy(d, u, x) => e.profiles = d.profiles
         /\ \A x, y : e \in UpsertNotifications(d, u, x, y) => e.profiles = d.profiles
  BY DEF AddContact, RemoveContact, AddFavorite, RemoveFavorite, UpdatePrivacy,
         UpsertNotifications, Checked, Database

\* What a reader sees of a row PATCH /me wrote back.
LEMMA PatchedRow ==
  ASSUME NEW old \in Profile, NEW patch \in Patches, NEW row,
         row = [c \in Columns |-> IF c \in PatchColumns
                                  THEN OrEmpty(Overlay(old, patch)[c]) ELSE old[c]]
  PROVE  Shown(row) = Overlay(Shown(old), patch)
<1>1. Null \notin Texts
  BY ValuesAssumption DEF Texts
<1>2. DOMAIN patch \subseteq PatchColumns /\ \A c \in DOMAIN patch : patch[c] \in Texts
  BY DEF Patches
<1>3. \A v : OrEmpty(OrEmpty(v)) = OrEmpty(v)
  BY ValuesAssumption DEF OrEmpty
<1>4. ASSUME NEW c \in Columns
      PROVE  OrEmpty(row[c]) = IF c \in DOMAIN patch THEN patch[c] ELSE OrEmpty(old[c])
  <2>1. CASE c \in DOMAIN patch
    <3>1. row[c] = OrEmpty(patch[c])
      BY <1>2, <2>1 DEF Overlay
    <3> QED BY <1>1, <1>2, <2>1, <3>1 DEF OrEmpty
  <2>2. CASE c \in PatchColumns /\ c \notin DOMAIN patch
    <3>1. row[c] = OrEmpty(old[c])
      BY <2>2 DEF Overlay
    <3> QED BY <1>3, <2>2, <3>1
  <2>3. CASE c \notin PatchColumns
    BY <1>2, <2>3
  <2> QED BY <2>1, <2>2, <2>3
<1> QED BY <1>4 DEF Shown, Overlay

\* What a reader sees of a row with a new avatar.
LEMMA AvatarRow ==
  ASSUME NEW old \in Profile, NEW url \in Urls \cup {Empty}
  PROVE  Shown([old EXCEPT !["avatar_url"] = url])
           = Overlay(Shown(old), [c \in {"avatar_url"} |-> url])
<1>1. OrEmpty(url) = url
  BY ValuesAssumption DEF OrEmpty, Urls
<1>2. DOMAIN old = Columns
  BY DEF Profile
<1>3. DOMAIN [c \in {"avatar_url"} |-> url] = {"avatar_url"}
  OBVIOUS
<1>4. ASSUME NEW c \in Columns
      PROVE  OrEmpty([old EXCEPT !["avatar_url"] = url][c])
               = IF c \in {"avatar_url"} THEN url ELSE OrEmpty(old[c])
  BY <1>1, <1>2
<1> QED BY <1>3, <1>4 DEF Shown, Overlay

\* The statement a handler's step may run.
LEMMA HandlerStatement ==
  ASSUME NEW c \in Clients, Handle(c), db' # db
  PROVE  \/ Serving(c, "CreateProfile") /\ db' \in CreateProfile(db, req[c].user)
         \/ phase[c] = "updating" /\ db' \in UpdateProfile(db, req[c].user, copy[c])
         \/ /\ Serving(c, "UploadAvatar") /\ req[c].body = "ok"
            /\ db' \in UpdateAvatarURL(db, req[c].user, req[c].url)
         \/ Serving(c, "DeleteAvatar") /\ db' \in UpdateAvatarURL(db, req[c].user, Empty)
         \/ db' \in AddContact(db, req[c].user, req[c].contact, req[c].alias)
         \/ db' \in RemoveContact(db, req[c].user, req[c].contact)
         \/ db' \in AddFavorite(db, req[c].user, req[c].chat)
         \/ db' \in RemoveFavorite(db, req[c].user, req[c].chat)
         \/ db' \in UpdatePrivacy(db, req[c].user, SettingsOf(req[c].settings))
         \/ db' \in UpsertNotifications(db, req[c].user, Null, req[c].mute)
         \/ db' \in UpsertNotifications(db, req[c].user, req[c].chat, req[c].mute)
<1>1. \A status : ~Refuse(c, status)
  BY DEF Refuse
<1>2. \A ok, failure : ~Query(c, ok, failure)
  BY DEF Query, Disconnected
<1>3. \A outcomes, ok, failure : Modify(c, outcomes, ok, failure) => db' \in outcomes
  BY DEF Modify, Disconnected
<1>4. ~HandleUpdateProfileRead(c) /\ ~HandleGetChatNotifications(c) /\ ~HandleGetChatFallback(c)
  BY <1>1, <1>2 DEF HandleUpdateProfileRead, HandleGetChatNotifications, HandleGetChatFallback,
                    Disconnected
<1>5. ~HandleGetMyProfile(c) /\ ~HandleGetProfileByID(c) /\ ~HandleGetContacts(c)
      /\ ~HandleGetFavorites(c) /\ ~HandleGetPrivacy(c) /\ ~HandleGetNotifications(c)
  BY <1>2 DEF HandleGetMyProfile, HandleGetProfileByID, HandleGetContacts,
              HandleGetFavorites, HandleGetPrivacy, HandleGetNotifications
<1>6. CASE HandleCreateProfile(c) \/ HandleUpdateProfileWrite(c)
  BY <1>1, <1>3, <1>6 DEF HandleCreateProfile, HandleUpdateProfileWrite
<1>7. CASE HandleUploadAvatar(c) \/ HandleDeleteAvatar(c)
  BY <1>1, <1>3, <1>7 DEF HandleUploadAvatar, HandleDeleteAvatar
<1>8. CASE HandleAddContact(c) \/ HandleDeleteContact(c)
  BY <1>1, <1>3, <1>8 DEF HandleAddContact, HandleDeleteContact
<1>9. CASE HandleAddFavorite(c) \/ HandleRemoveFavorite(c)
  BY <1>1, <1>3, <1>9 DEF HandleAddFavorite, HandleRemoveFavorite
<1>10. CASE HandleUpdatePrivacy(c) \/ HandleUpdateNotifications(c)
            \/ HandleUpdateChatNotifications(c)
  BY <1>1, <1>3, <1>10 DEF HandleUpdatePrivacy, HandleUpdateNotifications,
                           HandleUpdateChatNotifications
<1> QED BY <1>4, <1>5, <1>6, <1>7, <1>8, <1>9, <1>10 DEF Handle

\* Only handlers touch the tables.
LEMMA OnlyHandlersWrite ==
  ASSUME [Next]_vars, db' # db
  PROVE  \E c \in Clients : Handle(c)
  BY DEF Next, vars, Submit, Accept, Reply, Crash, Restart

\* PATCH /me changes the columns of its body.
LEMMA PatchStep ==
  ASSUME NEW d \in Database, NEW u \in Users, NEW v \in Users, NEW patch \in Patches,
         NEW e \in UpdateProfile(d, v, Overlay(d.profiles[v], patch)),
         HasProfile(d, u), e.profiles[u] # d.profiles[u]
  PROVE  /\ v = u /\ HasProfile(e, u)
         /\ Shown(e.profiles[u]) = Overlay(Shown(d.profiles[u]), patch)
<1> DEFINE profile == Overlay(d.profiles[v], patch)
           old == d.profiles[u]
           row == [c \in Columns |-> IF c \in PatchColumns
                                     THEN OrEmpty(Overlay(old, patch)[c]) ELSE old[c]]
<1>1. old \in Profile
  BY DEF Database, HasProfile
<1>2. /\ u # v => e.profiles[u] = d.profiles[u]
      /\ u = v => e.profiles[u] = [c \in Columns |->
           IF c \in PatchColumns THEN OrEmpty(profile[c]) ELSE d.profiles[v][c]]
  BY UpdateProfileRow
<1>3. v = u
  BY <1>2
<1>4. e.profiles[u] = row
  BY <1>2, <1>3
<1>5. Shown(row) = Overlay(Shown(old), patch)
  BY <1>1, PatchedRow
<1>6. ASSUME NEW c \in Columns
      PROVE  OrEmpty(Overlay(old, patch)[c]) \in Values \cup {Null} /\ old[c] \in Values \cup {Null}
  <2>1. c \in DOMAIN patch => patch[c] \in Texts
    BY DEF Patches
  <2>2. Overlay(old, patch)[c] \in Values \cup {Null} /\ old[c] \in Values \cup {Null}
    BY <1>1, <2>1 DEF Overlay, Profile, Values
  <2> QED BY <2>2 DEF OrEmpty, Values, Texts
<1>7. row \in Profile
  BY <1>6 DEF Profile
<1> QED BY <1>3, <1>4, <1>5, <1>7, NoneAssumption DEF HasProfile

\* The avatar handlers change the one column avatar_url.
LEMMA AvatarStep ==
  ASSUME NEW d \in Database, NEW u \in Users, NEW v \in Users, NEW url \in Urls \cup {Empty},
         NEW e \in UpdateAvatarURL(d, v, url),
         HasProfile(d, u), e.profiles[u] # d.profiles[u],
         NEW asked, asked = [c \in {"avatar_url"} |-> url]
  PROVE  /\ v = u /\ HasProfile(e, u)
         /\ Shown(e.profiles[u]) = Overlay(Shown(d.profiles[u]), asked)
<1> DEFINE old == d.profiles[u]
           row == [old EXCEPT !["avatar_url"] = url]
<1>1. old \in Profile
  BY DEF Database, HasProfile
<1>2. v = u /\ e.profiles[u] = row
  BY UpdateAvatarRow
<1>3. Shown(row) = Overlay(Shown(old), [c \in {"avatar_url"} |-> url])
  BY <1>1, AvatarRow
<1>4. url \in Values \cup {Null}
  BY DEF Values, Texts
<1>5. row \in Profile
  BY <1>1, <1>4 DEF Profile
<1> QED BY <1>2, <1>3, <1>5, NoneAssumption DEF HasProfile

LEMMA ProfileStep ==
  ASSUME IInv, [Next]_vars, NEW u \in Users,
         HasProfile(db, u), db'.profiles[u] # db.profiles[u]
  PROVE  \E c \in Clients :
           /\ InService(c) /\ req[c].user = u
           /\ HasProfile(db', u)
           /\ Shown(db'.profiles[u]) = Overlay(Shown(db.profiles[u]), Asked(req[c]))
<1>1. PICK c \in Clients : Handle(c)
  BY OnlyHandlersWrite
<1> DEFINE r == req[c]
<1>2. phase[c] \in {"running", "updating", "fallback"} /\ InService(c)
  BY <1>1, HandlerPhase DEF InService
<1>3. r \in HttpRequests /\ r.user \in Users
  BY <1>2, ServedRequest, RequestUser
<1>4. db \in Database
  BY DEF IInv, TypeOK
<1>5. SUFFICES r.user = u /\ HasProfile(db', u)
               /\ Shown(db'.profiles[u]) = Overlay(Shown(db.profiles[u]), Asked(r))
  BY <1>2
<1>6. CASE phase[c] = "updating" /\ db' \in UpdateProfile(db, r.user, copy[c])
  <2>1. r.op = "UpdateProfile" /\ r.body = "ok" /\ copy[c] = Overlay(db.profiles[r.user], r.patch)
    BY <1>6 DEF IInv, FreshCopy
  <2>2. r.patch \in Patches
    BY <1>3, <2>1, RequestFields
  <2>3. Asked(r) = r.patch
    BY <2>1 DEF Asked
  <2>4. db' \in UpdateProfile(db, r.user, Overlay(db.profiles[r.user], r.patch))
    BY <1>6, <2>1
  <2> HIDE DEF r
  <2> QED BY <1>3, <1>4, <2>2, <2>3, <2>4, PatchStep
<1>7. CASE /\ Serving(c, "UploadAvatar") /\ r.body = "ok"
           /\ db' \in UpdateAvatarURL(db, r.user, r.url)
  <2>1. r.op = "UploadAvatar" /\ r.url \in Urls
    BY <1>3, <1>7, RequestFields DEF Serving
  <2>2. Asked(r) = [x \in {"avatar_url"} |-> r.url]
    BY <1>7, <2>1 DEF Asked
  <2> HIDE DEF r
  <2> QED BY <1>3, <1>4, <1>7, <2>1, <2>2, AvatarStep
<1>8. CASE Serving(c, "DeleteAvatar") /\ db' \in UpdateAvatarURL(db, r.user, Empty)
  <2>1. Asked(r) = [x \in {"avatar_url"} |-> Empty]
    BY <1>8 DEF Asked, Serving
  <2> HIDE DEF r
  <2> QED BY <1>3, <1>4, <1>8, <2>1, AvatarStep
<1>9. CASE Serving(c, "CreateProfile") /\ db' \in CreateProfile(db, r.user)
  <2> HIDE DEF r
  <2> QED BY <1>3, <1>4, <1>9, CreateKeepsProfiles
<1>10. CASE \/ db' \in AddContact(db, r.user, r.contact, r.alias)
            \/ db' \in RemoveContact(db, r.user, r.contact)
            \/ db' \in AddFavorite(db, r.user, r.chat)
            \/ db' \in RemoveFavorite(db, r.user, r.chat)
            \/ db' \in UpdatePrivacy(db, r.user, SettingsOf(r.settings))
            \/ db' \in UpsertNotifications(db, r.user, Null, r.mute)
            \/ db' \in UpsertNotifications(db, r.user, r.chat, r.mute)
  <2>1. db'.profiles = db.profiles
    <3> HIDE DEF r
    <3> QED BY <1>4, <1>10, OtherStatementsKeepProfiles
  <2> QED BY <2>1
<1>11. db' # db
  OBVIOUS
<1> QED BY <1>1, <1>6, <1>7, <1>8, <1>9, <1>10, <1>11, HandlerStatement

\* Whatever clients, crashes and broken connections do, a profile that changes
\* changes as the one request being served asked, and in nothing else.
THEOREM NoUpdateIsLost == Spec => NoLostUpdate
<1>1. IInv /\ [Next]_vars =>
        [\A u \in Users :
           HasProfile(db, u) /\ db'.profiles[u] # db.profiles[u] =>
             \E c \in Clients :
               /\ InService(c) /\ req[c].user = u
               /\ HasProfile(db', u)
               /\ Shown(db'.profiles[u]) = Overlay(Shown(db.profiles[u]), Asked(req[c]))]_vars
  BY ProfileStep
<1> QED BY <1>1, Invariance, PTL DEF Spec, NoLostUpdate

(***************************************************************************)
(* Nobody writes another user's rows                                       *)
(***************************************************************************)

\* RowsOf, column by column of the database.
LEMMA SameRows ==
  ASSUME NEW d, NEW e, NEW u \in Users,
         e.profiles[u] = d.profiles[u],
         \A v \in Users : e.contacts[<<u, v>>] = d.contacts[<<u, v>>],
         \A k \in StorableChats : <<u, k>> \in e.favorites <=> <<u, k>> \in d.favorites,
         e.privacy[u] = d.privacy[u],
         \A k \in ChatKeys : e.notifications[<<u, k>>] = d.notifications[<<u, k>>]
  PROVE  RowsOf(e, u) = RowsOf(d, u)
<1>1. ListContacts(e, u) = ListContacts(d, u)
  BY DEF ListContacts
<1>2. ListFavorites(e, u) = ListFavorites(d, u)
  BY DEF ListFavorites
<1>3. [k \in ChatKeys |-> e.notifications[<<u, k>>]] = [k \in ChatKeys |-> d.notifications[<<u, k>>]]
  OBVIOUS
<1> QED BY <1>1, <1>2, <1>3 DEF RowsOf

LEMMA ProfileStatementsOwnRows ==
  ASSUME NEW d \in Database, NEW v \in Users, NEW u \in Users, u # v, NEW e
  PROVE  /\ e \in CreateProfile(d, v) => RowsOf(e, u) = RowsOf(d, u)
         /\ \A x : e \in UpdateProfile(d, v, x) => RowsOf(e, u) = RowsOf(d, u)
         /\ \A x : e \in UpdateAvatarURL(d, v, x) => RowsOf(e, u) = RowsOf(d, u)
<1>1. \A row : e = [d EXCEPT !.profiles[v] = row] => RowsOf(e, u) = RowsOf(d, u)
  BY SameRows DEF Database
<1>2. e \in CreateProfile(d, v) => RowsOf(e, u) = RowsOf(d, u)
  BY <1>1 DEF CreateProfile, Checked
<1>3. ASSUME NEW x, e \in UpdateProfile(d, v, x)
      PROVE  RowsOf(e, u) = RowsOf(d, u)
  BY <1>1, <1>3 DEF UpdateProfile, Checked
<1>4. ASSUME NEW x, e \in UpdateAvatarURL(d, v, x)
      PROVE  RowsOf(e, u) = RowsOf(d, u)
  BY <1>1, <1>4 DEF UpdateAvatarURL, Checked
<1> QED BY <1>2, <1>3, <1>4

LEMMA ListStatementsOwnRows ==
  ASSUME NEW d \in Database, NEW v \in Users, NEW u \in Users, u # v, NEW e
  PROVE  /\ \A x, y : e \in AddContact(d, v, x, y) => RowsOf(e, u) = RowsOf(d, u)
         /\ \A x : e \in RemoveContact(d, v, x) => RowsOf(e, u) = RowsOf(d, u)
         /\ \A x : e \in AddFavorite(d, v, x) => RowsOf(e, u) = RowsOf(d, u)
         /\ \A x : e \in RemoveFavorite(d, v, x) => RowsOf(e, u) = RowsOf(d, u)
<1>1. ASSUME NEW x, NEW y, e = [d EXCEPT !.contacts[<<v, x>>] = y]
      PROVE  RowsOf(e, u) = RowsOf(d, u)
  <2>1. e.contacts = [d.contacts EXCEPT ![<<v, x>>] = y]
    BY <1>1 DEF Database
  <2>2. \A w \in Users : e.contacts[<<u, w>>] = d.contacts[<<u, w>>]
    BY <2>1 DEF Database
  <2>3. /\ e.profiles = d.profiles /\ e.favorites = d.favorites /\ e.privacy = d.privacy
        /\ e.notifications = d.notifications
    BY <1>1 DEF Database
  <2> QED BY <2>2, <2>3, SameRows
<1>2. ASSUME NEW x, e = [d EXCEPT !.favorites = @ \cup {<<v, x>>}]
             \/ e = [d EXCEPT !.favorites = @ \ {<<v, x>>}]
      PROVE  RowsOf(e, u) = RowsOf(d, u)
  <2>1. /\ e.profiles = d.profiles /\ e.contacts = d.contacts /\ e.privacy = d.privacy
        /\ e.notifications = d.notifications
    BY <1>2 DEF Database
  <2>2. \A k \in StorableChats : <<u, k>> \in e.favorites <=> <<u, k>> \in d.favorites
    BY <1>2 DEF Database
  <2> QED BY <2>1, <2>2, SameRows
<1>3. ASSUME NEW x, NEW y, e \in AddContact(d, v, x, y)
      PROVE  RowsOf(e, u) = RowsOf(d, u)
  <2>1. e = [d EXCEPT !.contacts[<<v, x>>] = OrEmpty(y)]
    BY <1>3, Zenon DEF AddContact, Checked
  <2> QED BY <1>1, <2>1
<1>4. ASSUME NEW x, e \in RemoveContact(d, v, x)
      PROVE  RowsOf(e, u) = RowsOf(d, u)
  <2>1. e = [d EXCEPT !.contacts[<<v, x>>] = None]
    BY <1>4, Zenon DEF RemoveContact
  <2> QED BY <1>1, <2>1
<1>5. ASSUME NEW x, e \in AddFavorite(d, v, x) \/ e \in RemoveFavorite(d, v, x)
      PROVE  RowsOf(e, u) = RowsOf(d, u)
  BY <1>2, <1>5 DEF AddFavorite, RemoveFavorite, Checked
<1> QED BY <1>3, <1>4, <1>5

LEMMA SettingsStatementsOwnRows ==
  ASSUME NEW d \in Database, NEW v \in Users, NEW u \in Users, u # v, NEW e
  PROVE  /\ \A x : e \in UpdatePrivacy(d, v, x) => RowsOf(e, u) = RowsOf(d, u)
         /\ \A x, y : e \in UpsertNotifications(d, v, x, y) => RowsOf(e, u) = RowsOf(d, u)
<1>1. ASSUME NEW x, e \in UpdatePrivacy(d, v, x)
      PROVE  RowsOf(e, u) = RowsOf(d, u)
  <2>1. e = [d EXCEPT !.privacy[v] = x]
    BY <1>1 DEF UpdatePrivacy, Checked
  <2> QED BY <2>1, SameRows DEF Database
<1>2. ASSUME NEW x, NEW y, e \in UpsertNotifications(d, v, x, y)
      PROVE  RowsOf(e, u) = RowsOf(d, u)
  <2>1. e = [d EXCEPT !.notifications[<<v, OrEmpty(x)>>] = y]
    BY <1>2, Zenon DEF UpsertNotifications, Checked
  <2>2. e.notifications = [d.notifications EXCEPT ![<<v, OrEmpty(x)>>] = y]
    BY <2>1 DEF Database
  <2>3. \A k \in ChatKeys : e.notifications[<<u, k>>] = d.notifications[<<u, k>>]
    BY <2>2 DEF Database
  <2>4. /\ e.profiles = d.profiles /\ e.contacts = d.contacts /\ e.favorites = d.favorites
        /\ e.privacy = d.privacy
    BY <2>1 DEF Database
  <2> QED BY <2>3, <2>4, SameRows
<1> QED BY <1>1, <1>2

LEMMA RowsStep ==
  ASSUME IInv, [Next]_vars, NEW u \in Users, RowsOf(db', u) # RowsOf(db, u)
  PROVE  \E c \in Clients : InService(c) /\ req[c].user = u
<1>1. db' # db
  OBVIOUS
<1>2. PICK c \in Clients : Handle(c)
  BY <1>1, OnlyHandlersWrite
<1> DEFINE v == req[c].user
<1>3. InService(c) /\ v \in Users
  BY <1>2, HandlerPhase, ServedRequest, RequestUser DEF InService
<1>4. db \in Database
  BY DEF IInv, TypeOK
<1>5. SUFFICES ASSUME u # v PROVE FALSE
  BY <1>3
<1>6. CASE \/ db' \in CreateProfile(db, v)
           \/ db' \in UpdateProfile(db, v, copy[c])
           \/ db' \in UpdateAvatarURL(db, v, req[c].url)
           \/ db' \in UpdateAvatarURL(db, v, Empty)
  <2> HIDE DEF v
  <2> QED BY <1>3, <1>4, <1>5, <1>6, ProfileStatementsOwnRows
<1>7. CASE \/ db' \in AddContact(db, v, req[c].contact, req[c].alias)
           \/ db' \in RemoveContact(db, v, req[c].contact)
           \/ db' \in AddFavorite(db, v, req[c].chat)
           \/ db' \in RemoveFavorite(db, v, req[c].chat)
  <2> HIDE DEF v
  <2> QED BY <1>3, <1>4, <1>5, <1>7, ListStatementsOwnRows
<1>8. CASE \/ db' \in UpdatePrivacy(db, v, SettingsOf(req[c].settings))
           \/ db' \in UpsertNotifications(db, v, Null, req[c].mute)
           \/ db' \in UpsertNotifications(db, v, req[c].chat, req[c].mute)
  <2> HIDE DEF v
  <2> QED BY <1>3, <1>4, <1>5, <1>8, SettingsStatementsOwnRows
<1> QED BY <1>1, <1>2, <1>6, <1>7, <1>8, HandlerStatement

\* A request changes rows of its own user only, for any number of users,
\* clients and chats.
THEOREM OthersRowsStay == Spec => OwnRowsOnly
<1>1. IInv /\ [Next]_vars =>
        [\A u \in Users : RowsOf(db', u) # RowsOf(db, u) =>
           \E c \in Clients : InService(c) /\ req[c].user = u]_vars
  BY RowsStep
<1> QED BY <1>1, Invariance, PTL DEF Spec, OwnRowsOnly

(***************************************************************************)
(* A change is acknowledged                                                *)
(***************************************************************************)
LEMMA ModifyAnswers ==
  ASSUME TypeOK, NEW c \in Clients, NEW outcomes, NEW ok \in HttpResponses, NEW failure,
         ok.status \in Successes, Modify(c, outcomes, ok, failure), db' # db
  PROVE  /\ phase'[c] = "replying"
         /\ Succeeded(reply'[c]) \/ ~connOpen'
<1>1. ok # None
  BY RequestsAssumption
<1>2. \/ Respond(c, ok)
      \/ Respond(c, Answer(failure)) /\ connOpen' = FALSE
  BY DEF Modify, Disconnected
<1>3. \A a : Respond(c, a) => phase'[c] = "replying" /\ reply'[c] = a
  BY DEF Respond, TypeOK
<1> QED BY <1>1, <1>2, <1>3 DEF Succeeded

LEMMA WriteIsAnswered ==
  ASSUME IInv, NEW c \in Clients, Handle(c), db' # db
  PROVE  /\ phase'[c] = "replying"
         /\ Succeeded(reply'[c]) \/ ~connOpen'
<1>1. TypeOK
  BY DEF IInv
<1>2. \A status : ~Refuse(c, status)
  BY DEF Refuse
<1>3. \A ok, failure : ~Query(c, ok, failure)
  BY DEF Query, Disconnected
<1>4. \A status \in Successes : Answer(status) \in HttpResponses /\ Answer(status).status \in Successes
  BY AnswerType DEF Answer
<1>5. ASSUME NEW status \in Successes, NEW outcomes, NEW failure,
             Modify(c, outcomes, Answer(status), failure)
      PROVE  phase'[c] = "replying" /\ (Succeeded(reply'[c]) \/ ~connOpen')
  BY <1>1, <1>4, <1>5, ModifyAnswers
<1>6. 200 \in Successes /\ 201 \in Successes /\ 204 \in Successes
  BY DEF Successes
<1>7. CASE HandleUpdateProfileWrite(c)
  <2>1. /\ phase[c] = "updating" /\ req[c] # None /\ req[c].body = "ok"
        /\ req[c].op = "UpdateProfile" /\ HasProfile(db, req[c].user)
        /\ copy[c] = Overlay(db.profiles[req[c].user], req[c].patch)
    BY <1>7 DEF HandleUpdateProfileWrite, IInv, FreshCopy
  <2>2. req[c].user \in Users /\ req[c].patch \in Patches
    BY <1>1, <2>1, RequestUser, RequestFields DEF TypeOK
  <2>3. copy[c] \in Profile
    BY <1>1, <2>1, <2>2, OverlayType DEF TypeOK, Database, HasProfile
  <2>4. ProfileAnswer(Shown(copy[c])) \in HttpResponses
        /\ ProfileAnswer(Shown(copy[c])).status \in Successes
    BY <1>6, <2>3, ShownType DEF ProfileAnswer, HttpResponses
  <2> QED BY <1>1, <1>7, <2>4, ModifyAnswers DEF HandleUpdateProfileWrite
<1>8. CASE \/ HandleCreateProfile(c) \/ HandleUploadAvatar(c) \/ HandleDeleteAvatar(c)
           \/ HandleAddContact(c) \/ HandleDeleteContact(c) \/ HandleAddFavorite(c)
           \/ HandleRemoveFavorite(c) \/ HandleUpdatePrivacy(c)
           \/ HandleUpdateNotifications(c) \/ HandleUpdateChatNotifications(c)
  BY <1>2, <1>5, <1>6, <1>8
     DEF HandleCreateProfile, HandleUploadAvatar, HandleDeleteAvatar, HandleAddContact,
         HandleDeleteContact, HandleAddFavorite, HandleRemoveFavorite, HandleUpdatePrivacy,
         HandleUpdateNotifications, HandleUpdateChatNotifications
<1>9. CASE \/ HandleGetMyProfile(c) \/ HandleGetProfileByID(c) \/ HandleGetContacts(c)
           \/ HandleGetFavorites(c) \/ HandleGetPrivacy(c) \/ HandleGetNotifications(c)
           \/ HandleGetChatFallback(c)
  BY <1>3, <1>9
     DEF HandleGetMyProfile, HandleGetProfileByID, HandleGetContacts, HandleGetFavorites,
         HandleGetPrivacy, HandleGetNotifications, HandleGetChatFallback
<1>10. CASE HandleUpdateProfileRead(c) \/ HandleGetChatNotifications(c)
  BY <1>2, <1>10 DEF HandleUpdateProfileRead, HandleGetChatNotifications, Disconnected
<1> QED BY <1>7, <1>8, <1>9, <1>10 DEF Handle

\* An error answered over a working connection means that nothing changed.
THEOREM ChangesAreAnswered == Spec => ChangesAreAcknowledged
<1>1. IInv /\ [Next]_vars =>
        [db' # db => \E c \in Clients :
           /\ InService(c) /\ phase'[c] = "replying"
           /\ Succeeded(reply'[c]) \/ ~connOpen']_vars
  <2> SUFFICES ASSUME IInv, [Next]_vars, db' # db
               PROVE  \E c \in Clients :
                        /\ InService(c) /\ phase'[c] = "replying"
                        /\ Succeeded(reply'[c]) \/ ~connOpen'
    OBVIOUS
  <2>1. PICK c \in Clients : Handle(c)
    BY OnlyHandlersWrite
  <2>2. InService(c)
    BY <2>1, HandlerPhase DEF InService
  <2> QED BY <2>1, <2>2, WriteIsAnswered
<1> QED BY <1>1, Invariance, PTL DEF Spec, ChangesAreAcknowledged

(***************************************************************************)
(* Answers tell the truth                                                  *)
(***************************************************************************)

\* A success comes of the statement that succeeded.
LEMMA ModifySucceeds ==
  ASSUME TypeOK, NEW c \in Clients, NEW outcomes, NEW ok, NEW failure \in Failures,
         Modify(c, outcomes, ok, failure), Succeeded(reply'[c])
  PROVE  db' \in outcomes /\ reply'[c] = ok
<1>1. \A a : Respond(c, a) => reply'[c] = a
  BY DEF Respond, TypeOK
<1>2. ~Succeeded(Answer(failure))
  BY DEF Succeeded, Answer, Failures, Successes
<1> QED BY <1>1, <1>2 DEF Modify

LEMMA QuerySucceeds ==
  ASSUME TypeOK, NEW c \in Clients, NEW ok, NEW failure \in Failures,
         Query(c, ok, failure), Succeeded(reply'[c])
  PROVE  db' = db /\ reply'[c] = ok
<1>1. \A a : Respond(c, a) => reply'[c] = a
  BY DEF Respond, TypeOK
<1>2. ~Succeeded(Answer(failure))
  BY DEF Succeeded, Answer, Failures, Successes
<1> QED BY <1>1, <1>2 DEF Query

LEMMA RefuseFails ==
  ASSUME TypeOK, NEW c \in Clients, NEW failure \in Failures,
         Refuse(c, failure) \/ Respond(c, Answer(failure))
  PROVE  ~Succeeded(reply'[c])
<1>1. reply'[c] = Answer(failure)
  BY DEF Refuse, Respond, TypeOK
<1> QED BY <1>1 DEF Succeeded, Answer, Failures, Successes

\* What a statement leaves is what the reads find.
LEMMA CreateConfirmed ==
  ASSUME NEW d \in Database, NEW u \in Users, NEW e \in CreateProfile(d, u)
  PROVE  HasProfile(e, u)
<1>1. NewProfile \in Profile
  BY DEF NewProfile, Profile
<1>2. e = [d EXCEPT !.profiles[u] = IF @ = None THEN NewProfile ELSE @]
  BY DEF CreateProfile, Checked
<1> QED BY <1>1, <1>2, NoneAssumption DEF Database, HasProfile

LEMMA PatchConfirmed ==
  ASSUME NEW d \in Database, NEW u \in Users, NEW patch \in Patches, HasProfile(d, u),
         NEW e \in UpdateProfile(d, u, Overlay(d.profiles[u], patch))
  PROVE  /\ Shown(e.profiles[u]) = Shown(Overlay(d.profiles[u], patch))
         /\ \A c \in DOMAIN patch : e.profiles[u][c] = patch[c]
<1> DEFINE old == d.profiles[u]
           profile == Overlay(old, patch)
           row == [c \in Columns |-> IF c \in PatchColumns THEN OrEmpty(profile[c])
                                     ELSE old[c]]
<1>1. e.profiles[u] = row
  BY UpdateProfileRow
<1>2. Null \notin Texts /\ \A v : OrEmpty(OrEmpty(v)) = OrEmpty(v)
  BY ValuesAssumption DEF Texts, OrEmpty
<1>3. DOMAIN patch \subseteq PatchColumns /\ \A c \in DOMAIN patch : patch[c] \in Texts
  BY DEF Patches
<1>4. \A c \in Columns \ PatchColumns : profile[c] = old[c]
  BY <1>3 DEF Overlay
<1>5. ASSUME NEW c \in Columns
      PROVE  OrEmpty(row[c]) = OrEmpty(profile[c])
  <2>1. CASE c \in PatchColumns
    <3>1. row[c] = OrEmpty(profile[c])
      BY <2>1
    <3> QED BY <1>2, <3>1
  <2>2. CASE c \notin PatchColumns
    <3>1. row[c] = profile[c]
      BY <1>4, <2>2
    <3> QED BY <3>1
  <2> QED BY <2>1, <2>2
<1>6. Shown(row) = Shown(profile)
  BY <1>5 DEF Shown
<1>7. ASSUME NEW c \in DOMAIN patch
      PROVE  row[c] = patch[c]
  <2>1. c \in Columns /\ c \in PatchColumns /\ patch[c] \in Texts
    BY <1>3 DEF Columns
  <2>2. profile[c] = patch[c]
    BY <2>1 DEF Overlay
  <2> QED BY <1>2, <2>1, <2>2 DEF OrEmpty
<1> QED BY <1>1, <1>6, <1>7

LEMMA AvatarConfirmed ==
  ASSUME NEW d \in Database, NEW u \in Users, NEW url \in Urls \cup {Empty},
         NEW e \in UpdateAvatarURL(d, u, url), HasProfile(e, u)
  PROVE  e.profiles[u]["avatar_url"] = url /\ Shown(e.profiles[u])["avatar_url"] = OrEmpty(url)
<1>1. HasProfile(d, u)
  BY DEF UpdateAvatarURL, HasProfile
<1>2. e.profiles[u] = [d.profiles[u] EXCEPT !["avatar_url"] = url]
  BY <1>1, UpdateAvatarRow
<1>3. d.profiles[u] \in Profile /\ "avatar_url" \in Columns
  BY <1>1 DEF HasProfile, Database, Columns
<1>4. e.profiles[u]["avatar_url"] = url
  BY <1>2, <1>3 DEF Profile
<1> QED BY <1>3, <1>4 DEF Shown

LEMMA ContactsConfirmed ==
  ASSUME NEW d \in Database, NEW u \in Users, NEW v \in Users, NEW e
  PROVE  /\ \A alias \in Texts \cup {Null} : e \in AddContact(d, u, v, alias) =>
              <<v, OrEmpty(alias)>> \in ListContacts(e, u)
         /\ e \in RemoveContact(d, u, v) =>
              \A t \in Texts : <<v, t>> \notin ListContacts(e, u)
<1>1. ASSUME NEW alias \in Texts \cup {Null}, e \in AddContact(d, u, v, alias)
      PROVE  <<v, OrEmpty(alias)>> \in ListContacts(e, u)
  <2>1. e = [d EXCEPT !.contacts[<<u, v>>] = OrEmpty(alias)]
    BY <1>1 DEF AddContact, Checked
  <2>2. e.contacts[<<u, v>>] = OrEmpty(alias)
    BY <2>1 DEF Database
  <2>3. OrEmpty(alias) # None
    BY OrEmptyType, NoneAssumption
  <2> QED BY <2>2, <2>3 DEF ListContacts
<1>2. ASSUME e \in RemoveContact(d, u, v), NEW t \in Texts, <<v, t>> \in ListContacts(e, u)
      PROVE  FALSE
  <2>1. e.contacts[<<u, v>>] = None
    BY <1>2 DEF RemoveContact, Database
  <2>2. PICK w \in Users : e.contacts[<<u, w>>] # None /\ <<v, t>> = <<w, e.contacts[<<u, w>>]>>
    BY <1>2 DEF ListContacts
  <2> QED BY <2>1, <2>2
<1> QED BY <1>1, <1>2

LEMMA SettingsConfirmed ==
  ASSUME NEW d \in Database, NEW u \in Users, NEW e
  PROVE  /\ \A k \in ChatIds : e \in AddFavorite(d, u, k) => k \in ListFavorites(e, u)
         /\ \A k \in ChatIds : e \in RemoveFavorite(d, u, k) => k \notin ListFavorites(e, u)
         /\ \A settings : e \in UpdatePrivacy(d, u, settings) => GetPrivacy(e, u) = settings
<1>1. ASSUME NEW k \in ChatIds, e \in AddFavorite(d, u, k)
      PROVE  k \in ListFavorites(e, u)
  BY <1>1 DEF AddFavorite, Checked, ListFavorites, Database
<1>2. ASSUME NEW k \in ChatIds, e \in RemoveFavorite(d, u, k)
      PROVE  k \notin ListFavorites(e, u)
  BY <1>2 DEF RemoveFavorite, ListFavorites, Database
<1>3. ASSUME NEW settings, e \in UpdatePrivacy(d, u, settings)
      PROVE  GetPrivacy(e, u) = settings
  <2>1. settings \in Settings /\ e = [d EXCEPT !.privacy[u] = settings]
    BY <1>3 DEF UpdatePrivacy, Checked
  <2>2. e.privacy[u] = settings /\ settings # None
    BY <2>1, NoneAssumption DEF Database
  <2> QED BY <2>2 DEF GetPrivacy
<1> QED BY <1>1, <1>2, <1>3

LEMMA MuteConfirmed ==
  ASSUME NEW d \in Database, NEW u \in Users, NEW key \in ChatKeys, NEW mute \in Mutes,
         NEW e \in UpsertNotifications(d, u, key, mute)
  PROVE  GetNotifications(e, u, OrEmpty(key)) = mute
<1>1. OrEmpty(key) \in ChatKeys
  BY ValuesAssumption DEF OrEmpty, ChatIds, ChatKeys
<1>2. e = [d EXCEPT !.notifications[<<u, OrEmpty(key)>>] = mute]
  BY DEF UpsertNotifications, Checked
<1>3. e.notifications[<<u, OrEmpty(key)>>] = mute /\ mute # None
  BY <1>1, <1>2, NoneAssumption DEF Database
<1> QED BY <1>3 DEF GetNotifications

\* A process that is down serves nobody.
DownIsIdle == ~up => \A c \in Clients : phase[c] = "free"

\* The handler of GET /notifications/{chat_id} alone is ever in its fallback, for
\* want of a connection or for a chat id no column holds.
FallbackAsked ==
  \A c \in Clients : phase[c] = "fallback" =>
    /\ req[c] # None /\ req[c].op = "GetChatNotifications"
    /\ connOpen => req[c].chat \notin StorableChats

\* The success a handler answers is confirmed by the tables it leaves.
LEMMA HandlerConfirms ==
  ASSUME IInv, FallbackAsked, NEW c \in Clients, Handle(c),
         phase'[c] = "replying", Succeeded(reply'[c])
  PROVE  Confirmed(req[c], reply'[c], db')
<1> DEFINE r == req[c]
           u == req[c].user
<1>1. /\ TypeOK /\ db \in Database
      /\ r \in HttpRequests /\ u \in Users
  <2>1. phase[c] # "free"
    BY HandlerPhase
  <2> QED BY <2>1, ServedRequest, RequestUser DEF IInv, TypeOK
<1>2. 400 \in Failures /\ 404 \in Failures /\ 409 \in Failures /\ 500 \in Failures
  BY DEF Failures
<1>3. \A failure \in Failures : ~Refuse(c, failure) /\ ~Respond(c, Answer(failure))
  BY <1>1, RefuseFails
<1>4. \A outcomes, ok : \A failure \in Failures :
        Modify(c, outcomes, ok, failure) => db' \in outcomes /\ reply'[c] = ok
  BY <1>1, ModifySucceeds
<1>5. \A ok : \A failure \in Failures : Query(c, ok, failure) => db' = db /\ reply'[c] = ok
  BY <1>1, QuerySucceeds
<1>6. ~Succeeded(Answer(404))
  BY DEF Succeeded, Answer, Successes
<1>7. \A v : reply'[c] = ProfileReply(v) => reply'[c] = ProfileAnswer(Shown(db.profiles[v]))
  BY <1>6 DEF ProfileReply
<1>8. CASE HandleCreateProfile(c)
  <2>1. r.op = "CreateProfile" /\ db' \in CreateProfile(db, u)
    BY <1>2, <1>3, <1>4, <1>8 DEF HandleCreateProfile, Serving
  <2>2. HasProfile(db', u)
    BY <1>1, <2>1, CreateConfirmed
  <2> QED BY <2>1, <2>2 DEF Confirmed
<1>9. CASE HandleGetMyProfile(c)
  <2>1. r.op = "GetMyProfile" /\ db' = db /\ reply'[c] = ProfileReply(u)
    BY <1>2, <1>5, <1>9 DEF HandleGetMyProfile, Serving
  <2> QED BY <1>7, <2>1 DEF Confirmed
<1>10. CASE HandleGetProfileByID(c)
  <2>1. r.op = "GetProfileByID" /\ db' = db /\ reply'[c] = ProfileReply(r.target)
    BY <1>2, <1>5, <1>10 DEF HandleGetProfileByID, Serving
  <2> QED BY <1>7, <2>1 DEF Confirmed
<1>11. CASE HandleUpdateProfileRead(c)
  <2>1. phase' = [phase EXCEPT ![c] = "updating"]
    BY <1>2, <1>3, <1>11 DEF HandleUpdateProfileRead
  <2> QED BY <1>1, <2>1 DEF TypeOK
<1>12. CASE HandleUpdateProfileWrite(c)
  <2>1. /\ r.op = "UpdateProfile" /\ r.body = "ok" /\ HasProfile(db, u)
        /\ copy[c] = Overlay(db.profiles[u], r.patch)
    BY <1>12 DEF HandleUpdateProfileWrite, IInv, FreshCopy
  <2>2. r.patch \in Patches
    BY <1>1, <2>1, RequestFields
  <2>3. /\ db' \in UpdateProfile(db, u, copy[c])
        /\ reply'[c] = ProfileAnswer(Shown(copy[c]))
    BY <1>2, <1>4, <1>12 DEF HandleUpdateProfileWrite
  <2>4. /\ Shown(db'.profiles[u]) = Shown(copy[c])
        /\ \A x \in DOMAIN r.patch : db'.profiles[u][x] = r.patch[x]
    BY <1>1, <2>1, <2>2, <2>3, PatchConfirmed
  <2> QED BY <2>1, <2>3, <2>4 DEF Confirmed
<1>13. CASE HandleUploadAvatar(c)
  <2>1. r.op = "UploadAvatar" /\ r.body = "ok" /\ db' \in UpdateAvatarURL(db, u, r.url)
    BY <1>2, <1>3, <1>4, <1>13 DEF HandleUploadAvatar, Serving
  <2>2. r.url \in Urls
    BY <1>1, <2>1, RequestFields
  <2>3. HasProfile(db', u) => db'.profiles[u]["avatar_url"] = r.url
    BY <1>1, <2>1, <2>2, AvatarConfirmed
  <2> QED BY <2>1, <2>3 DEF Confirmed
<1>14. CASE HandleDeleteAvatar(c)
  <2>1. r.op = "DeleteAvatar" /\ db' \in UpdateAvatarURL(db, u, Empty)
    BY <1>2, <1>4, <1>14 DEF HandleDeleteAvatar, Serving
  <2>2. HasProfile(db', u) => Shown(db'.profiles[u])["avatar_url"] = Empty
    BY <1>1, <2>1, AvatarConfirmed, ValuesAssumption DEF OrEmpty
  <2> QED BY <2>1, <2>2 DEF Confirmed
<1>15. CASE HandleGetContacts(c)
  <2>1. /\ r.op = "GetContacts" /\ db' = db
        /\ reply'[c] = [status |-> 200, contacts |-> ListContacts(db, u)]
    BY <1>2, <1>5, <1>15 DEF HandleGetContacts, Serving
  <2> QED BY <2>1 DEF Confirmed
<1>16. CASE HandleAddContact(c)
  <2>1. r.op = "AddContact" /\ r.body = "ok" /\ db' \in AddContact(db, u, r.contact, r.alias)
    BY <1>2, <1>3, <1>4, <1>16 DEF HandleAddContact, Serving
  <2>2. r.contact \in Users /\ r.alias \in Texts \cup {Null}
    BY <1>1, <2>1, RequestFields
  <2>3. <<r.contact, OrEmpty(r.alias)>> \in ListContacts(db', u)
    BY <1>1, <2>1, <2>2, ContactsConfirmed
  <2> QED BY <2>1, <2>3 DEF Confirmed
<1>17. CASE HandleDeleteContact(c)
  <2>1. r.op = "DeleteContact" /\ db' \in RemoveContact(db, u, r.contact)
    BY <1>2, <1>4, <1>17 DEF HandleDeleteContact, Serving
  <2>2. r.contact \in Users
    BY <1>1, <2>1, RequestFields
  <2>3. \A t \in Texts : <<r.contact, t>> \notin ListContacts(db', u)
    BY <1>1, <2>1, <2>2, ContactsConfirmed
  <2> QED BY <2>1, <2>3 DEF Confirmed
<1>18. CASE HandleGetFavorites(c)
  <2>1. /\ r.op = "GetFavorites" /\ db' = db
        /\ reply'[c] = [status |-> 200, favorites |-> ListFavorites(db, u)]
    BY <1>2, <1>5, <1>18 DEF HandleGetFavorites, Serving
  <2> QED BY <2>1 DEF Confirmed
<1>19. CASE HandleAddFavorite(c)
  <2>1. r.op = "AddFavorite" /\ db' \in AddFavorite(db, u, r.chat)
    BY <1>2, <1>4, <1>19 DEF HandleAddFavorite, Serving
  <2>2. r.chat \in ListFavorites(db', u)
    BY <1>1, <2>1, RequestFields, SettingsConfirmed
  <2> QED BY <2>1, <2>2 DEF Confirmed
<1>20. CASE HandleRemoveFavorite(c)
  <2>1. r.op = "RemoveFavorite" /\ db' \in RemoveFavorite(db, u, r.chat)
    BY <1>2, <1>4, <1>20 DEF HandleRemoveFavorite, Serving
  <2>2. r.chat \notin ListFavorites(db', u)
    BY <1>1, <2>1, RequestFields, SettingsConfirmed
  <2> QED BY <2>1, <2>2 DEF Confirmed
<1>21. CASE HandleGetPrivacy(c)
  <2>1. /\ r.op = "GetPrivacy" /\ db' = db
        /\ reply'[c] = [status |-> 200, privacy |-> GetPrivacy(db, u)]
    BY <1>2, <1>5, <1>21 DEF HandleGetPrivacy, Serving
  <2> QED BY <2>1 DEF Confirmed
<1>22. CASE HandleUpdatePrivacy(c)
  <2>1. r.op = "UpdatePrivacy" /\ db' \in UpdatePrivacy(db, u, SettingsOf(r.settings))
    BY <1>2, <1>3, <1>4, <1>22 DEF HandleUpdatePrivacy, Serving
  <2>2. GetPrivacy(db', u) = SettingsOf(r.settings)
    BY <1>1, <2>1, SettingsConfirmed
  <2> QED BY <2>1, <2>2 DEF Confirmed
<1>23. CASE HandleUpdateChatNotifications(c)
  <2>1. /\ r.op = "UpdateChatNotifications" /\ r.body = "ok"
        /\ db' \in UpsertNotifications(db, u, r.chat, r.mute)
    BY <1>2, <1>3, <1>4, <1>23 DEF HandleUpdateChatNotifications, Serving
  <2>2. r.chat \in ChatIds /\ r.mute \in Mutes
    BY <1>1, <2>1, RequestFields
  <2>3. r.chat \in ChatKeys /\ OrEmpty(r.chat) = r.chat
    BY <2>2, ValuesAssumption DEF OrEmpty, ChatIds, ChatKeys
  <2>4. GetNotifications(db', u, r.chat) = r.mute
    BY <1>1, <2>1, <2>2, <2>3, MuteConfirmed
  <2> QED BY <2>1, <2>4 DEF Confirmed
<1>24. CASE HandleGetNotifications(c)
  <2>1. r.op = "GetNotifications" /\ db' = db /\ reply'[c] = MuteReply(u, Null)
    BY <1>2, <1>5, <1>24 DEF HandleGetNotifications, Serving
  <2> QED BY <2>1 DEF Confirmed, MuteReply, MuteAnswer
<1>25. CASE HandleGetChatNotifications(c)
  <2>1. phase' = [phase EXCEPT ![c] = "fallback"] => phase'[c] # "replying"
    BY <1>1 DEF TypeOK
  <2>2. /\ r.op = "GetChatNotifications" /\ db' = db /\ r.chat \in StorableChats
        /\ Respond(c, MuteReply(u, r.chat))
    BY <1>25, <2>1 DEF HandleGetChatNotifications, Serving
  <2>3. reply'[c] = MuteReply(u, r.chat)
    BY <1>1, <2>2 DEF Respond, TypeOK
  <2> QED BY <2>2, <2>3 DEF Confirmed, MuteReply, MuteAnswer
<1>26. CASE HandleGetChatFallback(c)
  <2>1. /\ r.op = "GetChatNotifications" /\ db' = db /\ reply'[c] = MuteReply(u, Null)
        /\ connOpen => r.chat \notin StorableChats
    BY <1>2, <1>5, <1>26 DEF HandleGetChatFallback, FallbackAsked
  <2>2. connOpen
    BY <1>2, <1>3, <1>26 DEF HandleGetChatFallback, Query
  <2> QED BY <2>1, <2>2 DEF Confirmed, MuteReply, MuteAnswer
<1>27. CASE HandleUpdateNotifications(c)
  <2>1. /\ r.op = "UpdateNotifications" /\ r.body = "ok"
        /\ db' \in UpsertNotifications(db, u, Null, r.mute)
    BY <1>2, <1>3, <1>4, <1>27 DEF HandleUpdateNotifications, Serving
  <2>2. r.mute \in Mutes
    BY <1>1, <2>1, RequestFields
  <2>3. Null \in ChatKeys /\ OrEmpty(Null) = Empty
    BY DEF OrEmpty, ChatKeys
  <2>4. GetNotifications(db', u, Empty) = r.mute
    BY <1>1, <2>1, <2>2, <2>3, MuteConfirmed
  <2> QED BY <2>1, <2>4 DEF Confirmed
<1> QED BY <1>8, <1>9, <1>10, <1>11, <1>12, <1>13, <1>14, <1>15, <1>16, <1>17, <1>18, <1>19,
           <1>20, <1>21, <1>22, <1>23, <1>24, <1>25, <1>26, <1>27 DEF Handle

\* Of the steps that are not a handler's none begins an answer or a fallback.
LEMMA OthersAnswerNothing ==
  ASSUME IInv, DownIsIdle, [Next]_vars, \A c \in Clients : ~Handle(c), NEW c \in Clients,
         phase'[c] \in {"replying", "fallback"}
  PROVE  /\ phase'[c] = phase[c] /\ req'[c] = req[c] /\ reply'[c] = reply[c]
         /\ db' = db /\ connOpen' = connOpen
<1>1. phase \in [Clients -> Phases] /\ req \in [Clients -> HttpRequests \cup {None}]
      /\ reply \in [Clients -> HttpResponses \cup {None}]
  BY DEF IInv, TypeOK
<1>2. CASE \E d \in Clients, r \in Sendable : Submit(d, r)
  BY <1>1, <1>2 DEF Submit
<1>3. CASE Accept
  <2>1. Head(backlog) \in Clients
    BY <1>3 DEF IInv, TypeOK, Accept
  <2> QED BY <1>1, <1>3, <2>1 DEF Accept
<1>4. CASE \E d \in Clients : Reply(d)
  BY <1>1, <1>4 DEF Reply
<1>5. CASE Crash
  BY <1>5 DEF Crash
<1>6. CASE Restart \/ UNCHANGED vars
  BY <1>6 DEF Restart, DownIsIdle, vars
<1> QED BY <1>2, <1>3, <1>4, <1>5, <1>6 DEF Next

LEMMA DownIsIdleInductive == IInv /\ DownIsIdle /\ [Next]_vars => DownIsIdle'
<1> SUFFICES ASSUME IInv, DownIsIdle, [Next]_vars PROVE DownIsIdle'
  OBVIOUS
<1>1. ASSUME NEW c \in Clients, NEW r \in Sendable, Submit(c, r)
      PROVE  DownIsIdle'
  BY <1>1 DEF Submit, DownIsIdle
<1>2. CASE Accept
  BY <1>2 DEF Accept, DownIsIdle
<1>3. ASSUME NEW c \in Clients, Handle(c)
      PROVE  DownIsIdle'
  BY <1>3, HandlerPhase DEF DownIsIdle
<1>4. ASSUME NEW c \in Clients, Reply(c)
      PROVE  DownIsIdle'
  BY <1>4 DEF Reply, DownIsIdle
<1>5. CASE Crash \/ Restart \/ UNCHANGED vars
  BY <1>5 DEF Crash, Restart, vars, DownIsIdle
<1> QED BY <1>1, <1>2, <1>3, <1>4, <1>5 DEF Next

\* Nor does a handler move the answer of another client: there is none (Serial).
LEMMA ToldInductive ==
  IInv /\ DownIsIdle /\ FallbackAsked /\ AnswersMatchTables /\ [Next]_vars
    => DownIsIdle' /\ FallbackAsked' /\ AnswersMatchTables'
<1> SUFFICES ASSUME IInv, DownIsIdle, FallbackAsked, AnswersMatchTables, [Next]_vars
             PROVE  DownIsIdle' /\ FallbackAsked' /\ AnswersMatchTables'
  OBVIOUS
<1>1. CASE \A c \in Clients : ~Handle(c)
  BY <1>1, OthersAnswerNothing, DownIsIdleInductive DEF FallbackAsked, AnswersMatchTables
<1>2. ASSUME NEW d \in Clients, Handle(d)
      PROVE  DownIsIdle' /\ FallbackAsked' /\ AnswersMatchTables'
  <2>1. /\ phase[d] \in {"running", "updating", "fallback"} /\ req' = req
        /\ \A c \in Clients \ {d} : phase'[c] = phase[c]
        /\ phase[d] # "free"
    BY <1>2, HandlerPhase DEF IInv, TypeOK
  <2>2. \A c \in Clients \ {d} : ~InService(c)
    BY <2>1 DEF IInv, Serial, InService
  <2>3. phase'[d] = "replying" /\ Succeeded(reply'[d]) => Confirmed(req[d], reply'[d], db')
    BY <1>2, HandlerConfirms
  <2>4. AnswersMatchTables'
    BY <2>1, <2>2, <2>3 DEF AnswersMatchTables, InService
  <2>5. phase'[d] = "fallback" => HandleGetChatNotifications(d)
    <3>1. \A a : Respond(d, a) => phase'[d] = "replying"
      BY DEF Respond, IInv, TypeOK
    <3>2. /\ \A status : Refuse(d, status) => phase'[d] = "replying"
          /\ \A ok, failure : Query(d, ok, failure) => phase'[d] = "replying"
          /\ \A outcomes, ok, failure :
               Modify(d, outcomes, ok, failure) => phase'[d] = "replying"
      BY <3>1 DEF Refuse, Query, Modify
    <3>3. phase' = [phase EXCEPT ![d] = "updating"] => phase'[d] # "fallback"
      BY DEF IInv, TypeOK
    <3> QED BY <1>2, <3>1, <3>2, <3>3
            DEF Handle, HandleCreateProfile, HandleGetMyProfile, HandleGetProfileByID,
                HandleUpdateProfileRead, HandleUpdateProfileWrite, HandleUploadAvatar,
                HandleDeleteAvatar, HandleGetContacts, HandleAddContact,
                HandleDeleteContact, HandleGetFavorites, HandleAddFavorite,
                HandleRemoveFavorite, HandleGetPrivacy, HandleUpdatePrivacy,
                HandleGetNotifications, HandleGetChatFallback,
                HandleUpdateNotifications, HandleUpdateChatNotifications
  <2>6. HandleGetChatNotifications(d) =>
          /\ req[d].op = "GetChatNotifications" /\ req[d] # None
          /\ phase'[d] = "fallback" /\ connOpen' => req[d].chat \notin StorableChats
    <3>1. Respond(d, MuteReply(req[d].user, req[d].chat)) => phase'[d] # "fallback"
      BY DEF Respond, IInv, TypeOK
    <3> QED BY <2>1, <3>1, ServedRequest, RequestsAssumption
            DEF HandleGetChatNotifications, Serving, Disconnected
  <2>7. FallbackAsked'
    BY <2>1, <2>2, <2>5, <2>6 DEF FallbackAsked, InService
  <2> QED BY <2>4, <2>7, DownIsIdleInductive
<1> QED BY <1>1, <1>2

LEMMA Told == Spec => [](DownIsIdle /\ FallbackAsked /\ AnswersMatchTables)
<1>1. Init => DownIsIdle /\ FallbackAsked /\ AnswersMatchTables
  BY DEF Init, DownIsIdle, FallbackAsked, AnswersMatchTables
<1> QED BY <1>1, Invariance, ToldInductive, PTL DEF Spec

\* A response on its way to the client tells the truth about the tables, for any
\* clients, crashes and restarts.
THEOREM AnswersAreTrue == Spec => []AnswersMatchTables
  BY Told, PTL
=================================================================================
