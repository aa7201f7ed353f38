--------------------------- MODULE ProfileApiProofs ---------------------------
(***************************************************************************)
(* ProfileService implements ProfileApi: every step of the request path is *)
(* a step of the abstract specification or none.  And what ProfileApi says *)
(* of repeated requests, for any clients and tables.                       *)
(***************************************************************************)
EXTENDS ProfileServiceProofs

(***************************************************************************)
(* The definitions of Requests and Repository are the same on both sides   *)
(***************************************************************************)
LEMMA SameRequests ==
  /\ Api!HttpRequests = HttpRequests /\ Api!Writes = Writes
  /\ Api!BadRequests = BadRequests
  BY DEF HttpRequests, Api!HttpRequests, Reads, Api!Reads, Writes, Api!Writes, BadRequests,
         Api!BadRequests, Patches, Api!Patches, SettingsAsked, Api!SettingsAsked,
         Texts, Api!Texts, Urls, Api!Urls, Mutes, Api!Mutes, ChatIds, Api!ChatIds

LEMMA SameAnswers ==
  /\ Api!Failures = Failures
  /\ \A status : Api!Answer(status) = Answer(status)
  /\ \A profile : Api!ProfileAnswer(profile) = ProfileAnswer(profile)
  /\ \A mute : Api!MuteAnswer(mute) = MuteAnswer(mute)
  /\ \A a : Api!Succeeded(a) = Succeeded(a)
  BY DEF Failures, Api!Failures, Answer, Api!Answer, ProfileAnswer, Api!ProfileAnswer,
         MuteAnswer, Api!MuteAnswer, Succeeded, Api!Succeeded, Successes, Api!Successes

LEMMA SameChecked == \A d : Api!Checked(d) = Checked(d)
  BY DEF Checked, Api!Checked, UsernamesUnique, Api!UsernamesUnique, ReferencesHold,
         Api!ReferencesHold, HasProfile, Api!HasProfile, ChatKeys, Api!ChatKeys,
         ChatIds, Api!ChatIds

LEMMA SameProfiles ==
  /\ \A d, u : Api!HasProfile(d, u) = HasProfile(d, u)
  /\ \A row : Api!Shown(row) = Shown(row)
  /\ \A row, patch : Api!Overlay(row, patch) = Overlay(row, patch)
  /\ \A d, u : Api!CreateProfile(d, u) = CreateProfile(d, u)
  /\ \A d, u, x : Api!UpdateProfile(d, u, x) = UpdateProfile(d, u, x)
  /\ \A d, u, x : Api!UpdateAvatarURL(d, u, x) = UpdateAvatarURL(d, u, x)
<1>1. \A d, u : Api!HasProfile(d, u) = HasProfile(d, u)
  BY DEF HasProfile, Api!HasProfile
<1>2. \A v : Api!OrEmpty(v) = OrEmpty(v)
  BY DEF OrEmpty, Api!OrEmpty
<1>3. Api!Columns = Columns /\ Api!NewProfile = NewProfile
  BY DEF Columns, Api!Columns, NewProfile, Api!NewProfile
<1>4. \A row : Api!Shown(row) = Shown(row)
  BY <1>2, <1>3 DEF Shown, Api!Shown
<1>5. \A row, patch : Api!Overlay(row, patch) = Overlay(row, patch)
  BY <1>3 DEF Overlay, Api!Overlay
<1>6. \A d, u : Api!CreateProfile(d, u) = CreateProfile(d, u)
  BY <1>3, SameChecked DEF CreateProfile, Api!CreateProfile
<1>7. \A d, u, x : Api!UpdateProfile(d, u, x) = UpdateProfile(d, u, x)
  BY <1>1, <1>2, <1>3, SameChecked DEF UpdateProfile, Api!UpdateProfile
<1>8. \A d, u, x : Api!UpdateAvatarURL(d, u, x) = UpdateAvatarURL(d, u, x)
  BY <1>1, SameChecked DEF UpdateAvatarURL, Api!UpdateAvatarURL
<1> QED BY <1>1, <1>4, <1>5, <1>6, <1>7, <1>8

LEMMA SameLists ==
  /\ \A d, u, v, x : Api!AddContact(d, u, v, x) = AddContact(d, u, v, x)
  /\ \A d, u, v : Api!RemoveContact(d, u, v) = RemoveContact(d, u, v)
  /\ \A d, u : Api!ListContacts(d, u) = ListContacts(d, u)
  /\ \A d, u, k : Api!AddFavorite(d, u, k) = AddFavorite(d, u, k)
  /\ \A d, u, k : Api!RemoveFavorite(d, u, k) = RemoveFavorite(d, u, k)
  /\ \A d, u : Api!ListFavorites(d, u) = ListFavorites(d, u)
  BY SameChecked
     DEF AddContact, Api!AddContact, RemoveContact, Api!RemoveContact, ListContacts,
         Api!ListContacts, AddFavorite, Api!AddFavorite, RemoveFavorite, Api!RemoveFavorite,
         ListFavorites, Api!ListFavorites, OrEmpty, Api!OrEmpty

LEMMA SameSettings ==
  /\ \A asked : Api!SettingsOf(asked) = SettingsOf(asked)
  /\ \A d, u : Api!GetPrivacy(d, u) = GetPrivacy(d, u)
  /\ \A d, u, x : Api!UpdatePrivacy(d, u, x) = UpdatePrivacy(d, u, x)
  /\ \A d, u, k : Api!GetNotifications(d, u, k) = GetNotifications(d, u, k)
  /\ \A d, u, k, x : Api!UpsertNotifications(d, u, k, x) = UpsertNotifications(d, u, k, x)
  BY SameChecked
     DEF SettingsOf, Api!SettingsOf, GetPrivacy, Api!GetPrivacy, UpdatePrivacy,
         Api!UpdatePrivacy, GetNotifications, Api!GetNotifications, UpsertNotifications,
         Api!UpsertNotifications, OrEmpty, Api!OrEmpty, Settings, Api!Settings

(***************************************************************************)
(* What is asked, operation by operation                                   *)
(***************************************************************************)
\* A request with a body is one ProfileApi can do when its body is "ok" only.
LEMMA GoodBody ==
  ASSUME NEW r \in HttpRequests
  PROVE  /\ r.op \notin {"CreateProfile", "UploadAvatar", "AddContact", "UpdateProfile",
                         "UpdatePrivacy", "UpdateNotifications", "UpdateChatNotifications"}
              => r \notin BadRequests
         /\ r.op \in {"CreateProfile", "UploadAvatar", "AddContact", "UpdateProfile",
                      "UpdatePrivacy", "UpdateNotifications", "UpdateChatNotifications"}
              => (r \in BadRequests <=> r.body # "ok")
<1>1. CASE r \in Reads
  BY <1>1 DEF Reads, BadRequests
<1>2. CASE r \in Writes
  BY <1>2 DEF Writes, BadRequests
<1>3. CASE r \in BadRequests
  BY <1>3 DEF BadRequests
<1> QED BY <1>1, <1>2, <1>3 DEF HttpRequests

\* There are no other operations.
LEMMA RequestOps ==
  ASSUME NEW r \in HttpRequests
  PROVE  r.op \in {"GetMyProfile", "GetProfileByID", "CreateProfile", "UpdateProfile",
                   "UploadAvatar", "DeleteAvatar", "GetContacts", "AddContact",
                   "DeleteContact", "GetFavorites", "AddFavorite", "RemoveFavorite",
                   "GetPrivacy", "UpdatePrivacy", "GetNotifications",
                   "GetChatNotifications", "UpdateNotifications",
                   "UpdateChatNotifications"}
<1>1. CASE r \in Reads
  BY <1>1 DEF Reads
<1>2. CASE r \in Writes
  BY <1>2 DEF Writes
<1>3. CASE r \in BadRequests
  BY <1>3 DEF BadRequests
<1> QED BY <1>1, <1>2, <1>3 DEF HttpRequests

\* What a request is to do, in terms of the statements of Repository.
LEMMA EffectOf ==
  ASSUME NEW d, NEW r, r \notin BadRequests
  PROVE  /\ r.op = "GetMyProfile" => Api!Effect(d, r) = {e \in {d} : HasProfile(d, r.user)}
         /\ r.op = "GetProfileByID" => Api!Effect(d, r) = {e \in {d} : HasProfile(d, r.target)}
         /\ r.op = "CreateProfile" => Api!Effect(d, r) = CreateProfile(d, r.user)
         /\ r.op = "UpdateProfile" => Api!Effect(d, r) =
              IF HasProfile(d, r.user)
              THEN UpdateProfile(d, r.user, Overlay(d.profiles[r.user], r.patch)) ELSE {}
         /\ r.op = "UploadAvatar" => Api!Effect(d, r) = UpdateAvatarURL(d, r.user, r.url)
         /\ r.op = "DeleteAvatar" => Api!Effect(d, r) = UpdateAvatarURL(d, r.user, Empty)
         /\ r.op = "AddContact" =>
              Api!Effect(d, r) = AddContact(d, r.user, r.contact, r.alias)
         /\ r.op = "DeleteContact" => Api!Effect(d, r) = RemoveContact(d, r.user, r.contact)
         /\ r.op = "AddFavorite" => Api!Effect(d, r) = AddFavorite(d, r.user, r.chat)
         /\ r.op = "RemoveFavorite" => Api!Effect(d, r) = RemoveFavorite(d, r.user, r.chat)
         /\ r.op = "UpdatePrivacy" =>
              Api!Effect(d, r) = UpdatePrivacy(d, r.user, SettingsOf(r.settings))
         /\ r.op = "UpdateNotifications" =>
              Api!Effect(d, r) = UpsertNotifications(d, r.user, Null, r.mute)
         /\ r.op = "UpdateChatNotifications" =>
              Api!Effect(d, r) = UpsertNotifications(d, r.user, r.chat, r.mute)
         /\ r.op \in {"GetContacts", "GetFavorites", "GetPrivacy", "GetNotifications",
                      "GetChatNotifications"} => Api!Effect(d, r) = {d}
<1>1. r \notin Api!BadRequests
  BY SameRequests
<1>2. /\ r.op = "GetMyProfile" => Api!Effect(d, r) = {e \in {d} : HasProfile(d, r.user)}
      /\ r.op = "GetProfileByID" => Api!Effect(d, r) = {e \in {d} : HasProfile(d, r.target)}
      /\ r.op = "CreateProfile" => Api!Effect(d, r) = CreateProfile(d, r.user)
      /\ r.op = "UploadAvatar" => Api!Effect(d, r) = UpdateAvatarURL(d, r.user, r.url)
      /\ r.op = "DeleteAvatar" => Api!Effect(d, r) = UpdateAvatarURL(d, r.user, Empty)
  BY <1>1, SameProfiles DEF Api!Effect
<1>3. r.op = "UpdateProfile" => Api!Effect(d, r) =
        IF HasProfile(d, r.user)
        THEN UpdateProfile(d, r.user, Overlay(d.profiles[r.user], r.patch)) ELSE {}
  BY <1>1, SameProfiles DEF Api!Effect
<1>4. /\ r.op = "AddContact" => Api!Effect(d, r) = AddContact(d, r.user, r.contact, r.alias)
      /\ r.op = "DeleteContact" => Api!Effect(d, r) = RemoveContact(d, r.user, r.contact)
      /\ r.op = "AddFavorite" => Api!Effect(d, r) = AddFavorite(d, r.user, r.chat)
      /\ r.op = "RemoveFavorite" => Api!Effect(d, r) = RemoveFavorite(d, r.user, r.chat)
  BY <1>1, SameLists DEF Api!Effect
<1>5. /\ r.op = "UpdatePrivacy" =>
           Api!Effect(d, r) = UpdatePrivacy(d, r.user, SettingsOf(r.settings))
      /\ r.op = "UpdateNotifications" =>
           Api!Effect(d, r) = UpsertNotifications(d, r.user, Null, r.mute)
      /\ r.op = "UpdateChatNotifications" =>
           Api!Effect(d, r) = UpsertNotifications(d, r.user, r.chat, r.mute)
  BY <1>1, SameSettings DEF Api!Effect
<1>6. r.op \in {"GetContacts", "GetFavorites", "GetPrivacy", "GetNotifications",
                "GetChatNotifications"} => Api!Effect(d, r) = {d}
  BY <1>1 DEF Api!Effect
<1> QED BY <1>2, <1>3, <1>4, <1>5, <1>6

LEMMA BadEffect ==
  ASSUME NEW d, NEW r \in BadRequests
  PROVE  Api!Effect(d, r) = {}
  BY SameRequests DEF Api!Effect

LEMMA SuccessOf ==
  ASSUME NEW e, NEW r
  PROVE  /\ r.op = "GetProfileByID" =>
              Api!Success(r, e) = ProfileAnswer(Shown(e.profiles[r.target]))
         /\ r.op \in {"GetMyProfile", "UpdateProfile"} =>
              Api!Success(r, e) = ProfileAnswer(Shown(e.profiles[r.user]))
         /\ r.op = "GetContacts" =>
              Api!Success(r, e) = [status |-> 200, contacts |-> ListContacts(e, r.user)]
         /\ r.op = "GetFavorites" =>
              Api!Success(r, e) = [status |-> 200, favorites |-> ListFavorites(e, r.user)]
         /\ r.op = "GetPrivacy" =>
              Api!Success(r, e) = [status |-> 200, privacy |-> GetPrivacy(e, r.user)]
         /\ r.op = "GetNotifications" =>
              Api!Success(r, e) = MuteAnswer(GetNotifications(e, r.user, Null))
         /\ r.op = "GetChatNotifications" =>
              Api!Success(r, e) =
                MuteAnswer(GetNotifications(e, r.user,
                                            IF r.chat \in StorableChats THEN r.chat ELSE Null))
         /\ r.op \in {"CreateProfile", "AddContact", "AddFavorite"} =>
              Api!Success(r, e) = Answer(201)
         /\ r.op = "UploadAvatar" => Api!Success(r, e) = Answer(200)
         /\ r.op \in {"DeleteAvatar", "DeleteContact", "RemoveFavorite", "UpdatePrivacy",
                      "UpdateNotifications", "UpdateChatNotifications"} =>
              Api!Success(r, e) = Answer(204)
  BY SameAnswers, SameProfiles, SameLists, SameSettings DEF Api!Success

(***************************************************************************)
(* The mapping holds on the states the service can be in                   *)
(***************************************************************************)

\* Who waits has asked and is not answered.
Mapped ==
  /\ \A c \in Clients : phase[c] = "free" => req[c] = None
  /\ \A c \in Clients : reply[c] # None <=> phase[c] = "replying"

MInv == IInv /\ DownIsIdle /\ FallbackAsked /\ Mapped

\* A handler's step, as ProfileApi sees it.
Refused(c) == \E status \in Failures : Refuse(c, status) /\ Api!Effect(db, req[c]) = {}

Abandoned(c) ==
  /\ \E status \in Failures : Respond(c, Answer(status))
  /\ connOpen' = FALSE
  /\ db' = db \/ (connOpen /\ db' \in Api!Effect(db, req[c]))

Served(c) ==
  /\ connOpen /\ connOpen' = connOpen
  /\ db' \in Api!Effect(db, req[c])
  /\ Respond(c, Api!Success(req[c], db'))

Unseen(c) ==
  /\ UNCHANGED <<db, up, backlog, worker, req, reply>>
  /\ connOpen' = connOpen \/ connOpen' = FALSE
  /\ \/ phase' = [phase EXCEPT ![c] = "updating"]
     \/ phase' = [phase EXCEPT ![c] = "fallback"] /\ (connOpen' => req[c].chat \notin StorableChats)

Seen(c) == Refused(c) \/ Abandoned(c) \/ Served(c) \/ Unseen(c)

LEMMA QuerySeen ==
  ASSUME NEW c \in Clients, NEW ok, NEW failure \in Failures, Query(c, ok, failure),
         connOpen => \/ Api!Effect(db, req[c]) = {db} /\ ok = Api!Success(req[c], db)
                     \/ Api!Effect(db, req[c]) = {} /\ \E status \in Failures : ok = Answer(status)
  PROVE  Seen(c)
<1>1. CASE Disconnected /\ Respond(c, Answer(failure))
  BY <1>1 DEF Disconnected, Abandoned, Seen
<1>2. CASE connOpen /\ Respond(c, ok) /\ UNCHANGED <<db, connOpen>>
  BY <1>2 DEF Refuse, Refused, Served, Seen
<1> QED BY <1>1, <1>2 DEF Query

LEMMA ModifySeen ==
  ASSUME NEW c \in Clients, NEW outcomes, NEW ok, NEW failure \in Failures,
         Modify(c, outcomes, ok, failure),
         Api!Effect(db, req[c]) = outcomes,
         \A e \in outcomes : ok = Api!Success(req[c], e)
  PROVE  Seen(c)
<1>1. CASE Disconnected /\ Respond(c, Answer(failure))
  BY <1>1 DEF Disconnected, Abandoned, Seen
<1>2. CASE outcomes = {} /\ Respond(c, Answer(failure)) /\ UNCHANGED <<db, connOpen>>
  BY <1>2 DEF Refuse, Refused, Seen
<1>3. CASE connOpen /\ db' \in outcomes /\ Respond(c, ok) /\ UNCHANGED connOpen
  BY <1>3 DEF Served, Seen
<1>4. CASE connOpen /\ db' \in outcomes /\ Respond(c, Answer(failure)) /\ connOpen' = FALSE
  BY <1>4 DEF Abandoned, Seen
<1> QED BY <1>1, <1>2, <1>3, <1>4 DEF Modify

LEMMA BadSeen ==
  ASSUME NEW c \in Clients, NEW failure \in Failures, Refuse(c, failure),
         req[c] \in BadRequests
  PROVE  Seen(c)
  BY BadEffect DEF Refused, Seen

\* Whatever a handler does is one of the four.
LEMMA HandlerSeen ==
  ASSUME MInv, NEW c \in Clients, Handle(c)
  PROVE  Seen(c)
<1> DEFINE r == req[c]
           u == req[c].user
<1>1. /\ TypeOK /\ db \in Database
      /\ r \in HttpRequests /\ u \in Users
  <2>1. phase[c] # "free"
    BY HandlerPhase
  <2> QED BY <2>1, ServedRequest, RequestUser DEF MInv, IInv, TypeOK
<1>2. 400 \in Failures /\ 404 \in Failures /\ 409 \in Failures /\ 500 \in Failures
  BY DEF Failures
<1>3. CASE HandleCreateProfile(c)
  <2>1. r.op = "CreateProfile"
    BY <1>3 DEF HandleCreateProfile, Serving
  <2>2. CASE r.body # "ok" /\ \E status \in Failures : Refuse(c, status)
    BY <1>1, <2>1, <2>2, GoodBody, BadSeen
  <2>3. CASE r.body = "ok" /\ Modify(c, CreateProfile(db, u), Answer(201), 500)
    BY <1>1, <1>2, <2>1, <2>3, GoodBody, EffectOf, SuccessOf, ModifySeen
  <2> QED BY <1>2, <1>3, <2>2, <2>3 DEF HandleCreateProfile
<1>4. CASE HandleGetMyProfile(c)
  <2>1. r.op = "GetMyProfile" /\ Query(c, ProfileReply(u), 404)
    BY <1>4 DEF HandleGetMyProfile, Serving
  <2>2. Api!Effect(db, r) = {e \in {db} : HasProfile(db, u)}
        /\ Api!Success(r, db) = ProfileAnswer(Shown(db.profiles[u]))
    BY <1>1, <2>1, GoodBody, EffectOf, SuccessOf
  <2>3. \/ Api!Effect(db, r) = {db} /\ ProfileReply(u) = Api!Success(r, db)
        \/ Api!Effect(db, r) = {} /\ ProfileReply(u) = Answer(404)
    BY <2>2 DEF ProfileReply
  <2> QED BY <1>2, <2>1, <2>3, QuerySeen
<1>5. CASE HandleGetProfileByID(c)
  <2>1. r.op = "GetProfileByID" /\ Query(c, ProfileReply(r.target), 404)
    BY <1>5 DEF HandleGetProfileByID, Serving
  <2>2. Api!Effect(db, r) = {e \in {db} : HasProfile(db, r.target)}
        /\ Api!Success(r, db) = ProfileAnswer(Shown(db.profiles[r.target]))
    BY <1>1, <2>1, GoodBody, EffectOf, SuccessOf
  <2>3. \/ Api!Effect(db, r) = {db} /\ ProfileReply(r.target) = Api!Success(r, db)
        \/ Api!Effect(db, r) = {} /\ ProfileReply(r.target) = Answer(404)
    BY <2>2 DEF ProfileReply
  <2> QED BY <1>2, <2>1, <2>3, QuerySeen
<1>6. CASE HandleUpdateProfileRead(c)
  <2>1. r.op = "UpdateProfile"
    BY <1>6 DEF HandleUpdateProfileRead, Serving
  <2>2. CASE r.body # "ok" /\ Refuse(c, 500)
    BY <1>1, <1>2, <2>1, <2>2, GoodBody, BadSeen
  <2>3. CASE Disconnected /\ Respond(c, Answer(500))
    BY <1>2, <2>3 DEF Disconnected, Abandoned, Seen
  <2>4. CASE r.body = "ok" /\ ~HasProfile(db, u) /\ Refuse(c, 500)
    <3>1. Api!Effect(db, r) = {}
      BY <1>1, <2>1, <2>4, GoodBody, EffectOf
    <3> QED BY <1>2, <2>4, <3>1 DEF Refused, Seen
  <2>5. CASE /\ phase' = [phase EXCEPT ![c] = "updating"]
             /\ UNCHANGED <<db, connOpen, up, backlog, worker, req, reply, sent, crashes>>
    BY <2>5 DEF Unseen, Seen
  <2> QED BY <1>6, <2>2, <2>3, <2>4, <2>5 DEF HandleUpdateProfileRead
<1>7. CASE HandleUpdateProfileWrite(c)
  <2>1. /\ r.op = "UpdateProfile" /\ r.body = "ok" /\ HasProfile(db, u)
        /\ copy[c] = Overlay(db.profiles[u], r.patch)
    BY <1>7 DEF HandleUpdateProfileWrite, MInv, IInv, FreshCopy
  <2>2. r.patch \in Patches
    BY <1>1, <2>1, RequestFields
  <2>3. Api!Effect(db, r) = UpdateProfile(db, u, copy[c])
    BY <1>1, <2>1, GoodBody, EffectOf
  <2>4. ASSUME NEW e \in UpdateProfile(db, u, copy[c])
        PROVE  ProfileAnswer(Shown(copy[c])) = Api!Success(r, e)
    BY <1>1, <2>1, <2>2, PatchConfirmed, SuccessOf
  <2>5. Modify(c, UpdateProfile(db, u, copy[c]), ProfileAnswer(Shown(copy[c])), 409)
    BY <1>7 DEF HandleUpdateProfileWrite
  <2> QED BY <1>2, <2>3, <2>4, <2>5, ModifySeen
<1>8. CASE HandleUploadAvatar(c)
  <2>1. r.op = "UploadAvatar"
    BY <1>8 DEF HandleUploadAvatar, Serving
  <2>2. CASE r.body # "ok" /\ \E status \in Failures : Refuse(c, status)
    BY <1>1, <2>1, <2>2, GoodBody, BadSeen
  <2>3. CASE r.body = "ok" /\ Modify(c, UpdateAvatarURL(db, u, r.url), Answer(200), 500)
    BY <1>1, <1>2, <2>1, <2>3, GoodBody, EffectOf, SuccessOf, ModifySeen
  <2> QED BY <1>2, <1>8, <2>2, <2>3 DEF HandleUploadAvatar
<1>9. CASE HandleDeleteAvatar(c)
  <2>1. r.op = "DeleteAvatar" /\ Modify(c, UpdateAvatarURL(db, u, Empty), Answer(204), 500)
    BY <1>9 DEF HandleDeleteAvatar, Serving
  <2> QED BY <1>1, <1>2, <2>1, GoodBody, EffectOf, SuccessOf, ModifySeen
<1>10. CASE HandleGetContacts(c)
  <2>1. /\ r.op = "GetContacts"
        /\ Query(c, [status |-> 200, contacts |-> ListContacts(db, u)], 404)
    BY <1>10 DEF HandleGetContacts, Serving
  <2> QED BY <1>1, <1>2, <2>1, GoodBody, EffectOf, SuccessOf, QuerySeen
<1>11. CASE HandleAddContact(c)
  <2>1. r.op = "AddContact"
    BY <1>11 DEF HandleAddContact, Serving
  <2>2. CASE r.body # "ok" /\ \E status \in Failures : Refuse(c, status)
    BY <1>1, <2>1, <2>2, GoodBody, BadSeen
  <2>3. CASE r.body = "ok" /\ Modify(c, AddContact(db, u, r.contact, r.alias), Answer(201), 409)
    BY <1>1, <1>2, <2>1, <2>3, GoodBody, EffectOf, SuccessOf, ModifySeen
  <2> QED BY <1>2, <1>11, <2>2, <2>3 DEF HandleAddContact
<1>12. CASE HandleDeleteContact(c)
  <2>1. /\ r.op = "DeleteContact"
        /\ Modify(c, RemoveContact(db, u, r.contact), Answer(204), 404)
    BY <1>12 DEF HandleDeleteContact, Serving
  <2> QED BY <1>1, <1>2, <2>1, GoodBody, EffectOf, SuccessOf, ModifySeen
<1>13. CASE HandleGetFavorites(c)
  <2>1. /\ r.op = "GetFavorites"
        /\ Query(c, [status |-> 200, favorites |-> ListFavorites(db, u)], 500)
    BY <1>13 DEF HandleGetFavorites, Serving
  <2> QED BY <1>1, <1>2, <2>1, GoodBody, EffectOf, SuccessOf, QuerySeen
<1>14. CASE HandleAddFavorite(c)
  <2>1. r.op = "AddFavorite" /\ Modify(c, AddFavorite(db, u, r.chat), Answer(201), 500)
    BY <1>14 DEF HandleAddFavorite, Serving
  <2> QED BY <1>1, <1>2, <2>1, GoodBody, EffectOf, SuccessOf, ModifySeen
<1>15. CASE HandleRemoveFavorite(c)
  <2>1. r.op = "RemoveFavorite" /\ Modify(c, RemoveFavorite(db, u, r.chat), Answer(204), 500)
    BY <1>15 DEF HandleRemoveFavorite, Serving
  <2> QED BY <1>1, <1>2, <2>1, GoodBody, EffectOf, SuccessOf, ModifySeen
<1>16. CASE HandleGetPrivacy(c)
  <2>1. /\ r.op = "GetPrivacy"
        /\ Query(c, [status |-> 200, privacy |-> GetPrivacy(db, u)], 500)
    BY <1>16 DEF HandleGetPrivacy, Serving
  <2> QED BY <1>1, <1>2, <2>1, GoodBody, EffectOf, SuccessOf, QuerySeen
<1>17. CASE HandleUpdatePrivacy(c)
  <2>1. r.op = "UpdatePrivacy"
    BY <1>17 DEF HandleUpdatePrivacy, Serving
  <2>2. CASE r.body # "ok" /\ Refuse(c, 500)
    BY <1>1, <1>2, <2>1, <2>2, GoodBody, BadSeen
  <2>3. CASE /\ r.body = "ok"
             /\ Modify(c, UpdatePrivacy(db, u, SettingsOf(r.settings)), Answer(204), 500)
    BY <1>1, <1>2, <2>1, <2>3, GoodBody, EffectOf, SuccessOf, ModifySeen
  <2> QED BY <1>17, <2>2, <2>3 DEF HandleUpdatePrivacy
<1>18. CASE HandleGetNotifications(c)
  <2>1. r.op = "GetNotifications" /\ Query(c, MuteReply(u, Null), 500)
    BY <1>18 DEF HandleGetNotifications, Serving
  <2> QED BY <1>1, <1>2, <2>1, GoodBody, EffectOf, SuccessOf, QuerySeen DEF MuteReply
<1>19. CASE HandleGetChatNotifications(c)
  <2>1. r.op = "GetChatNotifications" /\ Api!Effect(db, r) = {db}
    BY <1>1, <1>19, GoodBody, EffectOf DEF HandleGetChatNotifications, Serving
  <2>2. CASE /\ connOpen /\ r.chat \in StorableChats
             /\ Respond(c, MuteReply(u, r.chat)) /\ UNCHANGED <<db, connOpen>>
    <3>1. MuteReply(u, r.chat) = Api!Success(r, db)
      BY <2>1, <2>2, SuccessOf DEF MuteReply
    <3> QED BY <2>1, <2>2, <3>1 DEF Served, Seen
  <2>3. CASE /\ Disconnected \/ (r.chat \notin StorableChats /\ UNCHANGED <<db, connOpen>>)
             /\ phase' = [phase EXCEPT ![c] = "fallback"]
             /\ UNCHANGED <<up, backlog, worker, req, copy, reply, sent, crashes>>
    BY <2>3 DEF Disconnected, Unseen, Seen
  <2> QED BY <1>19, <2>2, <2>3 DEF HandleGetChatNotifications
<1>20. CASE HandleGetChatFallback(c)
  <2>1. /\ r.op = "GetChatNotifications" /\ Query(c, MuteReply(u, Null), 500)
        /\ connOpen => r.chat \notin StorableChats
    BY <1>20 DEF HandleGetChatFallback, MInv, FallbackAsked
  <2> QED BY <1>1, <1>2, <2>1, GoodBody, EffectOf, SuccessOf, QuerySeen DEF MuteReply
<1>21. CASE HandleUpdateNotifications(c)
  <2>1. r.op = "UpdateNotifications"
    BY <1>21 DEF HandleUpdateNotifications, Serving
  <2>2. CASE r.body # "ok" /\ Refuse(c, 400)
    BY <1>1, <1>2, <2>1, <2>2, GoodBody, BadSeen
  <2>3. CASE /\ r.body = "ok"
             /\ Modify(c, UpsertNotifications(db, u, Null, r.mute), Answer(204), 400)
    BY <1>1, <1>2, <2>1, <2>3, GoodBody, EffectOf, SuccessOf, ModifySeen
  <2> QED BY <1>21, <2>2, <2>3 DEF HandleUpdateNotifications
<1>22. CASE HandleUpdateChatNotifications(c)
  <2>1. r.op = "UpdateChatNotifications"
    BY <1>22 DEF HandleUpdateChatNotifications, Serving
  <2>2. CASE r.body # "ok" /\ Refuse(c, 400)
    BY <1>1, <1>2, <2>1, <2>2, GoodBody, BadSeen
  <2>3. CASE /\ r.body = "ok"
             /\ Modify(c, UpsertNotifications(db, u, r.chat, r.mute), Answer(204), 400)
    BY <1>1, <1>2, <2>1, <2>3, GoodBody, EffectOf, SuccessOf, ModifySeen
  <2> QED BY <1>22, <2>2, <2>3 DEF HandleUpdateChatNotifications
<1> QED BY <1>3, <1>4, <1>5, <1>6, <1>7, <1>8, <1>9, <1>10, <1>11, <1>12, <1>13, <1>14, <1>15,
           <1>16, <1>17, <1>18, <1>19, <1>20, <1>21, <1>22 DEF Handle

\* A success is an answer.
LEMMA SuccessIsAnswer ==
  ASSUME NEW d \in Database, NEW r \in HttpRequests, NEW e \in Database,
         e \in Api!Effect(d, r)
  PROVE  Api!Success(r, e) # None
<1> DEFINE u == r.user
<1>1. u \in Users /\ r \notin BadRequests
  BY RequestUser, BadEffect
<1>2. 200 \in Successes /\ 201 \in Successes /\ 204 \in Successes
  BY DEF Successes
<1>3. /\ \A status \in Successes : Answer(status) \in HttpResponses
      /\ \A profile \in [Columns -> Values] : ProfileAnswer(profile) \in HttpResponses
      /\ \A mute \in Mutes : MuteAnswer(mute) \in HttpResponses
  BY AnswerType DEF ProfileAnswer, MuteAnswer, HttpResponses
<1>4. \A v \in Users : HasProfile(e, v) => Shown(e.profiles[v]) \in [Columns -> Values]
  BY ShownType DEF HasProfile, Database
<1>5. CASE r.op = "GetProfileByID"
  <2>1. r.target \in Users /\ HasProfile(e, r.target)
    BY <1>1, <1>5, RequestFields, EffectOf
  <2>2. Api!Success(r, e) \in HttpResponses
    BY <1>3, <1>4, <1>5, <2>1, SuccessOf
  <2> QED BY <2>2, RequestsAssumption
<1>6. CASE r.op = "GetMyProfile"
  <2>1. HasProfile(e, u)
    BY <1>1, <1>6, EffectOf
  <2>2. Api!Success(r, e) \in HttpResponses
    BY <1>1, <1>3, <1>4, <1>6, <2>1, SuccessOf
  <2> QED BY <2>2, RequestsAssumption
<1>7. CASE r.op = "UpdateProfile"
  <2>1. HasProfile(d, u) /\ e \in UpdateProfile(d, u, Overlay(d.profiles[u], r.patch))
    BY <1>1, <1>7, EffectOf
  <2>2. r.patch \in Patches
    BY <1>1, <1>7, GoodBody, RequestFields
  <2>3. Shown(e.profiles[u]) = Shown(Overlay(d.profiles[u], r.patch))
    BY <1>1, <2>1, <2>2, PatchConfirmed
  <2>4. Shown(e.profiles[u]) \in [Columns -> Values]
    BY <1>1, <2>1, <2>2, <2>3, OverlayType, ShownType DEF HasProfile, Database
  <2>5. Api!Success(r, e) \in HttpResponses
    BY <1>3, <1>7, <2>4, SuccessOf
  <2> QED BY <2>5, RequestsAssumption
<1>8. CASE r.op \in {"GetContacts", "GetFavorites", "GetPrivacy"}
  <2>1. ListContacts(e, u) \in SUBSET (Users \X Texts)
    <3>1. Null \in Texts \cup {Null}
      OBVIOUS
    <3> QED BY <1>1, <3>1, ContactsType
  <2>2. ListFavorites(e, u) \in SUBSET StorableChats
    BY DEF ListFavorites
  <2>3. GetPrivacy(e, u) \in Settings
    BY <1>1, PrivacyType
  <2>4. Api!Success(r, e) \in HttpResponses
    BY <1>8, <2>1, <2>2, <2>3, SuccessOf DEF HttpResponses
  <2> QED BY <2>4, RequestsAssumption
<1>9. CASE r.op \in {"GetNotifications", "GetChatNotifications"}
  <2>1. r.op = "GetChatNotifications" => r.chat \in ChatIds
    BY RequestFields
  <2>2. "muted" \in Mutes /\ Null \in ChatKeys /\ ChatIds \subseteq ChatKeys
    BY DEF Mutes, ChatKeys
  <2>3. \A k \in ChatKeys : GetNotifications(e, u, k) \in Mutes
    BY <1>1, <2>2, NotificationsType
  <2>4. Api!Success(r, e) \in HttpResponses
    BY <1>3, <1>9, <2>1, <2>2, <2>3, SuccessOf
  <2> QED BY <2>4, RequestsAssumption
<1>10. CASE r.op \in {"CreateProfile", "AddContact", "AddFavorite", "UploadAvatar",
                      "DeleteAvatar", "DeleteContact", "RemoveFavorite", "UpdatePrivacy",
                      "UpdateNotifications", "UpdateChatNotifications"}
  <2>1. Api!Success(r, e) \in HttpResponses
    BY <1>2, <1>3, <1>10, SuccessOf
  <2> QED BY <2>1, RequestsAssumption
<1> QED BY <1>5, <1>6, <1>7, <1>8, <1>9, <1>10, RequestOps

\* What a handler answers is an answer.
LEMMA SeenAnswers ==
  ASSUME MInv, NEW c \in Clients, Handle(c)
  PROVE  \A a : Respond(c, a) => a # None /\ reply' = [reply EXCEPT ![c] = a]
                                 /\ phase' = [phase EXCEPT ![c] = "replying"]
<1> SUFFICES ASSUME NEW a, Respond(c, a)
             PROVE  a # None /\ reply' = [reply EXCEPT ![c] = a]
                    /\ phase' = [phase EXCEPT ![c] = "replying"]
  OBVIOUS
<1>1. /\ reply' = [reply EXCEPT ![c] = a]
      /\ phase' = [phase EXCEPT ![c] = "replying"]
  BY DEF Respond
<1>2. TypeOK /\ TypeOK' /\ req[c] \in HttpRequests
  <2>1. TypeOK /\ phase[c] # "free"
    BY HandlerPhase DEF MInv, IInv
  <2>2. req[c] \in HttpRequests
    BY <2>1, ServedRequest DEF MInv
  <2> QED BY <2>1, <2>2, HandlersType DEF MInv
<1> DEFINE success == Api!Success(req[c], db')
<1>3. /\ reply \in [Clients -> HttpResponses \cup {None}]
      /\ phase \in [Clients -> Phases]
  BY <1>2 DEF TypeOK
<1>4. reply'[c] = a
  BY <1>3, <1>1
<1>5. phase'[c] = "replying"
  BY <1>3, <1>1
<1>6. \A status \in Failures : Answer(status) # None
  BY AnswerType, RequestsAssumption
<1>7. CASE Refused(c) \/ Abandoned(c)
  <2>1. \E status \in Failures : reply'[c] = Answer(status)
    BY <1>2, <1>7 DEF Refused, Refuse, Abandoned, Respond, TypeOK
  <2> QED BY <1>1, <1>6, <1>4, <2>1
<1>8. CASE Served(c)
  <2>1. db' \in Api!Effect(db, req[c])
    BY <1>8 DEF Served
  <2>2. reply'[c] = success
    <3>1. reply' = [reply EXCEPT ![c] = success]
      BY <1>8 DEF Served, Respond
    <3> HIDE DEF success
    <3> QED BY <1>3, <3>1
  <2>3. db \in Database /\ db' \in Database
    BY <1>2 DEF TypeOK
  <2>4. success # None
    BY <1>2, <2>1, <2>3, SuccessIsAnswer
  <2> QED BY <1>1, <1>4, <2>2, <2>4
<1>9. ~Unseen(c)
  <2>1. \A p : phase' = [phase EXCEPT ![c] = p] => phase'[c] = p
    BY <1>3
  <2> QED BY <1>5, <2>1 DEF Unseen
<1>10. a # None
  BY <1>7, <1>8, <1>9, HandlerSeen DEF Seen
<1> QED BY <1>1, <1>10

LEMMA MappedInductive == MInv /\ [Next]_vars => Mapped'
<1> SUFFICES ASSUME MInv, [Next]_vars PROVE Mapped'
  OBVIOUS
<1>1. /\ TypeOK /\ QueueHoldsWaiting /\ Mapped
      /\ phase \in [Clients -> Phases] /\ req \in [Clients -> HttpRequests \cup {None}]
      /\ reply \in [Clients -> HttpResponses \cup {None}]
  BY DEF MInv, IInv, TypeOK
<1>2. ASSUME NEW d \in Clients, NEW r \in Sendable, Submit(d, r)
      PROVE  Mapped'
  <2>1. /\ phase' = [phase EXCEPT ![d] = "queued"] /\ req' = [req EXCEPT ![d] = r]
        /\ reply' = reply /\ phase[d] = "free"
    BY <1>2 DEF Submit
  <2> QED BY <1>1, <2>1 DEF Mapped
<1>3. CASE Accept
  <2>1. /\ backlog # <<>> /\ phase' = [phase EXCEPT ![Head(backlog)] = "running"]
        /\ UNCHANGED <<reply, req>>
    BY <1>3 DEF Accept
  <2>2. Head(backlog) = backlog[1] /\ 1 \in 1..Len(backlog) /\ Head(backlog) \in Clients
    BY <1>1, <2>1 DEF TypeOK
  <2>3. phase[Head(backlog)] = "queued"
    BY <1>1, <2>2 DEF QueueHoldsWaiting
  <2> QED BY <1>1, <2>1, <2>2, <2>3 DEF Mapped
<1>4. ASSUME NEW d \in Clients, Reply(d)
      PROVE  Mapped'
  <2>1. /\ phase' = [phase EXCEPT ![d] = "free"] /\ req' = [req EXCEPT ![d] = None]
        /\ reply' = [reply EXCEPT ![d] = None]
    BY <1>4 DEF Reply
  <2> QED BY <1>1, <2>1 DEF Mapped
<1>5. CASE Crash
  BY <1>5 DEF Crash, Mapped
<1>6. CASE Restart
  BY <1>1, <1>6 DEF Restart, Mapped
<1>7. CASE UNCHANGED vars
  BY <1>1, <1>7 DEF vars, Mapped
<1>8. ASSUME NEW d \in Clients, Handle(d)
      PROVE  Mapped'
  <2>1. /\ phase[d] \in {"running", "updating", "fallback"} /\ req' = req
        /\ phase[d] # "free"
    BY <1>8, HandlerPhase
  <2>2. ASSUME NEW a, Respond(d, a)
        PROVE  Mapped'
    <3>1. /\ a # None /\ reply' = [reply EXCEPT ![d] = a]
          /\ phase' = [phase EXCEPT ![d] = "replying"]
      BY <1>8, <2>2, SeenAnswers
    <3> QED BY <1>1, <2>1, <3>1 DEF Mapped
  <2>3. CASE Unseen(d)
    <3>1. /\ reply' = reply
          /\ \/ phase' = [phase EXCEPT ![d] = "updating"]
             \/ phase' = [phase EXCEPT ![d] = "fallback"]
      BY <2>3 DEF Unseen
    <3>2. reply[d] = None
      BY <1>1, <2>1 DEF Mapped
    <3> QED BY <1>1, <2>1, <3>1, <3>2 DEF Mapped
  <2> QED BY <1>8, <2>2, <2>3, HandlerSeen DEF Seen, Refused, Refuse, Abandoned, Served
<1> QED BY <1>2, <1>3, <1>4, <1>5, <1>6, <1>7, <1>8 DEF Next

(***************************************************************************)
(* The simulation                                                          *)
(***************************************************************************)
LEMMA HandlerRefines ==
  ASSUME MInv, NEW c \in Clients, Handle(c)
  PROVE  Api!Next \/ UNCHANGED Api!vars
<1>1. Seen(c)
  BY HandlerSeen
<1>2. Api!Waiting(c)
  <2>1. phase[c] \in {"running", "updating", "fallback"}
    BY HandlerPhase
  <2>2. req[c] # None /\ reply[c] = None
    BY <2>1 DEF MInv, IInv, QueueHoldsWaiting, Mapped
  <2> QED BY <2>2 DEF Api!Waiting
<1>3. \A status \in Failures : Respond(c, Answer(status)) => Api!Fail(c) /\ req' = req
  BY SameAnswers DEF Respond, Api!Fail
<1>4. CASE Refused(c)
  <2>1. Api!Refuse(c)
    BY <1>2, <1>3, <1>4 DEF Refused, Refuse, Api!Refuse
  <2> QED BY <2>1 DEF Api!Next
<1>5. CASE Abandoned(c)
  <2>1. Api!Abandon(c)
    BY <1>2, <1>3, <1>5 DEF Abandoned, Api!Abandon
  <2> QED BY <2>1 DEF Api!Next
<1>6. CASE Served(c)
  <2>1. Api!Serve(c)
    BY <1>2, <1>6 DEF Served, Respond, Api!Serve
  <2> QED BY <2>1 DEF Api!Next
<1>7. CASE Unseen(c)
  <2>1. Api!Outage \/ UNCHANGED Api!vars
    BY <1>7 DEF Unseen, Api!Outage, Api!vars
  <2> QED BY <2>1 DEF Api!Next
<1> QED BY <1>1, <1>4, <1>5, <1>6, <1>7 DEF Seen

LEMMA InitMaps == Init => Api!Init /\ MInv
<1> SUFFICES ASSUME Init PROVE Api!Init /\ MInv
  OBVIOUS
<1>1. Api!Init
  BY DEF Init, Api!Init, EmptyDatabase, Api!EmptyDatabase, ChatKeys, Api!ChatKeys, ChatIds,
         Api!ChatIds
<1>2. DownIsIdle /\ FallbackAsked /\ Mapped
  BY DEF Init, DownIsIdle, FallbackAsked, Mapped
<1> QED BY <1>1, <1>2, InitIInv DEF MInv

LEMMA StepRefines == MInv /\ [Next]_vars => [Api!Next]_Api!vars
<1> SUFFICES ASSUME MInv, [Next]_vars
             PROVE  Api!Next \/ UNCHANGED Api!vars
  OBVIOUS
<1>1. ASSUME NEW c \in Clients, NEW r \in Sendable, Submit(c, r)
      PROVE  Api!Next
  <2>1. req[c] = None /\ r \in Api!HttpRequests
    BY <1>1, SameRequests DEF Submit, MInv, Mapped, Sendable
  <2>2. Api!Ask(c)
    BY <1>1, <2>1 DEF Submit, Api!Ask
  <2> QED BY <2>2 DEF Api!Next
<1>2. CASE Accept
  BY <1>2 DEF Accept, Api!vars
<1>3. ASSUME NEW c \in Clients, Reply(c)
      PROVE  Api!Next
  <2>1. reply[c] # None
    BY <1>3 DEF Reply, MInv, Mapped
  <2>2. Api!Finish(c)
    BY <1>3, <2>1 DEF Reply, Api!Finish
  <2> QED BY <2>2 DEF Api!Next
<1>4. CASE Crash
  <2>1. Api!Die
    BY <1>4 DEF Crash, Api!Die
  <2> QED BY <2>1 DEF Api!Next
<1>5. CASE Restart
  <2>1. Api!Recover
    BY <1>5 DEF Restart, Api!Recover, MInv, DownIsIdle, Mapped
  <2> QED BY <2>1 DEF Api!Next
<1>6. CASE UNCHANGED vars
  BY <1>6 DEF vars, Api!vars
<1> QED BY <1>1, <1>2, <1>3, <1>4, <1>5, <1>6, HandlerRefines DEF Next

LEMMA MappingInvariant == Spec => []MInv
<1>1. Init => Mapped
  BY InitMaps DEF MInv
<1> QED BY <1>1, MappedInductive, Invariance, Told, PTL DEF Spec, MInv

\* ProfileService implements ProfileApi, for any users, chats, clients and bounds:
\* each request is one step that does all it was asked and says so, or does nothing,
\* or loses the store.
THEOREM ServiceImplementsApi == Spec => ImplementsApi
<1>1. Spec => Init /\ [][Next]_vars
  BY PTL DEF Spec
<1> QED BY <1>1, InitMaps, StepRefines, MappingInvariant, PTL DEF ImplementsApi, Api!Spec
(***************************************************************************)
(* A write that succeeded can be sent again                                *)
(***************************************************************************)
LEMMA CheckedTwice ==
  ASSUME NEW d, NEW e \in Checked(d)
  PROVE  e = d /\ Checked(e) = {e}
  BY DEF Checked

LEMMA SameField ==
  ASSUME NEW d \in Database
  PROVE  /\ [d EXCEPT !.profiles = d.profiles] = d
         /\ [d EXCEPT !.contacts = d.contacts] = d
         /\ [d EXCEPT !.favorites = d.favorites] = d
         /\ [d EXCEPT !.privacy = d.privacy] = d
         /\ [d EXCEPT !.notifications = d.notifications] = d
  BY DEF Database

LEMMA CreateTwice ==
  ASSUME NEW d \in Database, NEW u \in Users, NEW e \in CreateProfile(d, u), e \in Database
  PROVE  CreateProfile(e, u) = {e}
<1>1. e.profiles[u] # None
  BY CreateConfirmed DEF HasProfile
<1>2. [e.profiles EXCEPT ![u] = IF @ = None THEN NewProfile ELSE @] = e.profiles
  BY <1>1 DEF Database
<1>3. [e EXCEPT !.profiles[u] = IF @ = None THEN NewProfile ELSE @] = e
  BY <1>2, SameField
<1>4. Checked(e) = {e}
  BY CheckedTwice DEF CreateProfile
<1> QED BY <1>3, <1>4 DEF CreateProfile

LEMMA PatchTwice ==
  ASSUME NEW d \in Database, NEW u \in Users, NEW patch \in Patches, HasProfile(d, u),
         NEW e \in UpdateProfile(d, u, Overlay(d.profiles[u], patch)), e \in Database
  PROVE  HasProfile(e, u) /\ UpdateProfile(e, u, Overlay(e.profiles[u], patch)) = {e}
<1> DEFINE old == d.profiles[u]
           row(p) == [c \in Columns |-> IF c \in PatchColumns THEN OrEmpty(Overlay(p, patch)[c])
                                        ELSE p[c]]
<1>1. e.profiles[u] = row(old) /\ HasProfile(e, u)
  <2>1. e.profiles[u] = row(old)
    BY UpdateProfileRow
  <2>2. Overlay(old, patch) \in Profile /\ old \in Profile
    BY OverlayType DEF HasProfile, Database
  <2>3. row(old) \in Profile
    BY <2>2, OrEmptyType DEF Profile, Columns
  <2> QED BY <2>1, <2>3, NoneAssumption DEF HasProfile
<1>2. \A v : OrEmpty(OrEmpty(v)) = OrEmpty(v)
  BY ValuesAssumption DEF OrEmpty
<1>3. row(row(old)) = row(old)
  <2>1. ASSUME NEW c \in Columns
        PROVE  row(row(old))[c] = row(old)[c]
    BY <1>2 DEF Overlay
  <2> QED BY <2>1
<1>4. [e.profiles EXCEPT ![u] = row(e.profiles[u])] = e.profiles
  BY <1>1, <1>3 DEF Database
<1>5. [e EXCEPT !.profiles[u] = row(e.profiles[u])] = e
  BY <1>4, SameField
<1>6. Checked(e) = {e}
  BY CheckedTwice DEF UpdateProfile
<1> QED BY <1>1, <1>5, <1>6 DEF UpdateProfile

LEMMA AvatarTwice ==
  ASSUME NEW d \in Database, NEW u \in Users, NEW url \in Urls \cup {Empty},
         NEW e \in UpdateAvatarURL(d, u, url), e \in Database
  PROVE  UpdateAvatarURL(e, u, url) = {e}
<1>1. CASE ~HasProfile(e, u)
  BY <1>1 DEF UpdateAvatarURL
<1>2. CASE HasProfile(e, u)
  <2>1. e.profiles[u]["avatar_url"] = url /\ e.profiles[u] \in Profile
    <3>1. e.profiles[u]["avatar_url"] = url
      BY <1>2, AvatarConfirmed
    <3>2. e.profiles[u] \in Profile
      BY <1>2 DEF HasProfile, Database
    <3> QED BY <3>1, <3>2
  <2>2. [e.profiles[u] EXCEPT !["avatar_url"] = url] = e.profiles[u]
    BY <2>1 DEF Profile
  <2>3. [e.profiles EXCEPT ![u] = [@ EXCEPT !["avatar_url"] = url]] = e.profiles
    BY <2>2 DEF Database
  <2>4. [e EXCEPT !.profiles[u] = [@ EXCEPT !["avatar_url"] = url]] = e
    BY <2>3, SameField
  <2>5. Checked(e) = {e}
    BY <1>2, CheckedTwice DEF UpdateAvatarURL, HasProfile
  <2> QED BY <1>2, <2>4, <2>5 DEF UpdateAvatarURL
<1> QED BY <1>1, <1>2

LEMMA ListsTwice ==
  ASSUME NEW d \in Database, NEW u \in Users, NEW v \in Users, NEW k, NEW e \in Database
  PROVE  /\ \A x : e \in AddContact(d, u, v, x) => AddContact(e, u, v, x) = {e}
         /\ e \in RemoveContact(d, u, v) => RemoveContact(e, u, v) = {e}
         /\ e \in AddFavorite(d, u, k) => AddFavorite(e, u, k) = {e}
         /\ e \in RemoveFavorite(d, u, k) => RemoveFavorite(e, u, k) = {e}
<1>1. \A x : e = [d EXCEPT !.contacts[<<u, v>>] = x] => [e EXCEPT !.contacts[<<u, v>>] = x] = e
  <2>1. ASSUME NEW x, e = [d EXCEPT !.contacts[<<u, v>>] = x]
        PROVE  [e EXCEPT !.contacts[<<u, v>>] = x] = e
    <3>1. e.contacts[<<u, v>>] = x
      BY <2>1 DEF Database
    <3>2. [e.contacts EXCEPT ![<<u, v>>] = x] = e.contacts
      BY <3>1 DEF Database
    <3> QED BY <3>2, SameField
  <2> QED BY <2>1
<1>2. ASSUME NEW x, e \in AddContact(d, u, v, x)
      PROVE  AddContact(e, u, v, x) = {e}
  <2>1. e = [d EXCEPT !.contacts[<<u, v>>] = OrEmpty(x)] /\ Checked(e) = {e}
    BY <1>2, CheckedTwice DEF AddContact
  <2> QED BY <1>1, <2>1 DEF AddContact
<1>3. e \in RemoveContact(d, u, v) => RemoveContact(e, u, v) = {e}
  BY <1>1 DEF RemoveContact
<1>4. ASSUME e \in AddFavorite(d, u, k)
      PROVE  AddFavorite(e, u, k) = {e}
  <2>1. /\ k \in StorableChats /\ Checked(e) = {e}
        /\ e = [d EXCEPT !.favorites = @ \cup {<<u, k>>}]
    BY <1>4, CheckedTwice DEF AddFavorite
  <2>2. e.favorites \cup {<<u, k>>} = e.favorites
    BY <2>1 DEF Database
  <2>3. [e EXCEPT !.favorites = @ \cup {<<u, k>>}] = e
    BY <2>2, SameField
  <2> QED BY <2>1, <2>3 DEF AddFavorite
<1>5. ASSUME e \in RemoveFavorite(d, u, k)
      PROVE  RemoveFavorite(e, u, k) = {e}
  <2>1. k \in StorableChats /\ e = [d EXCEPT !.favorites = @ \ {<<u, k>>}]
    BY <1>5 DEF RemoveFavorite
  <2>2. e.favorites \ {<<u, k>>} = e.favorites
    BY <2>1 DEF Database
  <2>3. [e EXCEPT !.favorites = @ \ {<<u, k>>}] = e
    BY <2>2, SameField
  <2> QED BY <2>1, <2>3 DEF RemoveFavorite
<1> QED BY <1>2, <1>3, <1>4, <1>5

LEMMA SettingsTwice ==
  ASSUME NEW d \in Database, NEW u \in Users, NEW e \in Database
  PROVE  /\ \A x : e \in UpdatePrivacy(d, u, x) => UpdatePrivacy(e, u, x) = {e}
         /\ \A k, x : e \in UpsertNotifications(d, u, k, x)
                        => UpsertNotifications(e, u, k, x) = {e}
<1>1. ASSUME NEW x, e \in UpdatePrivacy(d, u, x)
      PROVE  UpdatePrivacy(e, u, x) = {e}
  <2>1. x \in Settings /\ e = [d EXCEPT !.privacy[u] = x] /\ Checked(e) = {e}
    BY <1>1, CheckedTwice DEF UpdatePrivacy
  <2>2. [e.privacy EXCEPT ![u] = x] = e.privacy
    <3>1. e.privacy[u] = x
      BY <2>1 DEF Database
    <3> QED BY <3>1 DEF Database
  <2>3. [e EXCEPT !.privacy[u] = x] = e
    BY <2>2, SameField
  <2> QED BY <2>1, <2>3 DEF UpdatePrivacy
<1>2. ASSUME NEW k, NEW x, e \in UpsertNotifications(d, u, k, x)
      PROVE  UpsertNotifications(e, u, k, x) = {e}
  <2> DEFINE key == <<u, OrEmpty(k)>>
  <2>1. /\ OrEmpty(k) \in StorableChats /\ e = [d EXCEPT !.notifications[key] = x]
        /\ Checked(e) = {e}
    BY <1>2, CheckedTwice DEF UpsertNotifications
  <2>2. key \in Users \X ChatKeys
    BY <2>1, ValuesAssumption DEF ChatKeys, ChatIds
  <2>3. [e.notifications EXCEPT ![key] = x] = e.notifications
    <3> HIDE DEF key
    <3>1. e.notifications[key] = x
      BY <2>1, <2>2 DEF Database
    <3> QED BY <3>1 DEF Database
  <2>4. [e EXCEPT !.notifications[key] = x] = e
    BY <2>3, SameField
  <2> QED BY <2>1, <2>4 DEF UpsertNotifications
<1> QED BY <1>1, <1>2

LEMMA WriteTwice ==
  ASSUME NEW r \in Writes, NEW d \in Database, NEW e \in Database, e \in Api!Effect(d, r)
  PROVE  Api!Effect(e, r) = {e}
<1> DEFINE u == r.user
<1>1. r \in HttpRequests /\ r \notin BadRequests /\ u \in Users
  BY RequestUser, BadEffect DEF HttpRequests
<1>2. CASE r.op = "CreateProfile"
  BY <1>1, <1>2, EffectOf, CreateTwice
<1>3. CASE r.op = "UpdateProfile"
  <2>1. r.patch \in Patches
    BY <1>1, <1>3, GoodBody, RequestFields
  <2>2. HasProfile(d, u) /\ e \in UpdateProfile(d, u, Overlay(d.profiles[u], r.patch))
    BY <1>1, <1>3, EffectOf
  <2>3. HasProfile(e, u) /\ UpdateProfile(e, u, Overlay(e.profiles[u], r.patch)) = {e}
    BY <1>1, <2>1, <2>2, PatchTwice
  <2> QED BY <1>1, <1>3, <2>3, EffectOf
<1>4. CASE r.op = "UploadAvatar"
  <2>1. r.url \in Urls
    BY <1>1, <1>4, GoodBody, RequestFields
  <2> QED BY <1>1, <1>4, <2>1, EffectOf, AvatarTwice
<1>5. CASE r.op = "DeleteAvatar"
  BY <1>1, <1>5, EffectOf, AvatarTwice
<1>6. CASE r.op \in {"AddContact", "DeleteContact"}
  <2>1. r.contact \in Users
    BY <1>1, <1>6, GoodBody, RequestFields
  <2> QED BY <1>1, <1>6, <2>1, EffectOf, ListsTwice
<1>7. CASE r.op \in {"AddFavorite", "RemoveFavorite"}
  BY <1>1, <1>7, EffectOf, ListsTwice
<1>8. CASE r.op = "UpdatePrivacy"
  BY <1>1, <1>8, EffectOf, SettingsTwice
<1>9. CASE r.op \in {"UpdateNotifications", "UpdateChatNotifications"}
  BY <1>1, <1>9, EffectOf, SettingsTwice
<1>10. r.op \in {"CreateProfile", "UpdateProfile", "UploadAvatar", "DeleteAvatar",
                 "AddContact", "DeleteContact", "AddFavorite", "RemoveFavorite",
                 "UpdatePrivacy", "UpdateNotifications", "UpdateChatNotifications"}
  BY DEF Writes
<1> QED BY <1>2, <1>3, <1>4, <1>5, <1>6, <1>7, <1>8, <1>9, <1>10

LEMMA RetryInductive == MInv /\ RetryIsHarmless /\ [Next]_vars => RetryIsHarmless'
<1> SUFFICES ASSUME MInv, RetryIsHarmless, [Next]_vars, NEW c \in Clients,
                    req'[c] \in Writes, Succeeded(reply'[c])
             PROVE  Api!Effect(db', req'[c]) = {db'}
  BY SameRequests, SameAnswers DEF RetryIsHarmless, Api!RetryIsHarmless
<1>1. TypeOK /\ TypeOK' /\ Mapped /\ Mapped'
  BY NextIInv, MappedInductive DEF MInv, IInv
<1>2. phase'[c] = "replying"
  BY <1>1 DEF Mapped, Succeeded
<1>3. req[c] \in Writes /\ Succeeded(reply[c]) => Api!Effect(db, req[c]) = {db}
  BY SameRequests, SameAnswers DEF RetryIsHarmless, Api!RetryIsHarmless
<1>4. CASE \A d \in Clients : ~Handle(d)
  BY <1>2, <1>3, <1>4, OthersAnswerNothing DEF MInv
<1>5. ASSUME NEW d \in Clients, Handle(d)
      PROVE  Api!Effect(db', req'[c]) = {db'}
  <2>1. /\ phase[d] \in {"running", "updating", "fallback"} /\ req' = req
        /\ \A b \in Clients \ {d} : phase'[b] = phase[b]
    BY <1>1, <1>5, HandlerPhase DEF TypeOK
  <2>2. c = d
    BY <1>2, <2>1 DEF MInv, IInv, Serial, InService
  <2>3. Served(c)
    <3>1. ~Refused(c) /\ ~Abandoned(c)
      BY <1>1, RefuseFails DEF Refused, Abandoned
    <3>2. ~Unseen(c)
      BY <1>1, <1>2 DEF Unseen, TypeOK
    <3> QED BY <1>5, <2>2, <3>1, <3>2, HandlerSeen DEF Seen
  <2>4. db \in Database /\ db' \in Database
    BY <1>1 DEF TypeOK
  <2> QED BY <2>1, <2>3, <2>4, WriteTwice DEF Served
<1> QED BY <1>4, <1>5

\* A write that succeeded can be sent again, for any clients and tables, as long as no
\* other request was served between.
THEOREM RetriesAreHarmless == Spec => []RetryIsHarmless
<1>1. Init => RetryIsHarmless
  BY SameAnswers DEF Init, RetryIsHarmless, Api!RetryIsHarmless, Succeeded
<1> QED BY <1>1, RetryInductive, MappingInvariant, PTL DEF Spec
===============================================================================
